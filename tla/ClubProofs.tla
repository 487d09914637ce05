----------------------------- MODULE ClubProofs -----------------------------
(***************************************************************************)
(* Proofs about parts of the club that share no row: the bracket of a      *)
(* tournament, the opening hours and the pages that show a court's slots,  *)
(* the documents and figures of the back office, and the notices of a      *)
(* booking.  Each has an inductive invariant over its own next-state       *)
(* relation.                                                               *)
(***************************************************************************)
EXTENDS Tournament, SlotBoards, Overview, Notices, TotalProofs

\* The least number of a set.
LEMMA LeastNumber ==
    ASSUME NEW T \in SUBSET Nat, T # {}
    PROVE  \E m \in T : \A k \in T : m <= k
<1>1. PICK m \in T : \A k \in T : ~(<<k, m>> \in OpToRel(<, Nat))
  BY NatLessThanWellFounded, WFMin
<1>2. \A k \in T : ~(k < m)
  BY <1>1 DEF OpToRel
<1> QED BY <1>2

-----------------------------------------------------------------------------
(* Recursion on a number: a first value, and a step from each value to the  *)
(* next, make one function.                                                 *)

Recurs(f, n, a, step) == f[0] = a /\ \A k \in 1 .. n : f[k] = step[<<k, f[k - 1]>>]

Recursion(f, a, step) == f[0] = a /\ \A k \in Nat \ {0} : f[k] = step[<<k, f[k - 1]>>]

\* Two that recur agree as far as both go.
LEMMA RecursAlike ==
    ASSUME NEW a, NEW step, NEW f, NEW g, NEW n \in Nat, Recurs(f, n, a, step), Recurs(g, n, a, step)
    PROVE  f[n] = g[n]
<1> DEFINE G == {k \in Nat : k <= n => f[k] = g[k]}
<1>1. 0 \in G
  BY DEF Recurs
<1>2. ASSUME NEW k \in Nat, k \in G PROVE k + 1 \in G
  <2> SUFFICES ASSUME k + 1 <= n PROVE f[k + 1] = g[k + 1]
    OBVIOUS
  <2>1. k + 1 \in 1 .. n /\ (k + 1) - 1 = k /\ f[k] = g[k]
    BY <1>2
  <2> QED BY <2>1 DEF Recurs
<1> HIDE DEF G
<1>3. n \in G
  BY <1>1, <1>2, EveryNumber
<1> QED BY <1>3 DEF G

\* There is one that goes on for ever.
LEMMA RecursExists ==
    ASSUME NEW S, NEW a \in S, NEW step \in [Nat \X S -> S]
    PROVE  \E f \in [Nat -> S] : Recursion(f, a, step)
<1> DEFINE G == {n \in Nat : \E g \in [0 .. n -> S] : Recurs(g, n, a, step)}
<1>1. 0 \in G
  <2>1. [k \in 0 .. 0 |-> a] \in [0 .. 0 -> S] /\ Recurs([k \in 0 .. 0 |-> a], 0, a, step)
    BY DEF Recurs
  <2> QED BY <2>1
<1>2. ASSUME NEW n \in Nat, n \in G PROVE n + 1 \in G
  <2>1. PICK g \in [0 .. n -> S] : Recurs(g, n, a, step)
    BY <1>2
  <2>2. PICK h : h = [k \in 0 .. n + 1 |-> IF k <= n THEN g[k] ELSE step[<<n + 1, g[n]>>]]
    OBVIOUS
  <2>3. h \in [0 .. n + 1 -> S]
    <3>1. ASSUME NEW k \in 0 .. n + 1 PROVE h[k] \in S
      <4>1. <<n + 1, g[n]>> \in Nat \X S
        OBVIOUS
      <4> QED BY <2>2, <4>1
    <3> QED BY <2>2, <3>1
  <2>4. Recurs(h, n + 1, a, step)
    <3>1. h[0] = a
      BY <2>1, <2>2 DEF Recurs
    <3>2. ASSUME NEW k \in 1 .. n + 1 PROVE h[k] = step[<<k, h[k - 1]>>]
      <4>1. h[k - 1] = g[k - 1]
        BY <2>2
      <4>2. CASE k <= n
        <5>1. h[k] = g[k]
          BY <2>2, <4>2
        <5>2. g[k] = step[<<k, g[k - 1]>>]
          BY <2>1, <4>2 DEF Recurs
        <5> QED BY <4>1, <5>1, <5>2
      <4>3. CASE k = n + 1
        <5>1. h[k] = step[<<n + 1, g[n]>>]
          BY <2>2, <4>3
        <5>2. k - 1 = n
          BY <4>3
        <5> QED BY <4>1, <4>3, <5>1, <5>2
      <4> QED BY <4>2, <4>3
    <3> QED BY <3>1, <3>2 DEF Recurs
  <2> QED BY <2>3, <2>4
<1>3. \A n \in Nat : n \in G
  <2> HIDE DEF G
  <2> QED BY <1>1, <1>2, EveryNumber
<1>4. PICK upto : upto = [n \in Nat |-> CHOOSE g \in [0 .. n -> S] : Recurs(g, n, a, step)]
  OBVIOUS
<1>5. \A n \in Nat : upto[n] \in [0 .. n -> S] /\ Recurs(upto[n], n, a, step)
  BY <1>3, <1>4
<1>6. PICK f : f = [n \in Nat |-> upto[n][n]]
  OBVIOUS
<1>7. f \in [Nat -> S]
  BY <1>5, <1>6
<1>8. f[0] = a
  BY <1>5, <1>6 DEF Recurs
<1>9. ASSUME NEW k \in Nat \ {0} PROVE f[k] = step[<<k, f[k - 1]>>]
  <2>1. k - 1 \in Nat /\ k \in 1 .. k
    OBVIOUS
  <2>2. Recurs(upto[k], k, a, step) /\ Recurs(upto[k - 1], k - 1, a, step)
    BY <1>5, <2>1
  <2>3. Recurs(upto[k], k - 1, a, step)
    BY <2>2 DEF Recurs
  <2>4. upto[k][k - 1] = upto[k - 1][k - 1]
    BY <2>1, <2>2, <2>3, RecursAlike
  <2>5. upto[k][k] = step[<<k, upto[k][k - 1]>>]
    BY <2>1, <2>2 DEF Recurs
  <2>6. f[k] = upto[k][k] /\ f[k - 1] = upto[k - 1][k - 1]
    BY <1>6, <2>1
  <2> QED BY <2>4, <2>5, <2>6
<1>10. Recursion(f, a, step)
  BY <1>8, <1>9 DEF Recursion
<1> QED BY <1>7, <1>10

-----------------------------------------------------------------------------
(* The powers of two *)

\* The recursion of Pow2 has a solution, in the positive numbers.
LEMMA Pow2Is ==
    /\ Pow2 \in [Nat -> Nat \ {0}]
    /\ Pow2[0] = 1 /\ \A k \in Nat : Pow2[k + 1] = 2 * Pow2[k]
<1> DEFINE Law(f) == f = [k \in Nat |-> IF k = 0 THEN 1 ELSE 2 * f[k - 1]]
<1>1. PICK step : step = [x \in Nat \X (Nat \ {0}) |-> 2 * x[2]]
  OBVIOUS
<1>2. step \in [Nat \X (Nat \ {0}) -> Nat \ {0}]
  BY <1>1
<1>3. PICK f \in [Nat -> Nat \ {0}] : Recursion(f, 1, step)
  <2>1. 1 \in Nat \ {0}
    OBVIOUS
  <2> QED BY <1>2, <2>1, RecursExists
<1>4. \A k \in Nat \ {0} : f[k] = 2 * f[k - 1]
  <2>1. \A k \in Nat \ {0} : <<k, f[k - 1]>> \in Nat \X (Nat \ {0})
    OBVIOUS
  <2> QED BY <1>1, <1>3, <2>1 DEF Recursion
<1>5. Law(f)
  <2>1. \A k \in Nat : f[k] = IF k = 0 THEN 1 ELSE 2 * f[k - 1]
    BY <1>3, <1>4 DEF Recursion
  <2> QED BY <2>1
<1>6. Pow2 = CHOOSE g : Law(g)
  BY DEF Pow2
<1> HIDE DEF Law
<1>7. Law(Pow2)
  BY <1>5, <1>6
<1> USE DEF Law
<1>8. Pow2 = [k \in Nat |-> IF k = 0 THEN 1 ELSE 2 * Pow2[k - 1]]
  BY <1>7
<1> HIDE DEF Law
<1>p. PICK p : p = Pow2
  OBVIOUS
<1>9. p = [k \in Nat |-> IF k = 0 THEN 1 ELSE 2 * p[k - 1]]
  BY <1>8, <1>p
<1>10. p[0] = 1 /\ \A k \in Nat : p[k + 1] = 2 * p[k]
  <2>1. \A k \in Nat : k + 1 \in Nat /\ k + 1 # 0 /\ (k + 1) - 1 = k
    OBVIOUS
  <2> QED BY <1>9, <2>1
<1>11. \A k \in Nat : p[k] \in Nat \ {0}
  <2> DEFINE G == {k \in Nat : p[k] \in Nat \ {0}}
  <2>1. 0 \in G /\ \A k \in Nat : k \in G => k + 1 \in G
    BY <1>10
  <2> HIDE DEF G
  <2>2. Nat \subseteq G
    BY <2>1, EveryNumber
  <2> QED BY <2>2 DEF G
<1>12. p \in [Nat -> Nat \ {0}]
  <2>1. DOMAIN p = Nat /\ p = [k \in Nat |-> p[k]]
    BY <1>9
  <2> QED BY <1>11, <2>1
<1> QED BY <1>10, <1>12, <1>p

\* A larger power is not smaller.
LEMMA Pow2Grows == ASSUME NEW j \in Nat, NEW k \in Nat, j <= k PROVE Pow2[j] <= Pow2[k]
<1> DEFINE G == {d \in Nat : Pow2[j] <= Pow2[j + d]}
<1>1. 0 \in G
  BY Pow2Is
<1>2. ASSUME NEW d \in Nat, d \in G PROVE d + 1 \in G
  <2>1. Pow2[j + d] \in Nat \ {0} /\ Pow2[j] \in Nat \ {0} /\ j + (d + 1) = (j + d) + 1
    BY Pow2Is
  <2>2. Pow2[(j + d) + 1] = 2 * Pow2[j + d]
    BY Pow2Is
  <2> QED BY <1>2, <2>1, <2>2
<1> HIDE DEF G
<1>3. k - j \in G
  BY <1>1, <1>2, EveryNumber
<1>4. j + (k - j) = k
  OBVIOUS
<1> QED BY <1>3, <1>4 DEF G

-----------------------------------------------------------------------------
(* The seeds *)

\* The next order of seeds: each is followed by its opposite.
Doubled(k, order) ==
    [i \in 1 .. Pow2[k] |-> LET s == order[(i + 1) \div 2] IN IF i % 2 = 1 THEN s ELSE Opposite(k) - s]

\* There is an opposite for every seed of the order before.
LEMMA DoubledTyped ==
    ASSUME NEW k \in Nat \ {0}, NEW order \in [1 .. Pow2[k - 1] -> Int]
    PROVE  Doubled(k, order) \in [1 .. Pow2[k] -> Int]
<1>1. Pow2[k] = 2 * Pow2[k - 1] /\ Pow2[k - 1] \in Nat /\ Pow2[k] \in Nat
  <2>1. k - 1 \in Nat /\ (k - 1) + 1 = k
    OBVIOUS
  <2> QED BY <2>1, Pow2Is
<1>2. ASSUME NEW i \in 1 .. Pow2[k]
      PROVE  (LET s == order[(i + 1) \div 2] IN IF i % 2 = 1 THEN s ELSE Opposite(k) - s) \in Int
  <2>1. (i + 1) \div 2 \in 1 .. Pow2[k - 1]
    BY <1>1
  <2>2. order[(i + 1) \div 2] \in Int
    BY <2>1
  <2> QED BY <1>1, <2>2 DEF Opposite
<1> QED BY <1>2 DEF Doubled

\* The recursion of SeedOrder has a solution.
LEMMA SeedOrderIs ==
    /\ SeedOrder[0] = <<1>>
    /\ \A k \in Nat \ {0} : SeedOrder[k] = Doubled(k, SeedOrder[k - 1])
    /\ \A k \in Nat : SeedOrder[k] \in [1 .. Pow2[k] -> Int]
<1> DEFINE Law(f) == f = [k \in Nat |-> IF k = 0 THEN <<1>> ELSE Doubled(k, f[k - 1])]
<1>0. PICK S : S = UNION {[1 .. m -> Int] : m \in Nat}
  OBVIOUS
<1>1. PICK step : step = [x \in Nat \X S |-> IF x[1] # 0 /\ x[2] \in [1 .. Pow2[x[1] - 1] -> Int]
                                             THEN Doubled(x[1], x[2]) ELSE <<1>>]
  OBVIOUS
<1>o. <<1>> \in [1 .. Pow2[0] -> Int] /\ Pow2[0] \in Nat /\ Pow2 \in [Nat -> Nat]
  BY Pow2Is
<1>s. \A k \in Nat : [1 .. Pow2[k] -> Int] \subseteq S
  <2>1. \A k \in Nat : Pow2[k] \in Nat
    BY Pow2Is
  <2> QED BY <1>0, <2>1
<1>2. step \in [Nat \X S -> S]
  <2>1. ASSUME NEW x \in Nat \X S PROVE step[x] \in S
    <3>1. CASE x[1] # 0 /\ x[2] \in [1 .. Pow2[x[1] - 1] -> Int]
      <4>1. x[1] \in Nat \ {0}
        BY <3>1
      <4>2. Doubled(x[1], x[2]) \in [1 .. Pow2[x[1]] -> Int]
        BY <3>1, <4>1, DoubledTyped
      <4> QED BY <1>1, <1>s, <3>1, <4>1, <4>2
    <3>2. CASE ~(x[1] # 0 /\ x[2] \in [1 .. Pow2[x[1] - 1] -> Int])
      <4>1. step[x] = <<1>>
        BY <1>1, <3>2
      <4> QED BY <1>o, <1>s, <4>1
    <3> QED BY <3>1, <3>2
  <2> QED BY <1>1, <2>1
<1>a. <<1>> \in S
  BY <1>o, <1>s
<1>3. PICK f \in [Nat -> S] : f[0] = <<1>> /\ \A k \in Nat \ {0} : f[k] = step[<<k, f[k - 1]>>]
  <2>1. PICK f \in [Nat -> S] : Recursion(f, <<1>>, step)
    BY <1>2, <1>a, RecursExists
  <2> QED BY <2>1 DEF Recursion
<1>4. \A k \in Nat : f[k] \in [1 .. Pow2[k] -> Int] /\ (k # 0 => f[k] = Doubled(k, f[k - 1]))
  <2>1. ASSUME NEW k \in Nat \ {0}, f[k - 1] \in [1 .. Pow2[k - 1] -> Int]
        PROVE  f[k] = Doubled(k, f[k - 1]) /\ f[k] \in [1 .. Pow2[k] -> Int]
    <3>1. PICK x : x = <<k, f[k - 1]>>
      OBVIOUS
    <3>2. x \in Nat \X S /\ x[1] = k /\ x[2] = f[k - 1]
      BY <3>1
    <3>3. step[x] = Doubled(k, f[k - 1])
      BY <1>1, <2>1, <3>2
    <3>4. f[k] = Doubled(k, f[k - 1])
      BY <1>3, <3>1, <3>3
    <3> QED BY <2>1, <3>4, DoubledTyped
  <2> DEFINE G == {k \in Nat : f[k] \in [1 .. Pow2[k] -> Int]}
  <2>2. 0 \in G
    BY <1>3, <1>o
  <2>3. ASSUME NEW k \in Nat, k \in G PROVE k + 1 \in G
    <3>1. k + 1 \in Nat \ {0} /\ (k + 1) - 1 = k
      OBVIOUS
    <3>2. f[(k + 1) - 1] \in [1 .. Pow2[(k + 1) - 1] -> Int]
      BY <2>3, <3>1
    <3>3. f[k + 1] \in [1 .. Pow2[k + 1] -> Int]
      BY <2>1, <3>1, <3>2
    <3> QED BY <3>3
  <2>4. \A k \in Nat : k \in G
    <3> HIDE DEF G
    <3> QED BY <2>2, <2>3, EveryNumber
  <2>5. ASSUME NEW k \in Nat, k # 0 PROVE f[k] = Doubled(k, f[k - 1])
    <3>1. k \in Nat \ {0} /\ k - 1 \in Nat
      BY <2>5
    <3>2. k - 1 \in G
      BY <2>4, <3>1
    <3>3. f[k - 1] \in [1 .. Pow2[k - 1] -> Int]
      BY <3>2
    <3> QED BY <2>1, <3>1, <3>3
  <2> QED BY <2>4, <2>5
<1>5. Law(f)
  <2>1. \A k \in Nat : f[k] = IF k = 0 THEN <<1>> ELSE Doubled(k, f[k - 1])
    BY <1>3, <1>4
  <2>2. f = [k \in Nat |-> f[k]]
    OBVIOUS
  <2> QED BY <2>1, <2>2
<1>6. SeedOrder = CHOOSE g : Law(g)
  BY DEF SeedOrder, Doubled
<1> HIDE DEF Law
<1>7. Law(SeedOrder)
  BY <1>5, <1>6
<1> USE DEF Law
<1>8. SeedOrder = [k \in Nat |-> IF k = 0 THEN <<1>> ELSE Doubled(k, SeedOrder[k - 1])]
  BY <1>7
<1> HIDE DEF Law
<1>9. PICK p : p = SeedOrder
  OBVIOUS
<1>10. p = [k \in Nat |-> IF k = 0 THEN <<1>> ELSE Doubled(k, p[k - 1])]
  BY <1>8, <1>9
<1>11. p[0] = <<1>> /\ \A k \in Nat \ {0} : p[k] = Doubled(k, p[k - 1])
  BY <1>10
<1>12. \A k \in Nat : p[k] \in [1 .. Pow2[k] -> Int]
  <2> DEFINE G == {k \in Nat : p[k] \in [1 .. Pow2[k] -> Int]}
  <2>1. 0 \in G
    BY <1>11, <1>o
  <2>2. ASSUME NEW k \in Nat, k \in G PROVE k + 1 \in G
    <3>1. k + 1 \in Nat \ {0} /\ (k + 1) - 1 = k
      OBVIOUS
    <3>2. p[(k + 1) - 1] \in [1 .. Pow2[(k + 1) - 1] -> Int] /\ p[k + 1] = Doubled(k + 1, p[(k + 1) - 1])
      BY <1>11, <2>2, <3>1
    <3>3. p[k + 1] \in [1 .. Pow2[k + 1] -> Int]
      BY <3>1, <3>2, DoubledTyped
    <3> QED BY <3>3
  <2>3. \A k \in Nat : k \in G
    <3> HIDE DEF G
    <3> QED BY <2>1, <2>2, EveryNumber
  <2> QED BY <2>3
<1> QED BY <1>9, <1>11, <1>12

\* The two seeds of a first-round match: one of the half as large tree, and its
\* opposite.
LEMMA PairOf ==
    ASSUME NEW k \in Nat \ {0}, NEW p \in 1 .. Pow2[k - 1]
    PROVE  /\ 2 * p - 1 \in 1 .. Pow2[k] /\ 2 * p \in 1 .. Pow2[k]
           /\ SeedOrder[k][2 * p - 1] = SeedOrder[k - 1][p]
           /\ SeedOrder[k][2 * p] = Pow2[k] + 1 - SeedOrder[k - 1][p]
<1>1. Pow2[k] = 2 * Pow2[k - 1] /\ Pow2[k - 1] \in Nat /\ Pow2[k] \in Nat
  <2>1. k - 1 \in Nat /\ (k - 1) + 1 = k
    OBVIOUS
  <2> QED BY <2>1, Pow2Is
<1>2. 2 * p - 1 \in 1 .. Pow2[k] /\ 2 * p \in 1 .. Pow2[k]
  BY <1>1
<1>3. ((2 * p - 1) + 1) \div 2 = p /\ (2 * p + 1) \div 2 = p /\ (2 * p - 1) % 2 = 1 /\ (2 * p) % 2 # 1
  OBVIOUS
<1>4. PICK s : s = SeedOrder[k - 1]
  OBVIOUS
<1>5. SeedOrder[k] = Doubled(k, s)
  BY <1>4, SeedOrderIs
<1>6. SeedOrder[k][2 * p - 1] = s[p] /\ SeedOrder[k][2 * p] = Opposite(k) - s[p]
  BY <1>2, <1>3, <1>5 DEF Doubled
<1>7. s \in [1 .. Pow2[k - 1] -> Int] /\ Opposite(k) = Pow2[k] + 1
  <2>1. k - 1 \in Nat
    OBVIOUS
  <2> QED BY <2>1, <1>4, SeedOrderIs DEF Opposite
<1>8. SeedOrder[k][2 * p - 1] = SeedOrder[k - 1][p]
  BY <1>4, <1>6
<1>9. SeedOrder[k][2 * p] = Pow2[k] + 1 - SeedOrder[k - 1][p]
  <2>1. SeedOrder[k][2 * p] = Opposite(k) - s[p] /\ Opposite(k) = Pow2[k] + 1
    BY <1>6, <1>7
  <2>2. PICK x \in Int : x = s[p]
    BY <1>7
  <2>3. SeedOrder[k][2 * p] = (Pow2[k] + 1) - x
    BY <2>1, <2>2
  <2> QED BY <1>1, <1>4, <2>2, <2>3
<1> QED BY <1>2, <1>8, <1>9

\* Every seed stands in one place of the order.
LEMMA SeedsOnce ==
    ASSUME NEW k \in Nat
    PROVE  /\ SeedOrder[k] \in [1 .. Pow2[k] -> 1 .. Pow2[k]]
           /\ \A i, j \in 1 .. Pow2[k] : SeedOrder[k][i] = SeedOrder[k][j] => i = j
           /\ \A s \in 1 .. Pow2[k] : \E i \in 1 .. Pow2[k] : SeedOrder[k][i] = s
<1> DEFINE P(n) == /\ SeedOrder[n] \in [1 .. Pow2[n] -> 1 .. Pow2[n]]
                   /\ \A i, j \in 1 .. Pow2[n] : SeedOrder[n][i] = SeedOrder[n][j] => i = j
                   /\ \A s \in 1 .. Pow2[n] : \E i \in 1 .. Pow2[n] : SeedOrder[n][i] = s
           G == {n \in Nat : P(n)}
<1>1. P(0)
  <2>1. SeedOrder[0] = <<1>> /\ Pow2[0] = 1
    BY SeedOrderIs, Pow2Is
  <2> QED BY <2>1
<1>2. ASSUME NEW n \in Nat, P(n) PROVE P(n + 1)
  <2>0. (n + 1) - 1 = n /\ n + 1 \in Nat \ {0}
    OBVIOUS
  <2>1. PICK w \in Nat \ {0} : w = Pow2[n] /\ Pow2[n + 1] = 2 * w
    BY Pow2Is
  <2>2. PICK a : a = SeedOrder[n]
    OBVIOUS
  <2>3. PICK b : b = SeedOrder[n + 1]
    OBVIOUS
  <2>4. /\ a \in [1 .. w -> 1 .. w]
        /\ \A i, j \in 1 .. w : a[i] = a[j] => i = j
        /\ \A s \in 1 .. w : \E i \in 1 .. w : a[i] = s
    BY <1>2, <2>1, <2>2
  <2>5. \A p \in 1 .. w : b[2 * p - 1] = a[p] /\ b[2 * p] = 2 * w + 1 - a[p]
    <3>1. \A p \in 1 .. Pow2[(n + 1) - 1] :
             /\ SeedOrder[n + 1][2 * p - 1] = SeedOrder[(n + 1) - 1][p]
             /\ SeedOrder[n + 1][2 * p] = Pow2[n + 1] + 1 - SeedOrder[(n + 1) - 1][p]
      BY <2>0, PairOf
    <3> QED BY <2>0, <2>1, <2>2, <2>3, <3>1
  <2>6. b \in [1 .. 2 * w -> Int]
    BY <2>1, <2>3, SeedOrderIs
  <2>7. \A i \in 1 .. 2 * w : \E p \in 1 .. w : i = 2 * p - 1 \/ i = 2 * p
    <3>1. ASSUME NEW i \in 1 .. 2 * w PROVE \E p \in 1 .. w : i = 2 * p - 1 \/ i = 2 * p
      <4>1. (i + 1) \div 2 \in 1 .. w /\ (i = 2 * ((i + 1) \div 2) - 1 \/ i = 2 * ((i + 1) \div 2))
        OBVIOUS
      <4> QED BY <4>1
    <3> QED BY <3>1
  <2>8. ASSUME NEW i \in 1 .. 2 * w PROVE b[i] \in 1 .. 2 * w
    <3>1. PICK p \in 1 .. w : i = 2 * p - 1 \/ i = 2 * p
      BY <2>7
    <3>2. a[p] \in 1 .. w
      BY <2>4
    <3> QED BY <2>5, <3>1, <3>2
  <2>9. ASSUME NEW i \in 1 .. 2 * w, NEW j \in 1 .. 2 * w, b[i] = b[j] PROVE i = j
    <3>1. PICK p \in 1 .. w : i = 2 * p - 1 \/ i = 2 * p
      BY <2>7
    <3>2. PICK q \in 1 .. w : j = 2 * q - 1 \/ j = 2 * q
      BY <2>7
    <3>3. a[p] \in 1 .. w /\ a[q] \in 1 .. w
      BY <2>4
    <3>4. a[p] = a[q] => p = q
      BY <2>4
    <3> QED BY <2>5, <2>9, <3>1, <3>2, <3>3, <3>4
  <2>10. ASSUME NEW s \in 1 .. 2 * w PROVE \E i \in 1 .. 2 * w : b[i] = s
    <3>1. CASE s <= w
      <4>1. PICK p \in 1 .. w : a[p] = s
        BY <2>4, <3>1
      <4>2. 2 * p - 1 \in 1 .. 2 * w
        OBVIOUS
      <4> QED BY <2>5, <4>1, <4>2
    <3>2. CASE s > w
      <4>1. 2 * w + 1 - s \in 1 .. w
        BY <3>2
      <4>2. PICK p \in 1 .. w : a[p] = 2 * w + 1 - s
        BY <2>4, <4>1
      <4>3. 2 * p \in 1 .. 2 * w /\ b[2 * p] = s
        BY <2>5, <4>2
      <4> QED BY <4>3
    <3> QED BY <3>1, <3>2
  <2>11. b \in [1 .. 2 * w -> 1 .. 2 * w]
    BY <2>6, <2>8
  <2> QED BY <2>1, <2>3, <2>9, <2>10, <2>11
<1> HIDE DEF P
<1>3. k \in G
  <2>1. 0 \in G /\ \A n \in Nat : n \in G => n + 1 \in G
    BY <1>1, <1>2
  <2> HIDE DEF G
  <2> QED BY <2>1, EveryNumber
<1>4. P(k)
  BY <1>3
<1> QED BY <1>4 DEF P

\* The rounds of a draw of n teams: the least tree with a place for each.
LEMMA RoundsAre ==
    ASSUME NEW n \in Nat, 2 <= n, n <= Pow2[MaxRounds]
    PROVE  /\ Rounds(n) \in 1 .. MaxRounds
           /\ n <= Pow2[Rounds(n)] /\ Pow2[Rounds(n) - 1] < n
           /\ Pow2[Rounds(n)] = 2 * Pow2[Rounds(n) - 1] /\ Pow2[Rounds(n)] <= Pow2[MaxRounds]
           /\ Pow2[Rounds(n) - 1] \in Nat \ {0}
<1>0. MaxRounds \in Nat
  BY SizesAssumption
<1>p. \A k \in Nat : Pow2[k] \in Nat \ {0}
  BY Pow2Is
<1> DEFINE T == {k \in Nat : n <= Pow2[k]}
<1>1. PICK m \in T : \A k \in T : m <= k
  BY <1>0, LeastNumber
<1>2. m \in 0 .. MaxRounds /\ Pow2[m] >= n /\ \A j \in 0 .. m - 1 : Pow2[j] < n
  <2>1. m <= MaxRounds /\ m \in Nat
    BY <1>0, <1>1
  <2>2. \A j \in 0 .. m - 1 : j \in Nat /\ ~(m <= j)
    BY <2>1
  <2>3. \A j \in 0 .. m - 1 : Pow2[j] < n
    BY <1>1, <1>p, <2>2
  <2> QED BY <1>0, <1>1, <1>p, <2>1, <2>3
<1>3. PICK r : r = Rounds(n)
  OBVIOUS
<1>4. r \in 0 .. MaxRounds /\ Pow2[r] >= n /\ \A j \in 0 .. r - 1 : Pow2[j] < n
  BY <1>2, <1>3 DEF Rounds
<1>5. r # 0
  BY <1>4, Pow2Is
<1>6. r \in 1 .. MaxRounds /\ r - 1 \in Nat /\ r - 1 \in 0 .. r - 1 /\ (r - 1) + 1 = r
  BY <1>0, <1>4, <1>5
<1>7. Pow2[r - 1] < n /\ Pow2[r] = 2 * Pow2[r - 1]
  BY <1>4, <1>6, Pow2Is
<1>8. Pow2[r] <= Pow2[MaxRounds]
  BY <1>0, <1>6, Pow2Grows
<1> QED BY <1>3, <1>4, <1>6, <1>7, <1>8, <1>p

-----------------------------------------------------------------------------
(* Types *)

\* Every team and every winner is registered, and each team beyond the cap is a
\* registration that read the tournament while there was room.
Registered(n) == (1 .. n) \cup {None}
MatchRow(n)   == [team : [{1, 2} -> Registered(n)], winner : Registered(n)]
ResultRow(n)  == [stage : {"none", "read", "stored"}, at : Int \X Int, winner : Registered(n), live : BOOLEAN]
Inserted      == {c \in Entrants : entry[c] = "in"}

TournamentTyped ==
    /\ status \in Status /\ redrawn \in BOOLEAN /\ raced \in BOOLEAN
    /\ count \in Nat /\ count <= MaxTeams + Cardinality(Inserted)
    /\ entry \in [Entrants -> {"none", "read", "in"}]
    /\ drawn \in 0 .. count
    /\ DOMAIN match = IF drawn = 0 THEN {} ELSE Places(drawn)
    /\ \A m \in DOMAIN match : match[m] \in MatchRow(count)
    /\ result \in [Recorders -> ResultRow(count)]

\* The registrations that went through can be counted.
LEMMA InsertedCounted == IsFiniteSet(Inserted) /\ Cardinality(Inserted) \in Nat /\ Cardinality(Inserted) <= Cardinality(Entrants)
                         /\ Cardinality(Entrants) \in Nat
<1>1. Inserted \in SUBSET Entrants /\ IsFiniteSet(Entrants)
  BY SizesAssumption DEF Inserted
<1> QED BY <1>1, FS_Subset, FS_CardinalityType

\* The count never passes the teams and the entrants.
LEMMA TournamentTypedIs == TournamentTyped => TournamentTypeOK
<1> SUFFICES ASSUME TournamentTyped PROVE TournamentTypeOK
  OBVIOUS
<1>1. count \in 0 .. MaxTeams + Cardinality(Entrants)
  BY InsertedCounted, SizesAssumption DEF TournamentTyped
<1>2. ASSUME NEW m \in DOMAIN match
      PROVE  match[m].winner \in Registered(count) /\ \A side \in {1, 2} : match[m].team[side] \in Registered(count)
  <2>1. match[m] \in MatchRow(count)
    BY DEF TournamentTyped
  <2> QED BY <2>1 DEF MatchRow
<1> QED BY <1>1, <1>2 DEF TournamentTyped, TournamentTypeOK, Registered

\* No result yet is a row like any other.
LEMMA NoResultTyped == ASSUME NEW n PROVE NoResult \in ResultRow(n)
<1>1. None \in Registered(n)
  BY DEF Registered
<1> HIDE DEF Registered
<1> QED BY <1>1 DEF NoResult, ResultRow

\* There is no draw at first.
LEMMA TournamentTypedStarts == TournamentInit => TournamentTyped
<1> SUFFICES ASSUME TournamentInit PROVE TournamentTyped
  OBVIOUS
<1>1. count \in Nat /\ count <= MaxTeams + Cardinality(Inserted)
  BY InsertedCounted, SizesAssumption DEF TournamentInit
<1>2. DOMAIN match = {} /\ drawn = 0
  BY DEF TournamentInit
<1>4. NoResult \in ResultRow(count)
  BY NoResultTyped
<1>3. result \in [Recorders -> ResultRow(count)]
  BY <1>4 DEF TournamentInit
<1>6. /\ status \in Status /\ redrawn \in BOOLEAN /\ raced \in BOOLEAN
      /\ entry \in [Entrants -> {"none", "read", "in"}]
  BY DEF TournamentInit, Status
<1> QED BY <1>1, <1>2, <1>3, <1>6 DEF TournamentTyped

\* More teams leave every row a row.
LEMMA RowsGrow ==
    ASSUME NEW n \in Nat
    PROVE  /\ Registered(n) \subseteq Registered(n + 1) /\ MatchRow(n) \subseteq MatchRow(n + 1)
           /\ ResultRow(n) \subseteq ResultRow(n + 1)
<1>1. Registered(n) \subseteq Registered(n + 1)
  BY DEF Registered
<1> QED BY <1>1 DEF MatchRow, ResultRow

\* A draw seats teams that are registered.
LEMMA DrawTyped ==
    ASSUME NEW n \in Nat
    PROVE  DOMAIN Draw(n) = Places(n) /\ \A m \in Places(n) : Draw(n)[m] \in MatchRow(n)
<1>1. \A i : Slot(n, i) \in Registered(n)
  BY DEF Slot, Registered
<1>2. \A p : Unopposed(n, p) \in Registered(n)
  BY <1>1 DEF Unopposed
<1>3. None \in Registered(n)
  BY DEF Registered
<1>4. \A r, p, side : Seat(n, r, p, side) \in Registered(n)
  BY <1>1, <1>2, <1>3 DEF Seat
<1>5. ASSUME NEW m \in Places(n)
      PROVE  [team |-> [side \in {1, 2} |-> Seat(n, m[1], m[2], side)],
              winner |-> IF m[1] = 1 /\ Advances(n, m[2]) THEN Unopposed(n, m[2]) ELSE None] \in MatchRow(n)
  <2>1. [side \in {1, 2} |-> Seat(n, m[1], m[2], side)] \in [{1, 2} -> Registered(n)]
    BY <1>4
  <2>2. (IF m[1] = 1 /\ Advances(n, m[2]) THEN Unopposed(n, m[2]) ELSE None) \in Registered(n)
    BY <1>2, <1>3
  <2> HIDE DEF Registered
  <2> QED BY <2>1, <2>2 DEF MatchRow
<1>6. DOMAIN Draw(n) = Places(n)
  BY DEF Draw
<1>7. \A m \in Places(n) : Draw(n)[m] =
             [team |-> [side \in {1, 2} |-> Seat(n, m[1], m[2], side)],
              winner |-> IF m[1] = 1 /\ Advances(n, m[2]) THEN Unopposed(n, m[2]) ELSE None]
  BY DEF Draw
<1> QED BY <1>5, <1>6, <1>7

\* Registrations, draws and results keep rows and seats within the teams
\* registered.
LEMMA TournamentTypedStep == TournamentTyped /\ [TournamentNext]_tournamentVars => TournamentTyped'
<1> SUFFICES ASSUME TournamentTyped, [TournamentNext]_tournamentVars PROVE TournamentTyped'
  OBVIOUS
<1>t. /\ count \in Nat /\ drawn \in 0 .. count /\ MaxTeams \in Nat
      /\ Cardinality(Inserted) \in Nat /\ count <= MaxTeams + Cardinality(Inserted)
  BY InsertedCounted, SizesAssumption DEF TournamentTyped
<1>1. CASE UNCHANGED tournamentVars
  BY <1>1 DEF tournamentVars, TournamentTyped, Inserted
<1>2. ASSUME NEW c \in Entrants, RegisterReads(c) PROVE TournamentTyped'
  <2>1. Inserted' = Inserted /\ entry' \in [Entrants -> {"none", "read", "in"}]
    BY <1>2 DEF RegisterReads, Inserted, TournamentTyped
  <2> QED BY <1>2, <2>1 DEF RegisterReads, TournamentTyped
<1>3. ASSUME NEW c \in Entrants, RegisterInserts(c) PROVE TournamentTyped'
  <2>1. Inserted' = Inserted \cup {c} /\ c \notin Inserted /\ entry' \in [Entrants -> {"none", "read", "in"}]
    BY <1>3 DEF RegisterInserts, Inserted, TournamentTyped
  <2>2. Cardinality(Inserted') = Cardinality(Inserted) + 1
    BY <2>1, InsertedCounted, FS_AddElement
  <2>3. count' = count + 1 /\ UNCHANGED <<status, match, drawn, result, redrawn, raced>>
    BY <1>3 DEF RegisterInserts
  <2>4. count' \in Nat /\ count' <= MaxTeams + Cardinality(Inserted') /\ drawn' \in 0 .. count'
    BY <1>t, <2>2, <2>3
  <2>5. Registered(count) \subseteq Registered(count') /\ MatchRow(count) \subseteq MatchRow(count')
       /\ ResultRow(count) \subseteq ResultRow(count')
    BY <1>t, <2>3, RowsGrow
  <2> QED BY <2>1, <2>3, <2>4, <2>5 DEF TournamentTyped
<1>4. CASE GenerateBracket
  <2>1. /\ match' = Draw(count) /\ drawn' = count /\ count >= 2 /\ UNCHANGED <<count, entry, raced>>
        /\ status' = "in_progress" /\ result' = [o \in Recorders |-> [result[o] EXCEPT !.live = FALSE]]
    BY <1>4 DEF GenerateBracket
  <2>2. /\ DOMAIN match' = IF drawn' = 0 THEN {} ELSE Places(drawn')
        /\ \A m \in DOMAIN match' : match'[m] \in MatchRow(count')
    BY <1>t, <2>1, DrawTyped
  <2>3. result' \in [Recorders -> ResultRow(count)]
    BY <2>1 DEF TournamentTyped, ResultRow
  <2>5. redrawn' \in BOOLEAN
    <3>1. redrawn' = (redrawn \/ UnderWay # {})
      BY <1>4 DEF GenerateBracket
    <3> QED BY <3>1, Zenon
  <2>6. Inserted' = Inserted
    BY <2>1 DEF Inserted
  <2> QED BY <1>t, <2>1, <2>2, <2>3, <2>5, <2>6 DEF TournamentTyped, Status
<1>5. ASSUME NEW s \in Status, UpdateTournament(s) PROVE TournamentTyped'
  BY <1>5 DEF UpdateTournament, TournamentTyped, Inserted
<1>6. ASSUME NEW o \in Recorders, NEW m \in DOMAIN match, NEW w \in {match[m].team[1], match[m].team[2]},
             ResultReads(o, m, w)
      PROVE  TournamentTyped'
  <2>1. w \in Registered(count)
    <3>1. match[m] \in MatchRow(count)
      BY DEF TournamentTyped
    <3> QED BY <3>1 DEF MatchRow
  <2>2. /\ result' = [result EXCEPT ![o] = [stage |-> "read", at |-> m, winner |-> w, live |-> TRUE]]
        /\ UNCHANGED <<status, count, entry, match, drawn, redrawn>>
    BY <1>6 DEF ResultReads
  <2>3. m \in Int \X Int
    BY DEF TournamentTyped, Places
  <2>4. result' \in [Recorders -> ResultRow(count)]
    <3>1. [stage |-> "read", at |-> m, winner |-> w, live |-> TRUE] \in ResultRow(count)
      BY <2>1, <2>3 DEF ResultRow
    <3> QED BY <2>2, <3>1 DEF TournamentTyped
  <2>5. raced' \in BOOLEAN
    <3>1. raced' = (raced \/ match[m].winner # None \/ \E x \in UnderWay : result[x].at = m)
      BY <1>6 DEF ResultReads
    <3> QED BY <3>1, Zenon
  <2> QED BY <2>2, <2>4, <2>5 DEF TournamentTyped, Inserted
<1>7. ASSUME NEW o \in Recorders,
             result' = [result EXCEPT ![o].stage = "stored"] \/ result' = [result EXCEPT ![o] = NoResult]
      PROVE  result' \in [Recorders -> ResultRow(count)]
  <2>1. CASE result' = [result EXCEPT ![o].stage = "stored"]
    BY <2>1 DEF TournamentTyped, ResultRow
  <2>2. CASE result' = [result EXCEPT ![o] = NoResult]
    BY <2>2, NoResultTyped DEF TournamentTyped
  <2> QED BY <1>7, <2>1, <2>2
<1>8. ASSUME NEW o \in Recorders, ResultStores(o) PROVE TournamentTyped'
  <2>1. \A m \in DOMAIN match' : match'[m] \in MatchRow(count)
    <3>1. CASE match' = match
      BY <3>1 DEF TournamentTyped
    <3>2. CASE match' = [match EXCEPT ![result[o].at].winner = result[o].winner]
      <4>1. ASSUME NEW m \in DOMAIN match PROVE match'[m] \in MatchRow(count)
        <5>1. match[m] \in MatchRow(count) /\ result[o].winner \in Registered(count)
          BY DEF TournamentTyped, ResultRow
        <5>2. match'[m] = match[m] \/ match'[m] = [match[m] EXCEPT !.winner = result[o].winner]
          BY <3>2
        <5> QED BY <5>1, <5>2 DEF MatchRow
      <4> QED BY <3>2, <4>1
    <3> QED BY <1>8, <3>1, <3>2 DEF ResultStores
  <2>2. DOMAIN match' = DOMAIN match
    BY <1>8 DEF ResultStores
  <2>3. result' = [result EXCEPT ![o].stage = "stored"] /\ UNCHANGED <<status, count, entry, drawn, redrawn, raced>>
    BY <1>8 DEF ResultStores
  <2> QED BY <1>7, <2>1, <2>2, <2>3 DEF TournamentTyped, Inserted
<1>9. ASSUME NEW o \in Recorders, ResultAdvances(o) PROVE TournamentTyped'
  <2> DEFINE from == result[o].at
             up == <<from[1] + 1, Above(from[2])>>
  <2>1. /\ \/ match' = [match EXCEPT ![up].team[Side(from[2])] = result[o].winner] /\ status' = status
           \/ match' = match /\ status' = "completed"
        /\ result' = [result EXCEPT ![o] = NoResult]
        /\ UNCHANGED <<count, entry, drawn, redrawn, raced>>
    BY <1>9 DEF ResultAdvances
  <2>2. DOMAIN match' = DOMAIN match
    BY <2>1
  <2>3. \A m \in DOMAIN match' : match'[m] \in MatchRow(count)
    <3>1. CASE match' = match
      BY <3>1 DEF TournamentTyped
    <3>2. CASE match' = [match EXCEPT ![up].team[Side(from[2])] = result[o].winner]
      <4> HIDE DEF up, from
      <4>1. ASSUME NEW m \in DOMAIN match PROVE match'[m] \in MatchRow(count)
        <5>1. match[m] \in MatchRow(count) /\ result[o].winner \in Registered(count)
          BY DEF TournamentTyped, ResultRow
        <5>2. match'[m] = match[m] \/ match'[m] = [match[m] EXCEPT !.team[Side(from[2])] = result[o].winner]
          BY <3>2
        <5> QED BY <5>1, <5>2 DEF MatchRow
      <4> QED BY <2>2, <4>1
    <3> QED BY <2>1, <3>1, <3>2
  <2>4. status' \in Status
    BY <2>1 DEF Status, TournamentTyped
  <2> HIDE DEF up, from
  <2> QED BY <1>7, <2>1, <2>2, <2>3, <2>4 DEF TournamentTyped, Inserted
<1>10. ASSUME NEW o \in Recorders, ResultLost(o) PROVE TournamentTyped'
  <2>1. /\ result' = [result EXCEPT ![o] = NoResult] /\ UNCHANGED <<status, count, entry, match, drawn, redrawn>>
        /\ raced' = (raced \/ result[o].stage = "stored")
    BY <1>10 DEF ResultLost
  <2>2. raced' \in BOOLEAN
    BY <2>1, Zenon
  <2> QED BY <1>7, <2>1, <2>2 DEF TournamentTyped, Inserted
<1> QED BY <1>1, <1>2, <1>3, <1>4, <1>5, <1>6, <1>8, <1>9, <1>10 DEF TournamentNext

-----------------------------------------------------------------------------
(* The tree *)

Drawable(n) == n \in Nat /\ 2 <= n /\ n <= Pow2[MaxRounds]

\* Who is seated in round 1: every team once, a team in the first place of
\* every match, and a team without an opponent among the strongest seeds.
LEMMA SlotsAre ==
    ASSUME NEW n, Drawable(n)
    PROVE  /\ \A t \in 1 .. n : \E i \in 1 .. Pow2[Rounds(n)] :
                  \A j \in 1 .. Pow2[Rounds(n)] : Slot(n, j) = t <=> j = i
           /\ \A p \in 1 .. Pow2[Rounds(n) - 1] :
                  /\ Slot(n, 2 * p - 1) \in 1 .. n /\ Slot(n, 2 * p - 1) # None
                  /\ Slot(n, 2 * p) = None => Rounds(n) # 1 /\ Slot(n, 2 * p - 1) <= Pow2[Rounds(n)] - n
           /\ None \notin 1 .. n
<1>1. /\ n \in Nat /\ 2 <= n
      /\ Rounds(n) \in 1 .. MaxRounds
      /\ n <= Pow2[Rounds(n)] /\ Pow2[Rounds(n) - 1] < n
      /\ Pow2[Rounds(n)] = 2 * Pow2[Rounds(n) - 1] /\ Pow2[Rounds(n) - 1] \in Nat \ {0}
  BY RoundsAre DEF Drawable
<1>0. MaxRounds \in Nat /\ Pow2[MaxRounds] \in Nat
  BY SizesAssumption, Pow2Is
<1>2. None \notin 1 .. n
  BY <1>0, SizesAssumption DEF Teams, Drawable
<1>3. PICK k : k = Rounds(n)
  OBVIOUS
<1>4. PICK h : h = Pow2[k - 1]
  OBVIOUS
<1>5. k \in Nat \ {0} /\ h \in Nat \ {0} /\ Pow2[k] = 2 * h /\ n <= 2 * h /\ h < n /\ k - 1 \in Nat
  BY <1>0, <1>1, <1>3, <1>4
<1>6. PICK a : a = SeedOrder[k]
  OBVIOUS
<1>7. PICK b : b = SeedOrder[k - 1]
  OBVIOUS
<1>8. /\ \A i, j \in 1 .. 2 * h : a[i] = a[j] => i = j
      /\ \A s \in 1 .. 2 * h : \E i \in 1 .. 2 * h : a[i] = s
  BY <1>5, <1>6, SeedsOnce
<1>9. b \in [1 .. h -> 1 .. h]
  BY <1>4, <1>5, <1>7, SeedsOnce
<1>10. \A p \in 1 .. h : a[2 * p - 1] = b[p] /\ a[2 * p] = 2 * h + 1 - b[p]
  BY <1>4, <1>5, <1>6, <1>7, PairOf
<1>11. \A i : Slot(n, i) = IF a[i] \in 1 .. n THEN a[i] ELSE None
  BY <1>3, <1>6 DEF Slot
<1>12. ASSUME NEW t \in 1 .. n
       PROVE  \E i \in 1 .. 2 * h : \A j \in 1 .. 2 * h : Slot(n, j) = t <=> j = i
  <2>1. t \in 1 .. 2 * h
    BY <1>1, <1>5
  <2>2. PICK i \in 1 .. 2 * h : a[i] = t
    BY <1>8, <2>1
  <2>3. \A j \in 1 .. 2 * h : Slot(n, j) = t <=> j = i
    BY <1>2, <1>8, <1>11, <2>2
  <2> QED BY <2>3
<1>13. ASSUME NEW p \in 1 .. h
       PROVE  /\ Slot(n, 2 * p - 1) \in 1 .. n /\ Slot(n, 2 * p - 1) # None
              /\ Slot(n, 2 * p) = None => k # 1 /\ Slot(n, 2 * p - 1) <= 2 * h - n
  <2>1. b[p] \in 1 .. h
    BY <1>9
  <2>2. b[p] \in 1 .. n
    BY <1>1, <1>5, <2>1
  <2>3. Slot(n, 2 * p - 1) = b[p]
    BY <1>10, <1>11, <2>2
  <2>4. ASSUME Slot(n, 2 * p) = None PROVE k # 1 /\ b[p] <= 2 * h - n
    <3>1. 2 * h + 1 - b[p] \notin 1 .. n
      BY <1>2, <1>10, <1>11, <2>4
    <3>2. 2 * h + 1 - b[p] > n
      BY <1>1, <1>5, <2>1, <3>1
    <3>3. k = 1 => h = 1
      BY <1>4, Pow2Is
    <3> QED BY <1>1, <1>5, <2>1, <3>2, <3>3
  <2> QED BY <1>2, <2>2, <2>3, <2>4
<1> QED BY <1>2, <1>3, <1>4, <1>5, <1>12, <1>13

\* The match below a side of a match.
Below(m, side) == <<m[1] - 1, 2 * m[2] - 2 + side>>

\* A match above has two sides, each over one of the matches below.
LEMMA SidesOf ==
    /\ \A p \in Nat \ {0} : Side(p) \in {1, 2} /\ Above(p) \in Nat \ {0} /\ 2 * Above(p) - 2 + Side(p) = p
    /\ \A q \in Nat \ {0} : \A side \in {1, 2} : Above(2 * q - 2 + side) = q /\ Side(2 * q - 2 + side) = side
BY DEF Side, Above

\* Every match of the tree but those of the first round has two below it.
LEMMA PlacesAre ==
    ASSUME NEW n, Drawable(n)
    PROVE  /\ \A m \in Places(n) : m = <<m[1], m[2]>> /\ m[1] \in 1 .. Rounds(n) /\ m[2] \in Nat \ {0}
                                   /\ m[2] <= Pow2[Rounds(n) - m[1]]
           /\ \A p \in 1 .. Pow2[Rounds(n) - 1] : <<1, p>> \in Places(n)
           /\ <<Rounds(n), 1>> \in Places(n)
           /\ \A m \in Places(n) : m[1] > 1 => \A side \in {1, 2} : Below(m, side) \in Places(n)
<1>0. MaxRounds \in Nat /\ \A k \in Nat : Pow2[k] \in Nat \ {0}
  BY SizesAssumption, Pow2Is
<1>1. Rounds(n) \in 1 .. MaxRounds
  BY RoundsAre DEF Drawable
<1>2. PICK k : k = Rounds(n)
  OBVIOUS
<1>3. k \in Nat \ {0} /\ k <= MaxRounds
  BY <1>0, <1>1, <1>2
<1>4. \A m : m \in Places(n) <=> m \in (1 .. k) \X (1 .. Pow2[MaxRounds]) /\ m[2] <= Pow2[k - m[1]]
  BY <1>2 DEF Places
<1>5. \A j \in Nat : j <= MaxRounds => Pow2[j] <= Pow2[MaxRounds]
  BY <1>0, Pow2Grows
<1>6. \A m \in Places(n) : m = <<m[1], m[2]>> /\ m[1] \in 1 .. k /\ m[2] \in Nat \ {0} /\ m[2] <= Pow2[k - m[1]]
  BY <1>0, <1>4
<1>7. ASSUME NEW p \in 1 .. Pow2[k - 1] PROVE <<1, p>> \in Places(n)
  <2>1. k - 1 \in Nat /\ k - 1 <= MaxRounds
    BY <1>0, <1>3
  <2>2. p <= Pow2[MaxRounds] /\ p \in Nat \ {0}
    BY <1>0, <1>5, <2>1
  <2> QED BY <1>0, <1>3, <1>4, <2>2
<1>8. <<k, 1>> \in Places(n)
  <2>1. Pow2[k - k] = 1
    <3>1. k - k = 0
      BY <1>3
    <3> QED BY <3>1, Pow2Is
  <2> QED BY <1>0, <1>3, <1>4, <2>1
<1>9. ASSUME NEW m \in Places(n), m[1] > 1, NEW side \in {1, 2} PROVE Below(m, side) \in Places(n)
  <2>1. PICK r \in 1 .. k, p \in Nat \ {0} : r = m[1] /\ p = m[2] /\ p <= Pow2[k - r]
    BY <1>6
  <2>2. k - r \in Nat /\ k - (r - 1) = (k - r) + 1 /\ k - (r - 1) \in Nat /\ k - (r - 1) <= MaxRounds /\ r - 1 \in 1 .. k
    BY <1>0, <1>3, <1>9, <2>1
  <2>3. Pow2[k - (r - 1)] = 2 * Pow2[k - r] /\ Pow2[k - r] \in Nat
    BY <1>0, <2>2, Pow2Is
  <2>4. 2 * p - 2 + side \in Nat \ {0} /\ 2 * p - 2 + side <= Pow2[k - (r - 1)]
    BY <2>1, <2>3
  <2>5. 2 * p - 2 + side \in 1 .. Pow2[MaxRounds]
    BY <1>0, <1>5, <2>2, <2>3, <2>4
  <2>6. Below(m, side) = <<r - 1, 2 * p - 2 + side>>
    BY <2>1 DEF Below
  <2> QED BY <1>4, <2>2, <2>4, <2>5, <2>6
<1> QED BY <1>2, <1>6, <1>7, <1>8, <1>9

\* A team on a branch of a match is on the branch of the match above.
LEMMA BranchesJoin ==
    ASSUME NEW r \in Nat \ {0}, NEW p \in Nat \ {0}, NEW side \in {1, 2}
    PROVE  Branch(r, p, side) \subseteq Branch(r + 1, Above(p), Side(p))
<1>0. \A k \in Nat : Pow2[k] \in Nat \ {0}
  BY Pow2Is
<1>1. PICK w \in Nat \ {0} : w = Pow2[r - 1] /\ Pow2[(r + 1) - 1] = 2 * w
  <2>1. r - 1 \in Nat /\ (r - 1) + 1 = r /\ (r + 1) - 1 = r
    OBVIOUS
  <2> QED BY <2>1, Pow2Is
<1>2. PICK q \in Nat \ {0}, s \in {1, 2} : q = Above(p) /\ s = Side(p) /\ 2 * q - 2 + s = p
  BY SidesOf
<1>3. (q - 1) * 2 + s - 1 = p - 1 /\ (q - 1) * 2 + s = p
  BY <1>2
<1>4. \A i : i \in Branch(r, p, side) <=>
           i \in 1 .. Pow2[MaxRounds] /\ i > ((p - 1) * 2 + side - 1) * w /\ i <= ((p - 1) * 2 + side) * w
  BY <1>1 DEF Branch
<1>5. \A i : i \in Branch(r + 1, q, s) <=>
           i \in 1 .. Pow2[MaxRounds] /\ i > ((q - 1) * 2 + s - 1) * (2 * w) /\ i <= ((q - 1) * 2 + s) * (2 * w)
  BY <1>1 DEF Branch
<1>6. \A i : i \in Branch(r + 1, q, s) <=>
           i \in 1 .. Pow2[MaxRounds] /\ i > (p - 1) * (2 * w) /\ i <= p * (2 * w)
  BY <1>3, <1>5
<1>7. PICK z \in Nat : z = (p - 1) * w
  OBVIOUS
<1>8. (p - 1) * (2 * w) = 2 * z /\ p * (2 * w) = 2 * z + 2 * w
  BY <1>7
<1>9. CASE side = 1
  <2>1. ((p - 1) * 2 + side - 1) * w = 2 * z /\ ((p - 1) * 2 + side) * w = 2 * z + w
    BY <1>7, <1>9
  <2> QED BY <1>0, <1>2, <1>4, <1>6, <1>8, <2>1, SizesAssumption
<1>10. CASE side = 2
  <2>1. ((p - 1) * 2 + side - 1) * w = 2 * z + w /\ ((p - 1) * 2 + side) * w = 2 * z + 2 * w
    BY <1>7, <1>10
  <2> QED BY <1>0, <1>2, <1>4, <1>6, <1>8, <2>1, SizesAssumption
<1> QED BY <1>9, <1>10

-----------------------------------------------------------------------------
(* The tree while results are recorded *)

\* A team stands in a place of round 1 that leads to a side of a match.
LeadsTo(n, r, p, side, t) == \E i \in Branch(r, p, side) : i <= Pow2[Rounds(n)] /\ Slot(n, i) = t

\* The first round is the draw's, its byes are decided, and a team stands only
\* where its branch leads, as long as no draw replaced one a result was read from.
TreeKept ==
    /\ drawn # 0 => 2 <= drawn
    /\ \A m \in DOMAIN match : m[1] = 1 =>
           /\ \A side \in {1, 2} : match[m].team[side] = Slot(drawn, 2 * m[2] - 2 + side)
           /\ Rounds(drawn) > 1 /\ match[m].team[2] = None => match[m].winner # None
    /\ ~redrawn => \A m \in DOMAIN match : \A side \in {1, 2} :
           match[m].team[side] # None => LeadsTo(drawn, m[1], m[2], side, match[m].team[side])

\* A result being recorded is of a match of the draw, and of one of its teams.
Recording(o) ==
    result[o].stage # "none" =>
        /\ result[o].at = <<result[o].at[1], result[o].at[2]>>
        /\ result[o].at[1] \in Nat \ {0} /\ result[o].at[2] \in Nat \ {0}
        /\ result[o].winner # None
        /\ ~redrawn => /\ result[o].live /\ result[o].at \in DOMAIN match
                       /\ \E side \in {1, 2} : LeadsTo(drawn, result[o].at[1], result[o].at[2], side, result[o].winner)

\* Of the results that are neither lost nor recorded over another, one at a
\* time is of a match, and it decides the match when it is stored.
Decides(o) ==
    result[o].stage # "none" =>
        /\ match[result[o].at].winner = IF result[o].stage = "read" THEN None ELSE result[o].winner
        /\ \A x \in Recorders : result[x].stage # "none" /\ result[x].at = result[o].at => x = o

\* The winner of a match has moved up, or its result is about to move it.
MovedUp ==
    \A m \in DOMAIN match : m[1] > 1 => \A side \in {1, 2} :
        \/ match[m].team[side] = match[Below(m, side)].winner
        \/ \E o \in Recorders : result[o].stage = "stored" /\ result[o].at = Below(m, side)

BracketInv ==
    /\ TournamentTyped /\ TreeKept
    /\ \A o \in Recorders : Recording(o)
    /\ ~redrawn /\ ~raced => MovedUp /\ \A o \in Recorders : Decides(o)

\* There is no tree, or the tree of a draw the tournament is large enough for.
LEMMA DrawnIs ==
    ASSUME TournamentTyped, drawn # 0 => 2 <= drawn
    PROVE  \/ drawn = 0 /\ DOMAIN match = {}
           \/ drawn # 0 /\ Drawable(drawn) /\ DOMAIN match = Places(drawn)
<1>1. count \in Nat /\ count <= Pow2[MaxRounds] /\ drawn \in 0 .. count
  <2>1. Pow2[MaxRounds] \in Nat /\ MaxTeams \in Nat
    BY SizesAssumption, Pow2Is
  <2> QED BY <2>1, InsertedCounted, SizesAssumption DEF TournamentTyped
<1> QED BY <1>1, Pow2Is, SizesAssumption DEF TournamentTyped, Drawable

\* Every place of the tree, as the lemmas about the tree give it.
LEMMA PlaceIs ==
    ASSUME BracketInv, NEW m \in DOMAIN match
    PROVE  /\ drawn # 0 /\ Drawable(drawn) /\ DOMAIN match = Places(drawn)
           /\ m = <<m[1], m[2]>> /\ m[1] \in Nat \ {0} /\ m[2] \in Nat \ {0}
           /\ m[1] > 1 => \A side \in {1, 2} : Below(m, side) \in DOMAIN match /\ Below(m, side)[1] = m[1] - 1
           /\ match[m] \in MatchRow(count)
<1>1. drawn # 0 /\ Drawable(drawn) /\ DOMAIN match = Places(drawn)
  BY DrawnIs DEF BracketInv, TreeKept
<1>2. /\ m = <<m[1], m[2]>> /\ m[1] \in 1 .. Rounds(drawn) /\ m[2] \in Nat \ {0}
      /\ m[1] > 1 => \A side \in {1, 2} : Below(m, side) \in Places(drawn)
  BY <1>1, PlacesAre
<1>3. m[1] > 1 => \A side \in {1, 2} : Below(m, side)[1] = m[1] - 1
  BY DEF Below
<1>4. Rounds(drawn) \in Nat
  BY <1>1, RoundsAre, SizesAssumption DEF Drawable
<1> QED BY <1>1, <1>2, <1>3, <1>4 DEF BracketInv, TournamentTyped

\* Nothing is drawn at first.
LEMMA BracketStarts == TournamentInit => BracketInv
<1> SUFFICES ASSUME TournamentInit PROVE BracketInv
  OBVIOUS
<1>1. TournamentTyped
  BY TournamentTypedStarts
<1>2. DOMAIN match = {} /\ drawn = 0
  BY DEF TournamentInit
<1>3. \A o \in Recorders : result[o].stage = "none"
  BY DEF TournamentInit, NoResult
<1> QED BY <1>1, <1>2, <1>3 DEF BracketInv, TreeKept, Recording, Decides, MovedUp

\* The draw itself.
LEMMA DrawnTree ==
    ASSUME NEW n, Drawable(n)
    PROVE  LET d == Draw(n) IN
           /\ DOMAIN d = Places(n)
           /\ \A m \in Places(n) : m[1] = 1 =>
                  /\ \A side \in {1, 2} : d[m].team[side] = Slot(n, 2 * m[2] - 2 + side)
                  /\ Rounds(n) > 1 /\ d[m].team[2] = None => d[m].winner # None
           /\ \A m \in Places(n) : m[1] > 1 => \A side \in {1, 2} : d[m].team[side] = d[Below(m, side)].winner
           /\ \A m \in Places(n) : \A side \in {1, 2} :
                  d[m].team[side] # None => LeadsTo(n, m[1], m[2], side, d[m].team[side])
<1>1. PICK d : d = Draw(n)
  OBVIOUS
<1>2. DOMAIN d = Places(n)
  BY <1>1 DEF Draw
<1>3. \A m \in Places(n) : d[m] = [team |-> [side \in {1, 2} |-> Seat(n, m[1], m[2], side)],
                                   winner |-> IF m[1] = 1 /\ Advances(n, m[2]) THEN Unopposed(n, m[2]) ELSE None]
  BY <1>1 DEF Draw
<1>4. \A m \in Places(n) : /\ \A side \in {1, 2} : d[m].team[side] = Seat(n, m[1], m[2], side)
                           /\ d[m].winner = IF m[1] = 1 /\ Advances(n, m[2]) THEN Unopposed(n, m[2]) ELSE None
  <2> SUFFICES ASSUME NEW m \in Places(n)
               PROVE  /\ \A side \in {1, 2} : d[m].team[side] = Seat(n, m[1], m[2], side)
                      /\ d[m].winner = IF m[1] = 1 /\ Advances(n, m[2]) THEN Unopposed(n, m[2]) ELSE None
    OBVIOUS
  <2>1. PICK t : t = [side \in {1, 2} |-> Seat(n, m[1], m[2], side)]
    OBVIOUS
  <2>2. PICK w : w = IF m[1] = 1 /\ Advances(n, m[2]) THEN Unopposed(n, m[2]) ELSE None
    OBVIOUS
  <2>3. d[m] = [team |-> t, winner |-> w]
    BY <1>3, <2>1, <2>2, Zenon
  <2>4. d[m].team = t /\ d[m].winner = w
    BY <2>3
  <2> QED BY <2>1, <2>2, <2>4
<1>p. /\ \A m \in Places(n) : m = <<m[1], m[2]>> /\ m[1] \in 1 .. Rounds(n) /\ m[2] \in Nat \ {0}
                              /\ m[2] <= Pow2[Rounds(n) - m[1]]
      /\ \A m \in Places(n) : m[1] > 1 => \A side \in {1, 2} : Below(m, side) \in Places(n)
  BY PlacesAre
<1>r. Rounds(n) \in Nat \ {0} /\ Pow2[Rounds(n)] <= Pow2[MaxRounds] /\ Pow2[Rounds(n)] = 2 * Pow2[Rounds(n) - 1]
      /\ Pow2[Rounds(n) - 1] \in Nat /\ Pow2[MaxRounds] \in Nat /\ Rounds(n) - 1 \in Nat
  BY RoundsAre, Pow2Is, SizesAssumption DEF Drawable
<1>w. Pow2[0] = 1 /\ Pow2[1] = 2
  <2>1. Pow2[0] = 1 /\ Pow2[0 + 1] = 2 * Pow2[0]
    BY Pow2Is
  <2> QED BY <2>1
<1>5. ASSUME NEW m \in Places(n), m[1] = 1, NEW side \in {1, 2}
      PROVE  d[m].team[side] = Slot(n, 2 * m[2] - 2 + side)
  <2>1. 2 * m[2] - (2 - side) = 2 * m[2] - 2 + side
    BY <1>p
  <2> QED BY <1>4, <1>5, <2>1 DEF Seat
<1>6. ASSUME NEW m \in Places(n), m[1] = 1
      PROVE  /\ m[2] \in 1 .. Pow2[Rounds(n) - 1]
             /\ Slot(n, 2 * m[2] - 1) # None
             /\ Advances(n, m[2]) <=> Rounds(n) > 1 /\ Slot(n, 2 * m[2]) = None
             /\ Advances(n, m[2]) => Unopposed(n, m[2]) = Slot(n, 2 * m[2] - 1)
  <2>1. m[2] \in 1 .. Pow2[Rounds(n) - 1]
    BY <1>6, <1>p, <1>r
  <2>2. Slot(n, 2 * m[2] - 1) # None
    BY <2>1, SlotsAre
  <2> QED BY <2>1, <2>2 DEF Advances, Bye, Unopposed
<1>7. ASSUME NEW m \in Places(n), m[1] = 1, Rounds(n) > 1, d[m].team[2] = None
      PROVE  d[m].winner # None
  <2>1. Slot(n, 2 * m[2] - 2 + 2) = None /\ 2 * m[2] - 2 + 2 = 2 * m[2]
    BY <1>5, <1>7, <1>p
  <2> QED BY <1>4, <1>6, <1>7, <2>1
<1>8. ASSUME NEW m \in Places(n), m[1] > 1, NEW side \in {1, 2}
      PROVE  /\ d[m].team[side] = d[Below(m, side)].winner
             /\ d[m].team[side] # None => m[1] = 2 /\ Advances(n, Below(m, side)[2])
  <2>1. PICK r, p : r = m[1] /\ p = m[2] /\ r \in Nat \ {0} /\ p \in Nat \ {0} /\ r > 1
    BY <1>8, <1>p
  <2>2. PICK q : q = 2 * p - 2 + side
    OBVIOUS
  <2>3. Below(m, side) = <<r - 1, q>> /\ Below(m, side) \in Places(n)
    BY <1>8, <1>p, <2>1, <2>2 DEF Below
  <2>4. d[Below(m, side)].winner = IF r - 1 = 1 /\ Advances(n, q) THEN Unopposed(n, q) ELSE None
    <3>1. PICK b \in Places(n) : b = Below(m, side) /\ b[1] = r - 1 /\ b[2] = q
      BY <2>3
    <3>2. d[b].winner = IF b[1] = 1 /\ Advances(n, b[2]) THEN Unopposed(n, b[2]) ELSE None
      BY <1>4
    <3> QED BY <3>1, <3>2
  <2>5. {x \in {2 * p - 1, 2 * p} : r = 2 /\ Advances(n, x) /\ Side(x) = side}
         = IF r = 2 /\ Advances(n, q) THEN {q} ELSE {}
    <3>1. \A x \in {2 * p - 1, 2 * p} : Side(x) = side <=> x = q
      <4>1. (2 * p - 1) % 2 = 1 /\ (2 * p) % 2 = 0 /\ 2 * p - 1 # 2 * p
        BY <2>1
      <4>2. Side(2 * p - 1) = 1 /\ Side(2 * p) = 2 /\ q = IF side = 1 THEN 2 * p - 1 ELSE 2 * p
        BY <2>1, <2>2, <4>1 DEF Side
      <4> QED BY <4>1, <4>2
    <3>2. q \in {2 * p - 1, 2 * p}
      BY <2>1, <2>2
    <3> QED BY <3>1, <3>2
  <2>6. Seat(n, r, p, side) = IF r = 2 /\ Advances(n, q) THEN Unopposed(n, q) ELSE None
    <3>1. PICK from : from = {x \in {2 * p - 1, 2 * p} : r = 2 /\ Advances(n, x) /\ Side(x) = side}
      OBVIOUS
    <3>2. Seat(n, r, p, side) = IF from = {} THEN None ELSE Unopposed(n, CHOOSE x \in from : TRUE)
      BY <2>1, <3>1 DEF Seat
    <3>3. (CHOOSE x \in {q} : TRUE) = q
      OBVIOUS
    <3> QED BY <2>5, <3>1, <3>2, <3>3
  <2> QED BY <1>4, <2>1, <2>3, <2>4, <2>6
<1>9. ASSUME NEW m \in Places(n), NEW side \in {1, 2}, d[m].team[side] # None
      PROVE  LeadsTo(n, m[1], m[2], side, d[m].team[side])
  <2>1. CASE m[1] = 1
    <3>1. PICK i : i = 2 * m[2] - 2 + side
      OBVIOUS
    <3>2. i \in 1 .. Pow2[Rounds(n)] /\ m[2] \in Nat \ {0}
      BY <1>6, <1>r, <2>1, <3>1
    <3>3. ((m[2] - 1) * 2 + side - 1) * 1 = i - 1 /\ ((m[2] - 1) * 2 + side) * 1 = i
      BY <3>1, <3>2
    <3>4. i \in Branch(m[1], m[2], side)
      <4>1. Pow2[m[1] - 1] = 1
        BY <1>w, <2>1
      <4> QED BY <1>r, <3>2, <3>3, <4>1 DEF Branch
    <3>5. Slot(n, i) = d[m].team[side]
      BY <1>5, <2>1, <3>1
    <3> QED BY <3>2, <3>4, <3>5 DEF LeadsTo
  <2>2. CASE m[1] # 1
    <3>1. m[1] > 1
      BY <1>p, <2>2
    <3>2. PICK q : q = 2 * m[2] - 2 + side
      OBVIOUS
    <3>3. Below(m, side) = <<m[1] - 1, q>>
      BY <3>2 DEF Below
    <3>4. /\ m[1] = 2 /\ Advances(n, q) /\ d[m].team[side] = d[<<1, q>>].winner /\ <<1, q>> \in Places(n)
      BY <1>8, <1>9, <1>p, <3>1, <3>3
    <3>5. d[m].team[side] = Slot(n, 2 * q - 1) /\ q \in 1 .. Pow2[Rounds(n) - 1]
      BY <1>4, <1>6, <3>4
    <3>6. 2 * q - 1 \in 1 .. Pow2[Rounds(n)] /\ m[2] \in Nat \ {0}
      BY <1>p, <1>r, <3>5
    <3>7. ((m[2] - 1) * 2 + side - 1) * 2 = 2 * q - 2 /\ ((m[2] - 1) * 2 + side) * 2 = 2 * q
      BY <3>2, <3>6
    <3>8. 2 * q - 1 \in Branch(m[1], m[2], side)
      <4>1. Pow2[m[1] - 1] = 2
        BY <1>w, <3>4
      <4> QED BY <1>r, <3>5, <3>6, <3>7, <4>1 DEF Branch
    <3> QED BY <3>5, <3>6, <3>8 DEF LeadsTo
  <2> QED BY <2>1, <2>2
<1> QED BY <1>1, <1>2, <1>5, <1>7, <1>8, <1>9

\* What leaves the tree and the results alone.
LEMMA TreeUntouched ==
    ASSUME BracketInv, TournamentTyped', UNCHANGED <<match, drawn, result, redrawn, raced>>
    PROVE  BracketInv'
BY DEF BracketInv, TreeKept, Recording, Decides, MovedUp

\* A draw replaces the tree.  Where a result was under way, nothing is said of
\* the tree from then on.
LEMMA BracketDrawStep == ASSUME BracketInv, TournamentTyped', GenerateBracket PROVE BracketInv'
<1>1. /\ match' = Draw(count) /\ drawn' = count /\ count >= 2 /\ count' = count
      /\ result' = [o \in Recorders |-> [result[o] EXCEPT !.live = FALSE]]
  BY DEF GenerateBracket
<1>2. Drawable(count)
  <2>1. drawn' # 0 => 2 <= drawn'
    BY <1>1
  <2>2. count \in Nat /\ count <= Pow2[MaxRounds]
    <3>1. Pow2[MaxRounds] \in Nat /\ MaxTeams \in Nat
      BY SizesAssumption, Pow2Is
    <3> QED BY <3>1, InsertedCounted, SizesAssumption DEF BracketInv, TournamentTyped
  <2> QED BY <1>1, <2>2 DEF Drawable
<1>3. ~redrawn' => UnderWay = {}
  <2>1. redrawn' = (redrawn \/ UnderWay # {})
    BY DEF GenerateBracket
  <2> QED BY <2>1, Zenon
<1>4. ASSUME NEW o \in Recorders
      PROVE  /\ result'[o].stage = result[o].stage /\ result'[o].at = result[o].at /\ result'[o].winner = result[o].winner
             /\ ~redrawn' => result'[o].stage = "none"
  <2>1. result[o] \in ResultRow(count)
    BY DEF BracketInv, TournamentTyped
  <2>2. result'[o].stage = result[o].stage /\ result'[o].at = result[o].at /\ result'[o].winner = result[o].winner
    BY <1>1, <2>1 DEF ResultRow
  <2>3. UnderWay = {} => result[o].stage = "none"
    BY DEF UnderWay
  <2> QED BY <1>3, <2>2, <2>3
<1>5. PICK n : n = count
  OBVIOUS
<1>6. PICK d : d = match'
  OBVIOUS
<1>7. d = Draw(n) /\ Drawable(n) /\ drawn' = n /\ n # 0 /\ 2 <= n
  BY <1>1, <1>2, <1>5, <1>6 DEF Drawable
<1>8. /\ DOMAIN d = Places(n)
      /\ \A m \in Places(n) : m[1] = 1 =>
             /\ \A side \in {1, 2} : d[m].team[side] = Slot(n, 2 * m[2] - 2 + side)
             /\ Rounds(n) > 1 /\ d[m].team[2] = None => d[m].winner # None
      /\ \A m \in Places(n) : m[1] > 1 => \A side \in {1, 2} : d[m].team[side] = d[Below(m, side)].winner
      /\ \A m \in Places(n) : \A side \in {1, 2} :
             d[m].team[side] # None => LeadsTo(n, m[1], m[2], side, d[m].team[side])
  BY <1>7, DrawnTree
<1>9. TreeKept'
  BY <1>6, <1>7, <1>8 DEF TreeKept
<1>10. MovedUp'
  BY <1>6, <1>8 DEF MovedUp
<1>11. \A o \in Recorders : Recording(o)'
  BY <1>4 DEF BracketInv, Recording
<1>12. ~redrawn' => \A o \in Recorders : Decides(o)'
  BY <1>4 DEF Decides
<1> QED BY <1>9, <1>10, <1>11, <1>12 DEF BracketInv

\* A result is begun for a match both of whose teams are known.
LEMMA BracketReadStep ==
    ASSUME BracketInv, TournamentTyped', NEW o \in Recorders, NEW m \in DOMAIN match,
           NEW w \in {match[m].team[1], match[m].team[2]}, ResultReads(o, m, w)
    PROVE  BracketInv'
<1>1. /\ match[m].team[1] # None /\ match[m].team[2] # None /\ result[o].stage = "none"
      /\ result' = [result EXCEPT ![o] = [stage |-> "read", at |-> m, winner |-> w, live |-> TRUE]]
      /\ UNCHANGED <<match, drawn, redrawn>>
  BY DEF ResultReads
<1>2. /\ ~raced' => /\ ~raced /\ match[m].winner = None
                    /\ \A x \in Recorders : result[x].stage # "none" => result[x].at # m
  <2>1. raced' = (raced \/ match[m].winner # None \/ \E x \in UnderWay : result[x].at = m)
    BY DEF ResultReads
  <2>2. ~raced' => ~raced /\ match[m].winner = None /\ ~\E x \in UnderWay : result[x].at = m
    BY <2>1, Zenon
  <2> QED BY <2>2 DEF UnderWay
<1>3. \A x \in Recorders : result[x] \in ResultRow(count)
  BY DEF BracketInv, TournamentTyped
<1>4. /\ result'[o].stage = "read" /\ result'[o].at = m /\ result'[o].winner = w /\ result'[o].live
      /\ \A x \in Recorders : x # o => result'[x] = result[x]
  BY <1>1 DEF BracketInv, TournamentTyped
<1>5. m = <<m[1], m[2]>> /\ m[1] \in Nat \ {0} /\ m[2] \in Nat \ {0}
  BY PlaceIs
<1>6. w # None /\ (~redrawn => \E side \in {1, 2} : LeadsTo(drawn, m[1], m[2], side, w))
  BY <1>1 DEF BracketInv, TreeKept
<1>7. TreeKept'
  BY <1>1 DEF BracketInv, TreeKept
<1>8. Recording(o)'
  BY <1>1, <1>4, <1>5, <1>6 DEF Recording
<1>9. \A x \in Recorders : x # o => Recording(x)'
  BY <1>1, <1>4 DEF BracketInv, Recording
<1>10. ASSUME ~redrawn', ~raced' PROVE MovedUp' /\ \A x \in Recorders : Decides(x)'
  <2>1. MovedUp /\ \A x \in Recorders : Decides(x)
    BY <1>1, <1>2, <1>10 DEF BracketInv
  <2>2. MovedUp'
    BY <1>1, <1>4, <2>1 DEF MovedUp
  <2>3. Decides(o)'
    BY <1>1, <1>2, <1>4, <1>10 DEF Decides
  <2>4. \A x \in Recorders : x # o => Decides(x)'
    BY <1>1, <1>2, <1>4, <1>10, <2>1 DEF Decides
  <2> QED BY <2>2, <2>3, <2>4
<1> QED BY <1>7, <1>8, <1>9, <1>10 DEF BracketInv

\* A result is stored: in its match, unless a draw has replaced it.
LEMMA BracketStoreStep ==
    ASSUME BracketInv, TournamentTyped', NEW o \in Recorders, ResultStores(o)
    PROVE  BracketInv'
<1>1. /\ result[o].stage = "read"
      /\ match' = IF result[o].live THEN [match EXCEPT ![result[o].at].winner = result[o].winner] ELSE match
      /\ result' = [result EXCEPT ![o].stage = "stored"]
      /\ UNCHANGED <<drawn, redrawn, raced>>
  BY DEF ResultStores
<1>2. \A x \in Recorders : result[x] \in ResultRow(count)
  BY DEF BracketInv, TournamentTyped
<1>3. /\ result'[o].stage = "stored"
      /\ \A x \in Recorders : /\ result'[x].at = result[x].at /\ result'[x].winner = result[x].winner
                              /\ result'[x].live = result[x].live
                              /\ x # o => result'[x].stage = result[x].stage
  BY <1>1, <1>2 DEF BracketInv, TournamentTyped, ResultRow
<1>4. PICK a, w : a = result[o].at /\ w = result[o].winner
  OBVIOUS
<1>5. Recording(o) /\ w # None
  BY <1>1, <1>4 DEF BracketInv, Recording
<1>6. /\ DOMAIN match' = DOMAIN match
      /\ \A m \in DOMAIN match : /\ match'[m].team = match[m].team
                                 /\ match'[m].winner = match[m].winner \/ match'[m].winner = w
                                 /\ m # a => match'[m].winner = match[m].winner
      /\ ~redrawn => a \in DOMAIN match /\ match'[a].winner = w
  <2>1. \A m \in DOMAIN match : match[m] \in MatchRow(count)
    BY DEF BracketInv, TournamentTyped
  <2>2. CASE result[o].live
    <3>1. match' = [match EXCEPT ![a].winner = w]
      BY <1>1, <1>4, <2>2
    <3>2. ~redrawn => a \in DOMAIN match
      BY <1>1, <1>4, <1>5 DEF Recording
    <3> QED BY <2>1, <3>1, <3>2 DEF MatchRow
  <2>3. CASE ~result[o].live
    <3>1. match' = match
      BY <1>1, <2>3
    <3>2. ~~redrawn
      BY <1>1, <1>5, <2>3 DEF Recording
    <3> QED BY <3>1, <3>2
  <2> QED BY <2>2, <2>3
<1>7. TreeKept'
  <2>1. TreeKept
    BY DEF BracketInv
  <2>2. drawn' # 0 => 2 <= drawn'
    BY <1>1, <2>1 DEF TreeKept
  <2>3. ASSUME NEW m \in DOMAIN match', m[1] = 1
        PROVE  /\ \A side \in {1, 2} : match'[m].team[side] = Slot(drawn', 2 * m[2] - 2 + side)
               /\ Rounds(drawn') > 1 /\ match'[m].team[2] = None => match'[m].winner # None
    BY <1>1, <1>5, <1>6, <2>1, <2>3 DEF TreeKept
  <2>4. ASSUME ~redrawn', NEW m \in DOMAIN match', NEW side \in {1, 2}, match'[m].team[side] # None
        PROVE  LeadsTo(drawn', m[1], m[2], side, match'[m].team[side])
    BY <1>1, <1>6, <2>1, <2>4 DEF TreeKept
  <2> QED BY <2>2, <2>3, <2>4 DEF TreeKept
<1>8. \A x \in Recorders : Recording(x)'
  BY <1>1, <1>3, <1>6 DEF BracketInv, Recording
<1>9. ASSUME ~redrawn', ~raced' PROVE MovedUp' /\ \A x \in Recorders : Decides(x)'
  <2>1. MovedUp /\ \A x \in Recorders : Decides(x)
    BY <1>1, <1>9 DEF BracketInv
  <2>2. a \in DOMAIN match /\ match'[a].winner = w
    BY <1>1, <1>6, <1>9
  <2>3. \A x \in Recorders : result[x].stage # "none" /\ result[x].at = a => x = o
    BY <1>1, <1>4, <2>1 DEF Decides
  <2>4. ASSUME NEW x \in Recorders PROVE Decides(x)'
    <3>1. CASE x = o
      BY <1>3, <1>4, <2>1, <2>2, <2>3, <3>1, <1>1 DEF Decides
    <3>2. CASE x # o
      <4>1. SUFFICES ASSUME result[x].stage # "none" PROVE Decides(x)'
        BY <1>3, <3>2 DEF Decides
      <4>2. result[x].at # a
        BY <2>3, <3>2, <4>1
      <4>3. match[result[x].at].winner = IF result[x].stage = "read" THEN None ELSE result[x].winner
        BY <2>1, <4>1 DEF Decides
      <4>4. Recording(x) /\ ~redrawn
        BY <1>1, <1>9 DEF BracketInv
      <4>5. result[x].at \in DOMAIN match
        BY <4>1, <4>4 DEF Recording
      <4>6. match'[result[x].at].winner = match[result[x].at].winner
        BY <1>6, <4>2, <4>5
      <4>7. \A y \in Recorders : result[y].stage # "none" /\ result[y].at = result[x].at => y = x
        BY <2>1, <4>1 DEF Decides
      <4>8. \A y \in Recorders : result'[y].stage # "none" /\ result'[y].at = result'[x].at => y = x
        BY <1>1, <1>3, <1>4, <4>2, <4>7
      <4> QED BY <1>3, <3>2, <4>3, <4>6, <4>8 DEF Decides
    <3> QED BY <3>1, <3>2
  <2>5. ASSUME NEW m \in DOMAIN match', m[1] > 1, NEW side \in {1, 2}
        PROVE  \/ match'[m].team[side] = match'[Below(m, side)].winner
               \/ \E x \in Recorders : result'[x].stage = "stored" /\ result'[x].at = Below(m, side)
    <3>1. Below(m, side) \in DOMAIN match /\ m \in DOMAIN match
      BY <1>6, <2>5, PlaceIs
    <3>2. CASE Below(m, side) = a
      BY <1>3, <1>4, <3>2
    <3>3. CASE Below(m, side) # a
      <4>1. match'[Below(m, side)].winner = match[Below(m, side)].winner /\ match'[m].team = match[m].team
        BY <1>6, <3>1, <3>3
      <4>2. \/ match[m].team[side] = match[Below(m, side)].winner
            \/ \E x \in Recorders : result[x].stage = "stored" /\ result[x].at = Below(m, side)
        BY <2>1, <2>5, <3>1 DEF MovedUp
      <4> QED BY <1>3, <4>1, <4>2
    <3> QED BY <3>2, <3>3
  <2>6. MovedUp'
    BY <2>5 DEF MovedUp
  <2> QED BY <2>4, <2>6
<1> QED BY <1>7, <1>8, <1>9 DEF BracketInv

\* A stored result moves its winner up, where a match is above.
LEMMA BracketAdvanceStep ==
    ASSUME BracketInv, TournamentTyped', NEW o \in Recorders, ResultAdvances(o)
    PROVE  BracketInv'
<1>1. PICK a, w : a = result[o].at /\ w = result[o].winner
  OBVIOUS
<1>2. Recording(o) /\ result[o].stage = "stored"
  BY DEF BracketInv, ResultAdvances
<1>3. PICK r \in Nat \ {0}, p \in Nat \ {0} : r = a[1] /\ p = a[2]
  BY <1>1, <1>2 DEF Recording
<1>4. PICK up, s : up = <<r + 1, Above(p)>> /\ s = Side(p)
  OBVIOUS
<1>5. a = <<r, p>> /\ w # None /\ s \in {1, 2} /\ Above(p) \in Nat \ {0} /\ up[1] = r + 1 /\ up[2] = Above(p)
  BY <1>1, <1>2, <1>3, <1>4, SidesOf DEF Recording
<1>6. /\ \/ up \in DOMAIN match /\ match' = [match EXCEPT ![up].team[s] = w]
         \/ up \notin DOMAIN match /\ match' = match
      /\ result' = [result EXCEPT ![o] = NoResult]
      /\ UNCHANGED <<drawn, redrawn, raced>>
  BY <1>1, <1>3, <1>4 DEF ResultAdvances
<1>7. /\ result'[o].stage = "none"
      /\ \A x \in Recorders : x # o => result'[x] = result[x]
  BY <1>6 DEF BracketInv, TournamentTyped, NoResult
<1>8. /\ DOMAIN match' = DOMAIN match
      /\ \A m \in DOMAIN match : /\ match'[m].winner = match[m].winner
                                 /\ \A side \in {1, 2} : match'[m].team[side] =
                                        IF m = up /\ side = s THEN w ELSE match[m].team[side]
  <2>1. \A m \in DOMAIN match : match[m] \in MatchRow(count)
    BY DEF BracketInv, TournamentTyped
  <2>2. CASE up \in DOMAIN match /\ match' = [match EXCEPT ![up].team[s] = w]
    BY <1>5, <2>1, <2>2 DEF MatchRow
  <2>3. CASE up \notin DOMAIN match /\ match' = match
    BY <2>3
  <2> QED BY <1>6, <2>2, <2>3
<1>9. ~redrawn => LeadsTo(drawn, up[1], up[2], s, w)
  <2>1. SUFFICES ASSUME ~redrawn PROVE LeadsTo(drawn, r + 1, Above(p), s, w)
    BY <1>5
  <2>2. PICK side \in {1, 2} : LeadsTo(drawn, r, p, side, w)
    BY <1>1, <1>2, <1>3, <2>1 DEF Recording
  <2>3. Branch(r, p, side) \subseteq Branch(r + 1, Above(p), s)
    BY <1>4, BranchesJoin
  <2> QED BY <2>2, <2>3 DEF LeadsTo
<1>10. TreeKept'
  <2>1. TreeKept
    BY DEF BracketInv
  <2>2. drawn' # 0 => 2 <= drawn'
    BY <1>6, <2>1 DEF TreeKept
  <2>3. ASSUME NEW m \in DOMAIN match', m[1] = 1
        PROVE  /\ \A side \in {1, 2} : match'[m].team[side] = Slot(drawn', 2 * m[2] - 2 + side)
               /\ Rounds(drawn') > 1 /\ match'[m].team[2] = None => match'[m].winner # None
    <3>1. m # up
      BY <1>5, <2>3
    <3> QED BY <1>6, <1>8, <2>1, <2>3, <3>1 DEF TreeKept
  <2>4. ASSUME ~redrawn', NEW m \in DOMAIN match', NEW side \in {1, 2}, match'[m].team[side] # None
        PROVE  LeadsTo(drawn', m[1], m[2], side, match'[m].team[side])
    <3>1. CASE m = up /\ side = s
      BY <1>6, <1>8, <1>9, <2>4, <3>1
    <3>2. CASE ~(m = up /\ side = s)
      BY <1>6, <1>8, <2>1, <2>4, <3>2 DEF TreeKept
    <3> QED BY <3>1, <3>2
  <2> QED BY <2>2, <2>3, <2>4 DEF TreeKept
<1>11. \A x \in Recorders : Recording(x)'
  BY <1>6, <1>7, <1>8 DEF BracketInv, Recording
<1>12. ASSUME ~redrawn', ~raced' PROVE MovedUp' /\ \A x \in Recorders : Decides(x)'
  <2>1. MovedUp /\ (\A x \in Recorders : Decides(x)) /\ ~redrawn
    BY <1>6, <1>12 DEF BracketInv
  <2>2. a \in DOMAIN match /\ match[a].winner = w
    BY <1>1, <1>2, <2>1 DEF Recording, Decides
  <2>3. ASSUME NEW x \in Recorders PROVE Decides(x)'
    <3>1. SUFFICES ASSUME x # o, result[x].stage # "none" PROVE Decides(x)'
      BY <1>7 DEF Decides
    <3>2. result[x].at \in DOMAIN match
      BY <2>1, <3>1 DEF BracketInv, Recording
    <3> QED BY <1>7, <1>8, <2>1, <3>1, <3>2 DEF Decides
  <2>4. ASSUME NEW m \in DOMAIN match', m[1] > 1, NEW side \in {1, 2}
        PROVE  \/ match'[m].team[side] = match'[Below(m, side)].winner
               \/ \E x \in Recorders : result'[x].stage = "stored" /\ result'[x].at = Below(m, side)
    <3>1. /\ Below(m, side) \in DOMAIN match /\ m \in DOMAIN match
          /\ m = <<m[1], m[2]>> /\ m[1] \in Nat \ {0} /\ m[2] \in Nat \ {0}
      BY <1>8, <2>4, PlaceIs
    <3>2. Below(m, side) = <<m[1] - 1, 2 * m[2] - 2 + side>>
      BY DEF Below
    <3>3. CASE Below(m, side) = a
      <4>1. m[1] - 1 = r /\ 2 * m[2] - 2 + side = p
        BY <1>5, <3>2, <3>3
      <4>2. Above(p) = m[2] /\ Side(p) = side /\ m[1] = r + 1
        <5>1. Above(2 * m[2] - 2 + side) = m[2] /\ Side(2 * m[2] - 2 + side) = side
          BY <3>1, SidesOf
        <5> QED BY <3>1, <4>1, <5>1
      <4>3. m = up /\ side = s
        BY <1>4, <3>1, <4>2
      <4> QED BY <1>8, <2>2, <3>1, <3>3, <4>3
    <3>4. CASE Below(m, side) # a
      <4>1. ~(m = up /\ side = s)
        <5>1. 2 * Above(p) - 2 + Side(p) = p
          BY SidesOf
        <5>2. m = up /\ side = s => Below(m, side) = <<(r + 1) - 1, p>>
          BY <1>4, <1>5, <3>2, <5>1
        <5> QED BY <1>5, <3>4, <5>2
      <4>2. match'[m].team[side] = match[m].team[side] /\ match'[Below(m, side)].winner = match[Below(m, side)].winner
        BY <1>8, <3>1, <4>1
      <4>3. \/ match[m].team[side] = match[Below(m, side)].winner
            \/ \E x \in Recorders : result[x].stage = "stored" /\ result[x].at = Below(m, side)
        BY <2>1, <2>4, <3>1 DEF MovedUp
      <4> QED BY <1>1, <1>7, <3>4, <4>2, <4>3
    <3> QED BY <3>3, <3>4
  <2>5. MovedUp'
    BY <2>4 DEF MovedUp
  <2> QED BY <2>3, <2>5
<1> QED BY <1>10, <1>11, <1>12 DEF BracketInv

\* A result lost before it was stored leaves the match to be played.
LEMMA BracketLostStep ==
    ASSUME BracketInv, TournamentTyped', NEW o \in Recorders, ResultLost(o)
    PROVE  BracketInv'
<1>1. /\ result' = [result EXCEPT ![o] = NoResult] /\ UNCHANGED <<match, drawn, redrawn>>
      /\ raced' = (raced \/ result[o].stage = "stored")
  BY DEF ResultLost
<1>2. ~raced' => ~raced /\ result[o].stage # "stored"
  BY <1>1, Zenon
<1>3. /\ result'[o].stage = "none"
      /\ \A x \in Recorders : x # o => result'[x] = result[x]
  BY <1>1 DEF BracketInv, TournamentTyped, NoResult
<1>4. TreeKept'
  BY <1>1 DEF BracketInv, TreeKept
<1>5. \A x \in Recorders : Recording(x)'
  BY <1>1, <1>3 DEF BracketInv, Recording
<1>6. ASSUME ~redrawn', ~raced' PROVE MovedUp' /\ \A x \in Recorders : Decides(x)'
  <2>1. MovedUp /\ \A x \in Recorders : Decides(x)
    BY <1>1, <1>2, <1>6 DEF BracketInv
  <2>2. MovedUp'
    BY <1>1, <1>2, <1>3, <1>6, <2>1 DEF MovedUp
  <2>3. ASSUME NEW x \in Recorders PROVE Decides(x)'
    <3>1. SUFFICES ASSUME x # o, result[x].stage # "none" PROVE Decides(x)'
      BY <1>3 DEF Decides
    <3> QED BY <1>1, <1>3, <2>1, <3>1 DEF Decides
  <2> QED BY <2>2, <2>3
<1> QED BY <1>4, <1>5, <1>6 DEF BracketInv

\* Every step keeps the tree.
LEMMA BracketStep == BracketInv /\ [TournamentNext]_tournamentVars => BracketInv'
<1> SUFFICES ASSUME BracketInv, [TournamentNext]_tournamentVars PROVE BracketInv'
  OBVIOUS
<1>0. TournamentTyped'
  BY TournamentTypedStep DEF BracketInv
<1>1. CASE UNCHANGED <<match, drawn, result, redrawn, raced>>
  BY <1>0, <1>1, TreeUntouched
<1>2. CASE UNCHANGED tournamentVars
  BY <1>1, <1>2 DEF tournamentVars
<1>3. ASSUME NEW c \in Entrants, RegisterReads(c) \/ RegisterInserts(c) PROVE BracketInv'
  BY <1>1, <1>3 DEF RegisterReads, RegisterInserts
<1>4. ASSUME NEW s \in Status, UpdateTournament(s) PROVE BracketInv'
  BY <1>1, <1>4 DEF UpdateTournament
<1> QED BY <1>0, <1>2, <1>3, <1>4, BracketDrawStep, BracketReadStep, BracketStoreStep, BracketAdvanceStep,
           BracketLostStep DEF TournamentNext

-----------------------------------------------------------------------------
(* What the tree shows *)

\* A place of round 1 is a slot of the draw.
LEMMA FirstRoundIs ==
    ASSUME BracketInv, drawn # 0, NEW i \in 1 .. Pow2[Rounds(drawn)]
    PROVE  InRound1(i) = Slot(drawn, i)
<1>1. Drawable(drawn) /\ DOMAIN match = Places(drawn)
  BY DrawnIs DEF BracketInv, TreeKept
<1>2. Pow2[Rounds(drawn)] = 2 * Pow2[Rounds(drawn) - 1] /\ Pow2[Rounds(drawn) - 1] \in Nat
  BY <1>1, RoundsAre DEF Drawable
<1>3. PICK p, side : p = (i + 1) \div 2 /\ side = IF i % 2 = 1 THEN 1 ELSE 2
  OBVIOUS
<1>4. p \in 1 .. Pow2[Rounds(drawn) - 1] /\ side \in {1, 2} /\ 2 * p - 2 + side = i
  BY <1>2, <1>3
<1>5. <<1, p>> \in DOMAIN match
  BY <1>1, <1>4, PlacesAre
<1>6. match[<<1, p>>].team[side] = Slot(drawn, 2 * p - 2 + side)
  BY <1>4, <1>5 DEF BracketInv, TreeKept
<1> QED BY <1>3, <1>4, <1>6 DEF InRound1

\* The first round is fair.
LEMMA BracketSeats == BracketInv => DrawSeatsEveryTeam
<1> SUFFICES ASSUME BracketInv, drawn > 0 PROVE DrawSeatsEveryTeam
  BY DEF DrawSeatsEveryTeam
<1>1. drawn # 0 /\ Drawable(drawn) /\ DOMAIN match = Places(drawn)
  BY DrawnIs DEF BracketInv, TreeKept, TournamentTyped
<1>2. PICK h : h = Pow2[Rounds(drawn) - 1]
  OBVIOUS
<1>3. Pow2[Rounds(drawn)] = 2 * h /\ h \in Nat /\ drawn \in Nat /\ (2 * h) \div 2 = h
  BY <1>1, <1>2, RoundsAre DEF Drawable
<1>4. \A i \in 1 .. 2 * h : InRound1(i) = Slot(drawn, i)
  BY <1>1, <1>3, FirstRoundIs
<1>5. ASSUME NEW t \in 1 .. drawn PROVE Cardinality({i \in 1 .. 2 * h : InRound1(i) = t}) = 1
  <2>1. PICK i \in 1 .. 2 * h : \A j \in 1 .. 2 * h : Slot(drawn, j) = t <=> j = i
    <3>1. \A u \in 1 .. drawn : \E i \in 1 .. Pow2[Rounds(drawn)] :
              \A j \in 1 .. Pow2[Rounds(drawn)] : Slot(drawn, j) = u <=> j = i
      BY <1>1, SlotsAre
    <3>2. PICK i \in 1 .. Pow2[Rounds(drawn)] : \A j \in 1 .. Pow2[Rounds(drawn)] : Slot(drawn, j) = t <=> j = i
      BY <3>1
    <3>3. 1 .. Pow2[Rounds(drawn)] = 1 .. 2 * h
      BY <1>3
    <3>4. i \in 1 .. 2 * h /\ \A j \in 1 .. 2 * h : Slot(drawn, j) = t <=> j = i
      BY <3>2, <3>3, Zenon
    <3> QED BY <3>4
  <2>2. {j \in 1 .. 2 * h : InRound1(j) = t} = {i}
    BY <1>4, <2>1
  <2> QED BY <2>2, FS_Singleton
<1>6. ASSUME NEW p \in 1 .. h
      PROVE  /\ InRound1(2 * p - 1) # None
             /\ InRound1(2 * p) = None => InRound1(2 * p - 1) <= 2 * h - drawn
  <2>1. 2 * p - 1 \in 1 .. 2 * h /\ 2 * p \in 1 .. 2 * h
    BY <1>3
  <2>2. /\ Slot(drawn, 2 * p - 1) # None
        /\ Slot(drawn, 2 * p) = None => Slot(drawn, 2 * p - 1) <= 2 * h - drawn
    BY <1>1, <1>2, <1>3, SlotsAre
  <2> QED BY <1>4, <2>1, <2>2
<1>7. ASSUME NEW p \in 1 .. h, NEW side \in {1, 2}, match[<<1, p>>].team[3 - side] = None
      PROVE  match[<<1, p>>].team[side] <= 2 * h - drawn
  <2>1. ((2 * p - 1) + 1) \div 2 = p /\ (2 * p - 1) % 2 = 1 /\ (2 * p + 1) \div 2 = p /\ (2 * p) % 2 # 1
    BY <1>3
  <2>2. InRound1(2 * p - 1) = match[<<1, p>>].team[1] /\ InRound1(2 * p) = match[<<1, p>>].team[2]
    BY <2>1 DEF InRound1
  <2>3. CASE side = 1
    <3>1. 3 - side = 2
      BY <2>3
    <3> QED BY <1>6, <1>7, <2>2, <2>3, <3>1
  <2>4. CASE side = 2
    <3>1. 3 - side = 1
      BY <2>4
    <3> QED BY <1>6, <1>7, <2>2, <2>4, <3>1
  <2> QED BY <2>3, <2>4
<1> QED BY <1>3, <1>5, <1>6, <1>7 DEF DrawSeatsEveryTeam

\* Teams stay on their branches.
LEMMA BracketBranches == BracketInv => BranchKept
<1> SUFFICES ASSUME BracketInv, NEW m \in DOMAIN match, NEW side \in {1, 2}, match[m].team[side] # None, ~redrawn
             PROVE  \E i \in Branch(m[1], m[2], side) : i <= Pow2[Rounds(drawn)] /\ InRound1(i) = match[m].team[side]
  BY DEF BranchKept
<1>1. drawn # 0
  BY PlaceIs
<1>2. PICK i \in Branch(m[1], m[2], side) : i <= Pow2[Rounds(drawn)] /\ Slot(drawn, i) = match[m].team[side]
  BY DEF BracketInv, TreeKept, LeadsTo
<1>3. i \in 1 .. Pow2[MaxRounds] /\ Pow2[MaxRounds] \in Nat
  BY <1>2, Pow2Is, SizesAssumption DEF Branch
<1>4. Pow2[Rounds(drawn)] \in Nat
  BY PlaceIs, RoundsAre DEF Drawable
<1>5. i \in 1 .. Pow2[Rounds(drawn)]
  BY <1>2, <1>3, <1>4
<1> QED BY <1>1, <1>2, <1>5, FirstRoundIs

\* With nothing under way every winner has moved up.
LEMMA BracketMoves == BracketInv => WinnersMoveUp
<1> SUFFICES ASSUME BracketInv, UnderWay = {}, ~raced, ~redrawn,
                    NEW m \in DOMAIN match, m[1] > 1, NEW side \in {1, 2}
             PROVE  match[m].team[side] = match[<<m[1] - 1, 2 * m[2] - 2 + side>>].winner
  BY DEF WinnersMoveUp
<1>1. \A o \in Recorders : result[o].stage = "none"
  BY DEF UnderWay
<1> QED BY <1>1 DEF BracketInv, MovedUp, Below

\* Of the undecided matches one of the lowest round can be played.
LEMMA BracketGoesOn == BracketInv => NeverStuck
<1> SUFFICES ASSUME BracketInv, drawn > 0, UnderWay = {}, ~raced, ~redrawn,
                    match[<<Rounds(drawn), 1>>].winner = None
             PROVE  \E m \in DOMAIN match :
                        match[m].winner = None /\ match[m].team[1] # None /\ match[m].team[2] # None
  BY DEF NeverStuck
<1>1. drawn # 0 /\ Drawable(drawn) /\ DOMAIN match = Places(drawn)
  BY DrawnIs DEF BracketInv, TreeKept, TournamentTyped
<1>2. <<Rounds(drawn), 1>> \in DOMAIN match
  BY <1>1, PlacesAre
<1>3. \A m \in DOMAIN match : m[1] \in Nat \ {0} /\ m[2] \in Nat \ {0} /\ m = <<m[1], m[2]>>
  BY PlaceIs
<1> DEFINE Open == {m \in DOMAIN match : match[m].winner = None}
           Low == {m[1] : m \in Open}
<1>4. Low \in SUBSET Nat /\ Low # {}
  BY <1>2, <1>3
<1>5. PICK r \in Low : \A x \in Low : r <= x
  <2> HIDE DEF Low
  <2> QED BY <1>4, LeastNumber
<1>6. PICK m \in Open : m[1] = r
  BY <1>5
<1>7. m \in DOMAIN match /\ match[m].winner = None
  BY <1>6
<1>8. \A q \in DOMAIN match : q[1] < m[1] => match[q].winner # None
  BY <1>3, <1>5, <1>6
<1>9. CASE m[1] > 1
  <2>1. ASSUME NEW side \in {1, 2} PROVE match[m].team[side] # None
    <3>1. Below(m, side) \in DOMAIN match /\ Below(m, side)[1] < m[1]
      BY <1>3, <1>7, <1>9, PlaceIs
    <3>2. match[m].team[side] = match[Below(m, side)].winner
      BY <1>7, <1>9, BracketMoves DEF WinnersMoveUp, Below
    <3> QED BY <1>8, <3>1, <3>2
  <2> QED BY <1>7, <2>1
<1>10. CASE m[1] = 1
  <2>1. m[2] \in 1 .. Pow2[Rounds(drawn) - 1]
    BY <1>1, <1>3, <1>7, <1>10, PlacesAre, RoundsAre DEF Drawable
  <2>2. /\ match[m].team[1] = Slot(drawn, 2 * m[2] - 2 + 1) /\ match[m].team[2] = Slot(drawn, 2 * m[2] - 2 + 2)
        /\ Rounds(drawn) > 1 /\ match[m].team[2] = None => match[m].winner # None
    BY <1>7, <1>10 DEF BracketInv, TreeKept
  <2>3. 2 * m[2] - 2 + 1 = 2 * m[2] - 1 /\ 2 * m[2] - 2 + 2 = 2 * m[2]
    BY <1>3, <1>7
  <2>4. /\ Slot(drawn, 2 * m[2] - 1) # None
        /\ Slot(drawn, 2 * m[2]) = None => Rounds(drawn) # 1
    BY <1>1, <2>1, SlotsAre
  <2>5. Rounds(drawn) \in Nat \ {0}
    BY <1>1, RoundsAre, SizesAssumption DEF Drawable
  <2> QED BY <1>7, <2>2, <2>3, <2>4, <2>5
<1> QED BY <1>3, <1>7, <1>9, <1>10

\* Of a tournament of any size, whatever results are recorded, lost or
\* recorded again: a drawn tree seats every team once, gives the byes to the
\* strongest seeds, keeps each team on its branch, moves the winners up and
\* never runs out of matches to play.
THEOREM BracketHolds == TournamentSpec => []BracketIsSound
<1>1. TournamentInit => BracketInv
  BY BracketStarts
<1>2. BracketInv /\ [TournamentNext]_tournamentVars => BracketInv'
  BY BracketStep
<1>3. BracketInv => BracketIsSound
  BY BracketSeats, BracketBranches, BracketMoves, BracketGoesOn DEF BracketIsSound
<1> QED BY <1>1, <1>2, <1>3, PTL DEF TournamentSpec

-----------------------------------------------------------------------------
(* Quotients and remainders *)

\* The larger number has the larger multiple.
LEMMA Grows == ASSUME NEW a \in Int, NEW b \in Int, NEW c \in Nat, a <= b PROVE a * c <= b * c
OBVIOUS

\* Of two multiples the larger is the larger number's.
LEMMA Cancels == ASSUME NEW a \in Int, NEW b \in Int, NEW c \in Nat \ {0}, a * c < b * c PROVE a < b
OBVIOUS

\* A number is its quotient's multiple and the remainder.
LEMMA Divides ==
    ASSUME NEW a \in Int, NEW d \in Nat \ {0}
    PROVE  a \div d \in Int /\ a % d \in 0 .. d - 1 /\ a = d * (a \div d) + (a % d)
OBVIOUS

\* There is one quotient and one remainder.
LEMMA DivIs ==
    ASSUME NEW a \in Int, NEW d \in Nat \ {0}, NEW q \in Int, NEW r \in 0 .. d - 1, a = d * q + r
    PROVE  a \div d = q /\ a % d = r
OBVIOUS

-----------------------------------------------------------------------------
(* The opening hours *)

\* The rows on file are rows the owner may write, whichever days have one.
LEMMA HoursTypedStart == HoursInit => HoursTypeOK
<1> SUFFICES ASSUME HoursInit PROVE HoursTypeOK
  OBVIOUS
<1>1. hours \in [{} -> Openings] /\ {} \in SUBSET Weekdays
  BY DEF HoursInit
<1> QED BY <1>1 DEF HoursTypeOK

\* Writing a day adds it to the days that are open or replaces it.
LEMMA HoursTypedStep == HoursTypeOK /\ [HoursNext]_hours => HoursTypeOK'
<1> SUFFICES ASSUME HoursTypeOK, HoursNext PROVE HoursTypeOK'
  BY DEF HoursTypeOK
<1>1. PICK days \in SUBSET Weekdays : hours \in [days -> Openings]
  BY DEF HoursTypeOK
<1>2. PICK d \in Weekdays, row \in Openings : UpsertWorkingHours([x \in {d} |-> row])
  BY DEF HoursNext
<1>3. hours' = [e \in days \cup {d} |-> IF e = d THEN row ELSE hours[e]]
  BY <1>1, <1>2 DEF UpsertWorkingHours
<1>4. hours' \in [days \cup {d} -> Openings] /\ days \cup {d} \in SUBSET Weekdays
  BY <1>1, <1>3
<1> QED BY <1>4 DEF HoursTypeOK

\* A row on file holds times of a day.
LEMMA RowIs ==
    ASSUME HoursTypeOK, NEW e \in DOMAIN hours
    PROVE  /\ hours[e].open \in 0 .. DayLength - 1 /\ hours[e].close \in 0 .. DayLength - 1
           /\ hours[e].closed \in BOOLEAN
<1>1. hours[e] \in Openings
  BY DEF HoursTypeOK
<1> QED BY <1>1, OpeningsAssumption

\* The end of a day's window, from midnight of the day.
LastOf(row) ==
    IF row.open = row.close THEN row.open + DayLength
    ELSE IF row.close = DayLength - 1 THEN DayLength
    ELSE IF row.close <= row.open THEN row.close + DayLength ELSE row.close

\* A day has at most one window, which opens on the day and ends within a day
\* of its opening.
LEMMA WindowIs ==
    ASSUME HoursTypeOK, NEW day \in Int
    PROVE  \/ /\ DayWindow(day) = {}
              /\ \/ day % WeekLength \notin DOMAIN hours
                 \/ hours[day % WeekLength].closed
           \/ /\ day % WeekLength \in DOMAIN hours /\ ~hours[day % WeekLength].closed
              /\ LET row == hours[day % WeekLength]
                     w == [open |-> day * DayLength + row.open, close |-> day * DayLength + LastOf(row)]
                 IN /\ DayWindow(day) = {w}
                    /\ row.open < LastOf(row) /\ LastOf(row) <= row.open + DayLength /\ LastOf(row) \in Nat
<1> DEFINE row == hours[day % WeekLength]
           close == IF row.close = DayLength - 1 THEN DayLength ELSE row.close
           last  == CASE row.open = row.close -> row.open + DayLength
                      [] row.open # row.close /\ close <= row.open -> close + DayLength
                      [] OTHER -> close
<1>1. DayWindow(day) = IF day % WeekLength \notin DOMAIN hours \/ row.closed THEN {}
                       ELSE {[open |-> day * DayLength + row.open, close |-> day * DayLength + last]}
  BY DEF DayWindow
<1>2. ASSUME day % WeekLength \in DOMAIN hours
      PROVE  last = LastOf(row) /\ row.open < LastOf(row) /\ LastOf(row) <= row.open + DayLength /\ LastOf(row) \in Nat
  <2>1. row.open \in 0 .. DayLength - 1 /\ row.close \in 0 .. DayLength - 1 /\ DayLength \in Nat \ {0}
    BY <1>2, RowIs, DayAssumption
  <2> HIDE DEF row
  <2> QED BY <2>1 DEF LastOf
<1> HIDE DEF last
<1> QED BY <1>1, <1>2

\* Whether a moment is within a window of a day.
Covers(day, t) == \E w \in DayWindow(day) : w.open <= t /\ t < w.close

\* With one window, that window decides.
LEMMA CoversOne ==
    ASSUME NEW day, NEW t, NEW w, DayWindow(day) = {w}
    PROVE  Covers(day, t) <=> w.open <= t /\ t < w.close
BY DEF Covers

\* A moment is within the window of a day as the clock of the day, or of the day
\* before, tells.
LEMMA OpenIs ==
    ASSUME HoursTypeOK, NEW t \in Int
    PROVE  OpenAt(t) <=> Covers(DayOf(t), t) \/ Covers(DayOf(t) - 1, t)
<1> DEFINE hand == t % DayLength
           On(d, Reads(_)) == d % WeekLength \in DOMAIN hours /\ Reads(hours[d % WeekLength])
           Early(row) == row.open # row.close /\ row.close > row.open
           Today(row)     == /\ ~row.closed /\ hand >= row.open
                             /\ Early(row) => hand < row.close \/ row.close = DayLength - 1
           Yesterday(row) == /\ ~row.closed /\ ~Early(row)
                             /\ hand < row.close
                             /\ row.close = DayLength - 1 => row.open = row.close
<1>1. OpenAt(t) <=> On(DayOf(t), Today) \/ On(DayOf(t) - 1, Yesterday)
  BY DEF OpenAt
<1>2. /\ DayOf(t) \in Int /\ hand \in 0 .. DayLength - 1 /\ t = DayLength * DayOf(t) + hand /\ DayLength \in Nat \ {0}
  BY Divides, DayAssumption DEF DayOf
<1>3. PICK d \in Int : d = DayOf(t)
  BY <1>2
<1>4. PICK c \in 0 .. DayLength - 1 : c = hand
  BY <1>2
<1>5. PICK m \in Int : m = d * DayLength /\ (d - 1) * DayLength = m - DayLength /\ t = m + c
  BY <1>2, <1>3, <1>4
<1>6. On(d, Today) <=> Covers(d, t)
  <2> DEFINE row == hours[d % WeekLength]
  <2>1. CASE d % WeekLength \notin DOMAIN hours \/ row.closed
    <3>1. DayWindow(d) = {}
      BY <2>1 DEF DayWindow
    <3>2. ~Covers(d, t)
      BY <3>1 DEF Covers
    <3> QED BY <2>1, <3>2
  <2>2. CASE d % WeekLength \in DOMAIN hours /\ ~row.closed
    <3>1. DayWindow(d) = {[open |-> m + row.open, close |-> m + LastOf(row)]}
      BY <2>2, <1>5, WindowIs
    <3>2. Covers(d, t) <=> m + row.open <= t /\ t < m + LastOf(row)
      BY <3>1 DEF Covers
    <3>3. On(d, Today) <=> Today(row)
      BY <2>2
    <3>4. row.open \in 0 .. DayLength - 1 /\ row.close \in 0 .. DayLength - 1
      BY <2>2, RowIs
    <3>5. PICK o \in 0 .. DayLength - 1, k \in 0 .. DayLength - 1 : o = row.open /\ k = row.close
      BY <3>4
    <3>6. Today(row) <=> c >= o /\ (o # k /\ k > o => c < k \/ k = DayLength - 1)
      BY <2>2, <3>5, <1>4
    <3>7. LastOf(row) = IF o = k THEN o + DayLength ELSE IF k = DayLength - 1 THEN DayLength
                        ELSE IF k <= o THEN k + DayLength ELSE k
      BY <3>5 DEF LastOf
    <3>8. Covers(d, t) <=> o <= c /\ c < LastOf(row)
      <4> HIDE DEF row
      <4>1. LastOf(row) \in Int
        BY <3>7, <1>2
      <4> QED BY <3>2, <3>5, <1>5, <1>2, <4>1
    <3> HIDE DEF row, Today, hand
    <3>9. (o <= c /\ c < LastOf(row)) <=> (c >= o /\ (o # k /\ k > o => c < k \/ k = DayLength - 1))
      BY <3>7, <1>2
    <3> QED BY <3>3, <3>6, <3>8, <3>9
  <2> QED BY <2>1, <2>2
<1>7. On(d - 1, Yesterday) <=> Covers(d - 1, t)
  <2> DEFINE row == hours[(d - 1) % WeekLength]
  <2>1. CASE (d - 1) % WeekLength \notin DOMAIN hours \/ row.closed
    <3>1. DayWindow(d - 1) = {}
      BY <2>1 DEF DayWindow
    <3>2. ~Covers(d - 1, t)
      BY <3>1 DEF Covers
    <3> QED BY <2>1, <3>2
  <2>2. CASE (d - 1) % WeekLength \in DOMAIN hours /\ ~row.closed
    <3>0. d - 1 \in Int
      OBVIOUS
    <3>1. DayWindow(d - 1) = {[open |-> (m - DayLength) + row.open, close |-> (m - DayLength) + LastOf(row)]}
      BY <2>2, <3>0, <1>5, WindowIs
    <3>2. Covers(d - 1, t) <=> (m - DayLength) + row.open <= t /\ t < (m - DayLength) + LastOf(row)
      <4>1. PICK w : w = [open |-> (m - DayLength) + row.open, close |-> (m - DayLength) + LastOf(row)]
        OBVIOUS
      <4>2. Covers(d - 1, t) <=> w.open <= t /\ t < w.close
        BY <3>1, <4>1, CoversOne
      <4> QED BY <4>1, <4>2
    <3>3. On(d - 1, Yesterday) <=> Yesterday(row)
      BY <2>2
    <3>4. row.open \in 0 .. DayLength - 1 /\ row.close \in 0 .. DayLength - 1
      BY <2>2, RowIs
    <3>5. PICK o \in 0 .. DayLength - 1, k \in 0 .. DayLength - 1 : o = row.open /\ k = row.close
      BY <3>4
    <3>6. Yesterday(row) <=> ~(o # k /\ k > o) /\ c < k /\ (k = DayLength - 1 => o = k)
      BY <2>2, <3>5, <1>4
    <3>7. LastOf(row) = IF o = k THEN o + DayLength ELSE IF k = DayLength - 1 THEN DayLength
                        ELSE IF k <= o THEN k + DayLength ELSE k
      BY <3>5 DEF LastOf
    <3>8. Covers(d - 1, t) <=> c < LastOf(row) - DayLength
      <4> HIDE DEF row
      <4>1. LastOf(row) \in Int
        BY <3>7, <1>2
      <4>2. Covers(d - 1, t) <=> m - DayLength + o <= m + c /\ m + c < m - DayLength + LastOf(row)
        BY <3>2, <3>5, <1>5
      <4> QED BY <4>1, <4>2, <1>2
    <3> HIDE DEF row, Yesterday, hand
    <3>9. (c < LastOf(row) - DayLength) <=> (~(o # k /\ k > o) /\ c < k /\ (k = DayLength - 1 => o = k))
      BY <3>7, <1>2
    <3> QED BY <3>3, <3>6, <3>8, <3>9
  <2> QED BY <2>1, <2>2
<1> HIDE DEF On, Today, Yesterday
<1> QED BY <1>1, <1>3, <1>6, <1>7

\* Windows open on their own days, so the moments of a day are within windows of
\* the day and of the day before.
LEMMA CoversNear ==
    ASSUME HoursTypeOK, NEW day \in Int, NEW t \in Int, Covers(day, t)
    PROVE  day = DayOf(t) \/ day = DayOf(t) - 1
<1>1. DayLength \in Nat \ {0}
  BY DayAssumption
<1>2. PICK w \in DayWindow(day) : w.open <= t /\ t < w.close
  BY DEF Covers
<1>3. PICK m \in Int : m = day * DayLength /\ (day + 1) * DayLength = m + DayLength
                       /\ (day + 2) * DayLength = (m + DayLength) + DayLength
  BY <1>1
<1>4. m <= w.open /\ w.close < (m + DayLength) + DayLength /\ w.open \in Int /\ w.close \in Int
  <2>1. day % WeekLength \in DOMAIN hours
        /\ w = [open |-> m + hours[day % WeekLength].open, close |-> m + LastOf(hours[day % WeekLength])]
        /\ LastOf(hours[day % WeekLength]) <= hours[day % WeekLength].open + DayLength
        /\ LastOf(hours[day % WeekLength]) \in Nat
    BY <1>2, <1>3, WindowIs
  <2>2. PICK o \in 0 .. DayLength - 1 : o = hours[day % WeekLength].open
    BY <2>1, RowIs
  <2>3. PICK l \in Nat : l = LastOf(hours[day % WeekLength])
    BY <2>1
  <2>4. w.open = m + o /\ w.close = m + l /\ l <= o + DayLength
    BY <2>1, <2>2, <2>3
  <2> QED BY <1>1, <2>4
<1>5. CASE t < m + DayLength
  <2>1. t - m \in 0 .. DayLength - 1 /\ t = DayLength * day + (t - m)
    BY <1>1, <1>2, <1>3, <1>4, <1>5
  <2> QED BY <1>1, <2>1, DivIs DEF DayOf
<1>6. CASE ~(t < m + DayLength)
  <2>1. PICK r \in 0 .. DayLength - 1 : r = t - (m + DayLength)
    BY <1>1, <1>2, <1>4, <1>6
  <2>2. t = DayLength * (day + 1) + r /\ day + 1 \in Int
    BY <1>1, <1>3, <2>1
  <2>3. t \div DayLength = day + 1
    BY <1>1, <2>2, DivIs
  <2> QED BY <2>3 DEF DayOf
<1> QED BY <1>5, <1>6

-----------------------------------------------------------------------------
(* The spans of merged windows *)

Span == [open : Int, close : Int]

\* Spans that follow one another with gaps between them, opened before a moment.
Spaced(spans, before) ==
    /\ spans \in Seq(Span)
    /\ \A i \in 1 .. Len(spans) : spans[i].open < spans[i].close /\ spans[i].open < before
    /\ \A i, j \in 1 .. Len(spans) : i < j => spans[i].close < spans[j].open

Within(spans, t) == \E i \in 1 .. Len(spans) : spans[i].open <= t /\ t < spans[i].close

\* One more window, opened no earlier than any before it, adds its moments and
\* no others.
LEMMA JoinedIs ==
    ASSUME NEW before \in Int, NEW after \in Int, NEW spans, Spaced(spans, before), NEW w \in Span,
           before <= w.open, w.open < after, w.open < w.close
    PROVE  /\ Spaced(Joined(spans, w), after)
           /\ \A t \in Int : Within(Joined(spans, w), t) <=> Within(spans, t) \/ (w.open <= t /\ t < w.close)
<1> DEFINE new == Joined(spans, w)
<1>0. PICK n \in Nat : n = Len(spans)
  BY DEF Spaced
<1>1. n \in Nat /\ DOMAIN spans = 1 .. n /\ \A i \in 1 .. n : spans[i] \in Span
  BY <1>0 DEF Spaced
<1>5. /\ \A i \in 1 .. n : spans[i].open < spans[i].close /\ spans[i].open < before
      /\ \A i, j \in 1 .. n : i < j => spans[i].close < spans[j].open
  BY <1>0 DEF Spaced
<1>2. w.open \in Int /\ w.close \in Int /\ \A i \in 1 .. n : spans[i].open \in Int /\ spans[i].close \in Int
  BY <1>1 DEF Span
<1>3. CASE n > 0 /\ Meets(spans[n], w)
  <2>0. n \in 1 .. n
    BY <1>1, <1>3
  <2>1. PICK last \in Int : last = IF w.close > spans[n].close THEN w.close ELSE spans[n].close
    BY <1>2, <2>0
  <2>2. new = [spans EXCEPT ![n].close = last]
    BY <1>0, <1>3, <2>1 DEF Joined
  <2>3. /\ new \in Seq(Span) /\ Len(new) = n /\ \A i \in 1 .. n : i # n => new[i] = spans[i]
        /\ new[n].open = spans[n].open /\ new[n].close = last
    <3>1. [spans[n] EXCEPT !.close = last] \in Span /\ [spans[n] EXCEPT !.close = last].open = spans[n].open
          /\ [spans[n] EXCEPT !.close = last].close = last
      BY <1>1, <1>2, <2>0, <2>1 DEF Span
    <3>2. new = [spans EXCEPT ![n] = [spans[n] EXCEPT !.close = last]]
      BY <2>2
    <3>3. new \in Seq(Span) /\ Len(new) = n
      BY <1>0, <1>1, <2>0, <3>1, <3>2 DEF Spaced
    <3>4. new[n] = [spans[n] EXCEPT !.close = last] /\ \A i \in 1 .. n : i # n => new[i] = spans[i]
      BY <1>1, <2>0, <3>2
    <3> QED BY <3>1, <3>3, <3>4
  <2> HIDE DEF new
  <2>4. spans[n].open < before /\ spans[n].open < spans[n].close /\ w.open <= spans[n].close
    BY <1>3, <1>5, <2>0 DEF Meets
  <2>5. Spaced(new, after)
    <3>1. ASSUME NEW i \in 1 .. n PROVE new[i].open < new[i].close /\ new[i].open < after
      <4>1. spans[i].open < spans[i].close /\ spans[i].open < before /\ spans[i].open \in Int /\ before < after
        BY <1>2, <1>5
      <4>2. CASE i = n
        BY <1>2, <2>0, <2>1, <2>3, <2>4, <4>1, <4>2
      <4>3. CASE i # n
        BY <1>2, <2>3, <4>1, <4>3
      <4> QED BY <4>2, <4>3
    <3>2. ASSUME NEW i \in 1 .. n, NEW j \in 1 .. n, i < j PROVE new[i].close < new[j].open
      <4>1. i # n /\ spans[i].close < spans[j].open
        BY <1>1, <1>5, <3>2
      <4>2. new[j].open = spans[j].open
        BY <2>3
      <4> QED BY <2>3, <4>1, <4>2
    <3> QED BY <2>3, <3>1, <3>2 DEF Spaced
  <2>6. ASSUME NEW t \in Int PROVE Within(new, t) <=> Within(spans, t) \/ (w.open <= t /\ t < w.close)
    <3>1. (spans[n].open <= t /\ t < last) <=> (spans[n].open <= t /\ t < spans[n].close) \/ (w.open <= t /\ t < w.close)
      BY <1>2, <2>0, <2>1, <2>4
    <3>2. Within(new, t) <=> (\E i \in 1 .. n : (i # n /\ spans[i].open <= t /\ t < spans[i].close))
                             \/ (spans[n].open <= t /\ t < last)
      BY <2>0, <2>3 DEF Within
    <3>3. Within(spans, t) <=> (\E i \in 1 .. n : (i # n /\ spans[i].open <= t /\ t < spans[i].close))
                               \/ (spans[n].open <= t /\ t < spans[n].close)
      BY <1>0, <2>0 DEF Within
    <3> QED BY <3>1, <3>2, <3>3
  <2> QED BY <2>5, <2>6 DEF new
<1>4. CASE ~(n > 0 /\ Meets(spans[n], w))
  <2>1. new = Append(spans, w)
    BY <1>0, <1>4 DEF Joined
  <2>2. /\ new \in Seq(Span) /\ Len(new) = n + 1 /\ new[n + 1] = w /\ \A i \in 1 .. n : new[i] = spans[i]
    BY <1>0, <2>1 DEF Spaced
  <2> HIDE DEF new
  <2>3. ASSUME NEW i \in 1 .. n PROVE spans[i].close < w.open
    <3>1. n \in 1 .. n /\ ~Meets(spans[n], w)
      BY <1>1, <1>4, <2>3
    <3>2. spans[n].close < w.open
      BY <1>2, <3>1 DEF Meets
    <3>3. CASE i = n
      BY <3>2, <3>3
    <3>4. CASE i # n
      <4>1. i < n
        BY <1>1, <2>3, <3>4
      <4>2. spans[i].close < spans[n].open /\ spans[n].open < spans[n].close
        BY <1>5, <3>1, <4>1
      <4> QED BY <1>2, <3>1, <3>2, <4>2
    <3> QED BY <3>3, <3>4
  <2>4. Spaced(new, after)
    <3>1. ASSUME NEW i \in 1 .. n + 1 PROVE new[i].open < new[i].close /\ new[i].open < after
      <4>1. CASE i = n + 1
        BY <2>2, <4>1
      <4>2. CASE i \in 1 .. n
        <5>1. new[i] = spans[i] /\ spans[i].open < spans[i].close /\ spans[i].open < before /\ spans[i].open \in Int
          BY <1>2, <1>5, <2>2, <4>2
        <5>2. before < after
          BY <1>2
        <5> QED BY <5>1, <5>2
      <4> QED BY <1>1, <4>1, <4>2
    <3>2. ASSUME NEW i \in 1 .. n + 1, NEW j \in 1 .. n + 1, i < j PROVE new[i].close < new[j].open
      <4>1. i \in 1 .. n
        BY <1>1, <3>2
      <4>2. CASE j = n + 1
        BY <2>2, <2>3, <4>1, <4>2
      <4>3. CASE j \in 1 .. n
        BY <1>5, <2>2, <3>2, <4>1, <4>3
      <4> QED BY <1>1, <4>2, <4>3
    <3> QED BY <2>2, <3>1, <3>2 DEF Spaced
  <2>5. ASSUME NEW t \in Int PROVE Within(new, t) <=> Within(spans, t) \/ (w.open <= t /\ t < w.close)
    <3>1. 1 .. n + 1 = (1 .. n) \cup {n + 1}
      BY <1>1
    <3> QED BY <1>0, <2>2, <3>1 DEF Within
  <2> QED BY <2>4, <2>5 DEF new
<1> QED BY <1>3, <1>4

\* A day's window, opened on its day, joins the spans opened before it.
LEMMA JoinedDayIs ==
    ASSUME HoursTypeOK, NEW day \in Int, NEW spans, Spaced(spans, day * DayLength)
    PROVE  /\ Spaced(JoinedDay(spans, day), (day + 1) * DayLength)
           /\ \A t \in Int : Within(JoinedDay(spans, day), t) <=> Within(spans, t) \/ Covers(day, t)
<1>1. DayLength \in Nat \ {0}
  BY DayAssumption
<1>2. PICK m \in Int : m = day * DayLength
  BY <1>1
<1>3. PICK u \in Int : u = (day + 1) * DayLength /\ u = m + DayLength
  BY <1>1, <1>2
<1>4. CASE DayWindow(day) = {}
  <2>1. JoinedDay(spans, day) = spans
    BY <1>4 DEF JoinedDay
  <2>2. \A t \in Int : ~Covers(day, t)
    BY <1>4 DEF Covers
  <2>3. Spaced(spans, u)
    <3>1. \A i \in 1 .. Len(spans) : spans[i] \in Span /\ spans[i].open < m
      BY <1>2 DEF Spaced
    <3>2. \A i \in 1 .. Len(spans) : spans[i].open < u
      BY <1>1, <1>3, <3>1 DEF Span
    <3> QED BY <3>2 DEF Spaced
  <2> QED BY <1>3, <2>1, <2>2, <2>3
<1>5. CASE DayWindow(day) # {}
  <2>1. PICK w : DayWindow(day) = {w} /\ w \in Span /\ m <= w.open /\ w.open < u /\ w.open < w.close
    <3> DEFINE row == hours[day % WeekLength]
    <3>1. /\ day % WeekLength \in DOMAIN hours
          /\ DayWindow(day) = {[open |-> m + row.open, close |-> m + LastOf(row)]}
          /\ row.open < LastOf(row) /\ LastOf(row) \in Nat
      BY <1>2, <1>5, WindowIs
    <3>2. row.open \in 0 .. DayLength - 1
      BY <3>1, RowIs
    <3> HIDE DEF row
    <3>3. PICK o \in 0 .. DayLength - 1, l \in Nat : o = row.open /\ l = LastOf(row) /\ o < l
      BY <3>1, <3>2
    <3>4. PICK x \in Int, y \in Int : x = m + o /\ y = m + l /\ m <= x /\ x < u /\ x < y
      BY <1>1, <1>3, <3>3
    <3>5. DayWindow(day) = {[open |-> x, close |-> y]} /\ [open |-> x, close |-> y] \in Span
      BY <3>1, <3>3, <3>4 DEF Span
    <3> QED BY <3>4, <3>5
  <2>2. JoinedDay(spans, day) = Joined(spans, w)
    BY <2>1 DEF JoinedDay
  <2>3. \A t \in Int : Covers(day, t) <=> w.open <= t /\ t < w.close
    BY <2>1 DEF Covers
  <2>4. /\ Spaced(Joined(spans, w), u)
        /\ \A t \in Int : Within(Joined(spans, w), t) <=> Within(spans, t) \/ (w.open <= t /\ t < w.close)
    BY <1>2, <2>1, JoinedIs
  <2> QED BY <1>3, <2>2, <2>3, <2>4
<1> QED BY <1>4, <1>5

\* The merged spans around a day hold the moments of three days' windows.
LEMMA MergedIs ==
    ASSUME HoursTypeOK, NEW day \in Int
    PROVE  /\ Spaced(Merged(day), (day + 2) * DayLength)
           /\ \A t \in Int : Within(Merged(day), t) <=> Covers(day - 1, t) \/ Covers(day, t) \/ Covers(day + 1, t)
<1>1. Spaced(<<>>, (day - 1) * DayLength) /\ \A t \in Int : ~Within(<<>>, t)
  BY DEF Spaced, Within
<1>2. PICK one : /\ one = JoinedDay(<<>>, day - 1) /\ Spaced(one, ((day - 1) + 1) * DayLength)
                 /\ \A t \in Int : Within(one, t) <=> Covers(day - 1, t)
  BY <1>1, JoinedDayIs
<1>3. Spaced(one, day * DayLength)
  <2>1. (day - 1) + 1 = day
    OBVIOUS
  <2> QED BY <1>2, <2>1
<1>4. PICK two : /\ two = JoinedDay(one, day) /\ Spaced(two, (day + 1) * DayLength)
                 /\ \A t \in Int : Within(two, t) <=> Covers(day - 1, t) \/ Covers(day, t)
  BY <1>2, <1>3, JoinedDayIs
<1>5. /\ Spaced(JoinedDay(two, day + 1), ((day + 1) + 1) * DayLength)
      /\ \A t \in Int : Within(JoinedDay(two, day + 1), t) <=> Within(two, t) \/ Covers(day + 1, t)
  BY <1>4, JoinedDayIs
<1>6. Merged(day) = JoinedDay(two, day + 1) /\ (day + 1) + 1 = day + 2
  BY <1>2, <1>4 DEF Merged
<1> QED BY <1>4, <1>5, <1>6

\* With gaps between the spans, an interval all of whose moments are within them
\* is within one of them.
LEMMA OneSpan ==
    ASSUME NEW spans, NEW before, Spaced(spans, before), NEW from \in Int, NEW to \in Int, from < to
    PROVE  (\E span \in Range(spans) : from >= span.open /\ to <= span.close)
               <=> \A t \in from .. to - 1 : Within(spans, t)
<1>0. PICK n \in Nat : n = Len(spans)
  BY DEF Spaced
<1>1. DOMAIN spans = 1 .. n /\ \A i \in 1 .. n : spans[i].open \in Int /\ spans[i].close \in Int
  <2>1. DOMAIN spans = 1 .. n /\ \A i \in 1 .. n : spans[i] \in Span
    BY <1>0 DEF Spaced
  <2> QED BY <2>1 DEF Span
<1>2. Range(spans) = {spans[i] : i \in 1 .. n}
  BY <1>1 DEF Range
<1>3. (\E span \in Range(spans) : from >= span.open /\ to <= span.close)
        <=> \E i \in 1 .. n : from >= spans[i].open /\ to <= spans[i].close
  BY <1>2
<1>4. ASSUME NEW i \in 1 .. n, from >= spans[i].open, to <= spans[i].close, NEW t \in from .. to - 1
      PROVE  Within(spans, t)
  BY <1>0, <1>1, <1>4 DEF Within
<1>5. ASSUME \A t \in from .. to - 1 : Within(spans, t)
      PROVE  \E i \in 1 .. n : from >= spans[i].open /\ to <= spans[i].close
  <2>1. from \in from .. to - 1
    OBVIOUS
  <2>2. PICK i \in 1 .. n : spans[i].open <= from /\ from < spans[i].close
    BY <1>0, <1>5, <2>1 DEF Within
  <2>3. SUFFICES ASSUME spans[i].close < to PROVE FALSE
    BY <1>1, <2>2
  <2>4. spans[i].close \in from .. to - 1
    BY <1>1, <2>2, <2>3
  <2>5. PICK j \in 1 .. n : spans[j].open <= spans[i].close /\ spans[i].close < spans[j].close
    BY <1>0, <1>5, <2>4 DEF Within
  <2>6. CASE i < j
    <3>1. spans[i].close < spans[j].open
      BY <1>0, <2>6 DEF Spaced
    <3> QED BY <1>1, <2>5, <3>1
  <2>7. CASE j < i
    <3>1. spans[j].close < spans[i].open
      BY <1>0, <2>7 DEF Spaced
    <3> QED BY <1>1, <2>2, <2>5, <3>1
  <2>8. CASE i = j
    BY <1>1, <2>5, <2>8
  <2> QED BY <1>1, <2>6, <2>7, <2>8
<1> QED BY <1>3, <1>4, <1>5

\* The days of a booking are its first day and the next, so the windows of three
\* days tell whether the club is open throughout.
LEMMA HoursTell == HoursTypeOK => HoursAreHonoured
<1> SUFFICES ASSUME HoursTypeOK, NEW from \in 0 .. WeekLength * DayLength - 1, NEW span \in 1 .. MaxSpan
             PROVE  WithinWorkingHours(from, from + span * HourLength)
                       <=> \A t \in from .. (from + span * HourLength) - 1 : OpenAt(t)
  BY DEF HoursAreHonoured
<1>1. DayLength \in Nat \ {0} /\ HourLength \in Nat \ {0} /\ MaxSpan \in Nat \ {0} /\ MaxSpan * HourLength <= DayLength
  BY DayAssumption, SpanAssumption
<1>a. from \in Int
  <2>1. WeekLength * DayLength \in Int
    BY DayAssumption
  <2> QED BY <2>1
<1>2. PICK to \in Int : to = from + span * HourLength /\ from < to /\ to <= from + DayLength
  <2>1. span \in Nat \ {0} /\ span <= MaxSpan
    BY <1>1
  <2>2. span * HourLength \in Nat \ {0} /\ span * HourLength <= MaxSpan * HourLength
    BY <1>1, <2>1
  <2> QED BY <1>1, <1>a, <2>2
<1>3. PICK d \in Int : d = DayOf(from)
  BY <1>1, <1>a, Divides DEF DayOf
<1>4. ASSUME NEW t \in from .. to - 1 PROVE DayOf(t) = d \/ DayOf(t) = d + 1
  <2>0. t \in Int /\ from <= t /\ t < to
    BY <1>a, <1>2
  <2>1. /\ t \div DayLength \in Int /\ t % DayLength \in 0 .. DayLength - 1
        /\ t = DayLength * (t \div DayLength) + (t % DayLength)
    BY <1>1, <2>0, Divides
  <2>2. /\ from % DayLength \in 0 .. DayLength - 1 /\ from = DayLength * d + (from % DayLength)
    BY <1>1, <1>a, <1>3, Divides DEF DayOf
  <2>3. PICK m \in Int : m = DayLength * d
    BY <1>1
  <2>4. PICK c \in 0 .. DayLength - 1 : from = m + c
    BY <2>2, <2>3
  <2>5. CASE t < m + DayLength
    <3>1. t - m \in 0 .. DayLength - 1 /\ t = DayLength * d + (t - m)
      BY <1>1, <1>2, <2>3, <2>4, <2>5
    <3> QED BY <1>1, <3>1, DivIs DEF DayOf
  <2>6. CASE ~(t < m + DayLength)
    <3>1. PICK r \in 0 .. DayLength - 1 : r = t - (m + DayLength)
      BY <1>1, <1>2, <2>3, <2>4, <2>6
    <3>2. t = DayLength * (d + 1) + r
      BY <1>1, <2>3, <3>1
    <3>3. t \div DayLength = d + 1
      <4>1. d + 1 \in Int
        OBVIOUS
      <4> QED BY <1>1, <2>0, <3>2, <4>1, DivIs
    <3> QED BY <3>3 DEF DayOf
  <2> QED BY <2>5, <2>6
<1>5. ASSUME NEW t \in from .. to - 1
      PROVE  OpenAt(t) <=> Covers(d - 1, t) \/ Covers(d, t) \/ Covers(d + 1, t)
  <2>1. OpenAt(t) <=> Covers(DayOf(t), t) \/ Covers(DayOf(t) - 1, t)
    BY OpenIs
  <2>2. \A e \in Int : Covers(e, t) => e = DayOf(t) \/ e = DayOf(t) - 1
    BY CoversNear
  <2> QED BY <1>4, <2>1, <2>2
<1>6. \A t \in from .. to - 1 : Within(Merged(d), t) <=> OpenAt(t)
  BY <1>5, MergedIs
<1>9. Spaced(Merged(d), (d + 2) * DayLength)
  BY MergedIs
<1>7. (\E s \in Range(Merged(d)) : from >= s.open /\ to <= s.close) <=> \A t \in from .. to - 1 : Within(Merged(d), t)
  BY <1>2, <1>9, OneSpan
<1>8. WithinWorkingHours(from, to) <=> \E s \in Range(Merged(d)) : from >= s.open /\ to <= s.close
  BY <1>3 DEF WithinWorkingHours
<1> QED BY <1>2, <1>6, <1>7, <1>8

\* For every week the owner can write, a booking is within the working hours
\* exactly when the club is open at every moment of it.
THEOREM HoursHold == HoursInit /\ [][HoursNext]_hours => []HoursAreHonoured
<1>1. HoursInit /\ [][HoursNext]_hours => []HoursTypeOK
  BY HoursTypedStart, HoursTypedStep, PTL
<1> QED BY <1>1, HoursTell, PTL

-----------------------------------------------------------------------------
(* The pages of one court *)

\* A page that is open holds a response, and a form the slot it was opened for.
Spans     == [from : Int, to : Int]
CellsOf   == {CellStart(date, hour) : date \in Dates, hour \in GridHours}
GridPage  == [date : Dates, listed : BOOLEAN, booked : SUBSET Intervals, blocked : SUBSET Intervals, current : BOOLEAN]
FormPage  == [date : Dates, hour : 0 .. HoursPerDay - 1, end : Int, cell : CellsOf \cup {NoCell}, current : BOOLEAN]
Reserved  == [from : Int, to : Int, status : Statuses]

BoardsTyped ==
    /\ service \in CourtStates /\ visitor \in {"member", "staff"} /\ clock \in Dawn .. Horizon
    /\ taken \subseteq Reserved /\ \A b \in taken : [from |-> b.from, to |-> b.to] \in Intervals
    /\ closures \subseteq Intervals
    /\ grid # NotOpen => grid \in GridPage
    /\ form # NotOpen => form \in FormPage /\ form.end - form.hour \in 1 .. MaxSpan

\* A form within the longest booking has the types the run checks.
LEMMA BoardsTypedIs == BoardsTyped => BoardsTypeOK
<1> SUFFICES ASSUME BoardsTyped PROVE BoardsTypeOK
  OBVIOUS
<1>1. grid # NotOpen => /\ grid.date \in Dates /\ grid.listed \in BOOLEAN /\ grid.current \in BOOLEAN
                        /\ grid.booked \cup grid.blocked \subseteq Intervals
  BY DEF BoardsTyped, GridPage
<1>2. form # NotOpen => /\ form.date \in Dates /\ form.hour \in 0 .. HoursPerDay - 1
                        /\ form.end - form.hour \in 1 .. MaxSpan
                        /\ form.cell \in CellsOf \cup {NoCell} /\ form.current \in BOOLEAN
  BY DEF BoardsTyped, FormPage
<1>3. \A b \in taken : b.status \in Statuses
  BY DEF BoardsTyped, Reserved
<1> QED BY <1>1, <1>2, <1>3 DEF BoardsTyped, BoardsTypeOK, CellsOf

\* At first no page is open and nothing is taken.
LEMMA BoardsTypedStart == BoardsInit => BoardsTyped
BY BoardAssumption DEF BoardsInit, BoardsTyped, CourtStates

\* A day has hours, and the grid shows hours of the day.
LEMMA HoursCounted == HoursPerDay \in Int /\ HoursPerDay > 0 /\ GridHours \subseteq 0 .. HoursPerDay - 1
<1>1. HoursPerDay \in Int
  BY DayAssumption DEF HoursPerDay
<1> QED BY <1>1, BoardAssumption DEF GridHours

\* What is on the screen when something moves is the same page, out of date.
LEMMA OutdatedTyped ==
    ASSUME BoardsTyped, Outdated
    PROVE  /\ grid' # NotOpen => grid' \in GridPage
           /\ form' # NotOpen => form' \in FormPage /\ form'.end - form'.hour \in 1 .. MaxSpan
<1>1. ASSUME grid' # NotOpen PROVE grid' \in GridPage
  <2>1. grid # NotOpen /\ grid' = [grid EXCEPT !.current = FALSE]
    BY <1>1 DEF Outdated
  <2> QED BY <2>1 DEF BoardsTyped, GridPage
<1>2. ASSUME form' # NotOpen PROVE form' \in FormPage /\ form'.end = form.end /\ form'.hour = form.hour /\ form # NotOpen
  <2>1. form # NotOpen /\ form' = [form EXCEPT !.current = FALSE]
    BY <1>2 DEF Outdated
  <2>2. form \in FormPage
    BY <2>1 DEF BoardsTyped
  <2> QED BY <2>1, <2>2 DEF FormPage
<1> QED BY <1>1, <1>2 DEF BoardsTyped

\* A grid that loads shows intervals that are taken or closed.
LEMMA LoadedTyped == ASSUME BoardsTyped, NEW date \in Dates PROVE LoadedGrid(date) \in GridPage
<1> DEFINE day(row) == Overlaps(row, At(date, Noon), At(date + 1, Cutoff))
           shows == {[from |-> b.from, to |-> b.to] : b \in {x \in taken : ShownHeld(x) /\ day(x)}}
           shut == {c \in closures : day(c)}
<1>1. shows \in SUBSET Intervals /\ shut \in SUBSET Intervals
  BY DEF BoardsTyped
<1>2. (service # "inactive") \in BOOLEAN
  OBVIOUS
<1>3. LoadedGrid(date) = [date |-> date, listed |-> service # "inactive", booked |-> shows, blocked |-> shut, current |-> TRUE]
  BY DEF LoadedGrid
<1> HIDE DEF shows, shut
<1> QED BY <1>1, <1>2, <1>3 DEF GridPage

\* Pages are loaded, fall behind and close; bookings stay within the intervals.
LEMMA BoardsTypedStep == BoardsTyped /\ [BoardsNext]_boardVars => BoardsTyped'
<1> SUFFICES ASSUME BoardsTyped, [BoardsNext]_boardVars PROVE BoardsTyped'
  OBVIOUS
<1>a. /\ MaxSpan \in Nat \ {0} /\ Intervals \subseteq Spans /\ Dates \subseteq Int
      /\ HoursPerDay \in Int /\ GridHours \subseteq 0 .. HoursPerDay - 1
  BY SpanAssumption, BoardAssumption, HoursCounted DEF Spans
<1>1. CASE UNCHANGED boardVars
  BY <1>1 DEF boardVars, BoardsTyped
<1>2. ASSUME NEW date \in Dates, OpenGrid(date) PROVE BoardsTyped'
  BY <1>2, LoadedTyped DEF OpenGrid, BoardsTyped
<1>3. ASSUME NEW hour \in GridHours, HandleSlotClick(hour) PROVE BoardsTyped'
  <2>1. grid \in GridPage /\ grid.date \in Dates /\ grid.current \in BOOLEAN
    BY <1>3 DEF HandleSlotClick, BoardsTyped, GridPage
  <2>2. CellStart(grid.date, hour) \in CellsOf
    BY <2>1 DEF CellsOf
  <2>3. form' = [date |-> grid.date, hour |-> hour, end |-> hour + 1, cell |-> CellStart(grid.date, hour), current |-> grid.current]
    BY <1>3 DEF HandleSlotClick
  <2>4. hour \in 0 .. HoursPerDay - 1
    BY <1>a
  <2>5. form' \in FormPage /\ form'.end - form'.hour \in 1 .. MaxSpan
    <3> HIDE DEF CellsOf
    <3>1. CellStart(grid.date, hour) \in CellsOf \cup {NoCell}
      BY <2>2
    <3>2. hour + 1 \in Int
      BY <2>4, <1>a
    <3>3. form' \in FormPage
      BY <2>1, <2>3, <2>4, <3>1, <3>2 DEF FormPage
    <3>4. form'.end - form'.hour = 1
      BY <2>3, <2>4, <1>a
    <3> QED BY <3>3, <3>4, <1>a
  <2> QED BY <1>3, <2>5 DEF HandleSlotClick, BoardsTyped
<1>4. ASSUME NEW hour \in 0 .. HoursPerDay - 1, HandleStartHourChange(hour) PROVE BoardsTyped'
  <2>1. form \in FormPage /\ form.end - form.hour \in 1 .. MaxSpan /\ form.end \in Int /\ form.hour \in Int
    BY <1>4, <1>a DEF HandleStartHourChange, BoardsTyped, FormPage
  <2>2. form' = [form EXCEPT !.hour = hour, !.end = hour + (form.end - form.hour), !.cell = NoCell, !.current = FALSE]
    BY <1>4 DEF HandleStartHourChange
  <2>5. PICK e \in Int : e = hour + (form.end - form.hour)
    BY <2>1, <1>a
  <2>6. form' = [form EXCEPT !.hour = hour, !.end = e, !.cell = NoCell, !.current = FALSE]
    BY <2>2, <2>5
  <2>3. form' \in FormPage /\ form'.hour = hour /\ form'.end = hour + (form.end - form.hour)
    <3>1. form' \in FormPage
      BY <2>1, <2>6 DEF FormPage
    <3>2. form'.hour = hour /\ form'.end = e
      BY <2>1, <2>6 DEF FormPage
    <3> QED BY <2>5, <3>1, <3>2
  <2>4. form'.end - form'.hour = form.end - form.hour
    BY <2>1, <2>3, <1>a
  <2> QED BY <1>4, <2>1, <2>3, <2>4 DEF HandleStartHourChange, BoardsTyped
<1>5. ASSUME NEW end \in 1 .. HoursPerDay - 1 + MaxSpan, HandleEndHourChange(end) PROVE BoardsTyped'
  <2>1. form \in FormPage /\ form.hour \in Int /\ end \in Int
    BY <1>5, <1>a DEF HandleEndHourChange, BoardsTyped, FormPage
  <2>2. form' = [form EXCEPT !.end = end, !.cell = NoCell, !.current = FALSE] /\ end \in form.hour + 1 .. form.hour + MaxSpan
    BY <1>5 DEF HandleEndHourChange
  <2>3. form' \in FormPage /\ form'.hour = form.hour /\ form'.end = end
    BY <2>1, <2>2 DEF FormPage
  <2>4. form'.end - form'.hour \in 1 .. MaxSpan
    BY <2>1, <2>2, <2>3, <1>a
  <2> QED BY <1>5, <2>3, <2>4 DEF HandleEndHourChange, BoardsTyped
<1>6. ASSUME NEW i \in Intervals, taken' = taken \cup {[from |-> i.from, to |-> i.to, status |-> "draft"]}
      PROVE  taken' \subseteq Reserved /\ \A b \in taken' : [from |-> b.from, to |-> b.to] \in Intervals
  <2>1. i.from \in Int /\ i.to \in Int /\ i = [from |-> i.from, to |-> i.to]
    BY <1>a DEF Spans
  <2>2. [from |-> i.from, to |-> i.to, status |-> "draft"] \in Reserved
    BY <2>1 DEF Reserved, Statuses
  <2> QED BY <1>6, <2>1, <2>2 DEF BoardsTyped
<1>7. CASE HandleSubmit
  <2> DEFINE i == [from |-> FormStart(form), to |-> FormEnd(form)]
  <2>1. i \in Intervals /\ taken' = taken \cup {[from |-> i.from, to |-> i.to, status |-> "draft"]}
    BY <1>7 DEF HandleSubmit
  <2>2. taken' \subseteq Reserved /\ \A b \in taken' : [from |-> b.from, to |-> b.to] \in Intervals
    BY <2>1, <1>6
  <2> QED BY <1>7, <2>2 DEF HandleSubmit, BoardsTyped
<1>8. ASSUME NEW i \in OnTheHour, BookElsewhere(i) PROVE BoardsTyped'
  BY <1>8, <1>6, OutdatedTyped DEF BookElsewhere, BoardsTyped, OnTheHour
<1>9. ASSUME NEW date, NEW i \in BlockModal(date) \cap Intervals, BlockSlot(i) PROVE BoardsTyped'
  BY <1>9, OutdatedTyped DEF BlockSlot, BoardsTyped
<1>10. ASSUME NEW b \in taken, NEW s \in Statuses, MoveOn(b, s) PROVE BoardsTyped'
  <2>1. taken' = (taken \ {b}) \cup {[b EXCEPT !.status = s]} /\ b \in Reserved /\ [from |-> b.from, to |-> b.to] \in Intervals
    BY <1>10 DEF MoveOn, BoardsTyped
  <2>2. [b EXCEPT !.status = s] \in Reserved /\ [b EXCEPT !.status = s].from = b.from /\ [b EXCEPT !.status = s].to = b.to
    BY <2>1 DEF Reserved
  <2>3. taken' \subseteq Reserved /\ \A x \in taken' : [from |-> x.from, to |-> x.to] \in Intervals
    BY <2>1, <2>2 DEF BoardsTyped
  <2> QED BY <1>10, <2>3, OutdatedTyped DEF MoveOn, BoardsTyped
<1>11. ASSUME NEW b \in taken, Cancel(b) PROVE BoardsTyped'
  BY <1>11, OutdatedTyped DEF Cancel, BoardsTyped
<1>12. ASSUME NEW c \in closures, Unblock(c) PROVE BoardsTyped'
  BY <1>12, OutdatedTyped DEF Unblock, BoardsTyped
<1>13. ASSUME NEW s \in CourtStates, SetCourt(s) PROVE BoardsTyped'
  BY <1>13, OutdatedTyped DEF SetCourt, BoardsTyped
<1>14. CASE Tick
  BY <1>14, BoardAssumption DEF Tick, BoardsTyped
<1> QED BY <1>1, <1>2, <1>3, <1>4, <1>5, <1>7, <1>8, <1>9, <1>10, <1>11, <1>12, <1>13, <1>14 DEF BoardsNext

-----------------------------------------------------------------------------
(* What the grid and the forms show *)

\* A row of the tables, and whether it holds its hours against a booking.
Whole(b)   == \E k \in Int, n \in 1 .. MaxSpan : b.from = k * HourLength /\ b.to = (k + n) * HourLength
Held(b)    == b.status \in Holding
Bookable(from, to) ==
    /\ \A c \in closures : ~Overlaps(c, from, to)
    /\ \A b \in taken : Held(b) => ~Overlaps(b, from, to)

\* What the grid of a day shows of the tables.
HeldOn(date) == {[from |-> b.from, to |-> b.to] :
                    b \in {x \in taken : ShownHeld(x) /\ Overlaps(x, At(date, Noon), At(date + 1, Cutoff))}}
ShutOn(date) == {c \in closures : Overlaps(c, At(date, Noon), At(date + 1, Cutoff))}

\* A booking is of whole hours, nothing is closed over it, one page is open at
\* a time, and a page or form still current shows the tables.
RowsApart ==
    /\ \A b \in taken : Whole(b)
    /\ \A c \in closures : c.from < c.to
    /\ \A b \in taken : Held(b) => \A c \in closures : ~Overlaps(c, b.from, b.to)
GridFresh == grid # NotOpen /\ grid.current => grid.booked = HeldOn(grid.date) /\ grid.blocked = ShutOn(grid.date)
FormFresh ==
    form # NotOpen /\ form.cell # NoCell =>
        /\ form.cell = FormStart(form) /\ form.end = form.hour + 1
        /\ form.current => Bookable(form.cell, form.cell + HourLength)
BoardsInv ==
    BoardsTyped /\ RowsApart /\ (grid = NotOpen \/ form = NotOpen) /\ GridFresh /\ FormFresh

\* The hours of a day, and times on the hour.
LEMMA DayIs ==
    /\ HourLength \in Nat \ {0} /\ DayLength \in Nat \ {0} /\ HoursPerDay \in Nat \ {0}
    /\ DayLength = HoursPerDay * HourLength
    /\ MaxSpan \in Nat \ {0} /\ Noon \in Int /\ Cutoff \in Int /\ 0 < Cutoff /\ Cutoff < Noon /\ Noon < HoursPerDay
<1>1. HourLength \in Nat \ {0} /\ DayLength \in Nat \ {0} /\ DayLength % HourLength = 0
  BY DayAssumption
<1>2. DayLength = HourLength * HoursPerDay /\ HoursPerDay \in Int
  BY <1>1, Divides DEF HoursPerDay
<1>3. HoursPerDay > 0
  BY BoardAssumption, <1>2
<1> QED BY <1>1, <1>2, <1>3, BoardAssumption, SpanAssumption

\* The hours of the calendar follow one another, over midnight too.
LEMMA AtIs ==
    ASSUME NEW day \in Int, NEW hour \in Int
    PROVE  /\ At(day, hour) \in Int /\ At(day, hour) = (day * HoursPerDay + hour) * HourLength
           /\ At(day, hour + 1) = At(day, hour) + HourLength
           /\ At(day, HoursPerDay) = At(day + 1, 0)
<1>1. At(day, hour) = day * DayLength + hour * HourLength /\ At(day, hour + 1) = day * DayLength + (hour + 1) * HourLength
      /\ At(day, HoursPerDay) = day * DayLength + HoursPerDay * HourLength
      /\ At(day + 1, 0) = (day + 1) * DayLength + 0 * HourLength
  BY DEF At
<1>2. day * DayLength = day * (HoursPerDay * HourLength)
  BY DayIs
<1>3. day * (HoursPerDay * HourLength) = (day * HoursPerDay) * HourLength /\ day * HoursPerDay \in Int
  BY DayIs
<1>4. (hour + 1) * HourLength = hour * HourLength + HourLength /\ (day + 1) * DayLength = day * DayLength + DayLength
  BY DayIs
<1>5. (day * HoursPerDay + hour) * HourLength = (day * HoursPerDay) * HourLength + hour * HourLength
  BY <1>3, DayIs
<1> QED BY <1>1, <1>2, <1>3, <1>4, <1>5, DayIs

\* The later of two hours of a day.
LEMMA AtGrows ==
    ASSUME NEW day \in Int, NEW g \in Int, NEW h \in Int, g <= h
    PROVE  At(day, g) <= At(day, h)
<1>1. g * HourLength <= h * HourLength /\ g * HourLength \in Int /\ h * HourLength \in Int /\ day * DayLength \in Int
  BY Grows, DayIs
<1> QED BY <1>1 DEF At

\* A row of the grid is an hour of the night it shows.
LEMMA CellIs ==
    ASSUME NEW date \in Int, NEW hour \in GridHours
    PROVE  /\ CellStart(date, hour) \in Int
           /\ \E k \in Int : CellStart(date, hour) = k * HourLength
           /\ At(date, Noon) <= CellStart(date, hour)
           /\ CellStart(date, hour) + HourLength <= At(date + 1, Cutoff)
<1>1. hour \in Int /\ 0 <= hour /\ hour <= HoursPerDay - 1 /\ (hour < Cutoff \/ Noon <= hour) /\ Noon \in Int
      /\ Cutoff \in Int /\ HoursPerDay \in Int /\ HourLength \in Int /\ date + 1 \in Int /\ 0 < Cutoff /\ Noon < HoursPerDay
  BY DayIs DEF GridHours
<1>2. At(date, Noon) \in Int /\ At(date + 1, 0) \in Int /\ At(date + 1, Cutoff) \in Int
  <2>1. At(date, Noon) \in Int
    BY <1>1, AtIs
  <2>2. At(date + 1, 0) \in Int
    BY <1>1, AtIs
  <2>3. At(date + 1, Cutoff) \in Int
    BY <1>1, AtIs
  <2> QED BY <2>1, <2>2, <2>3
<1>3. At(date, HoursPerDay) = At(date + 1, 0)
  BY <1>1, AtIs
<1>4. CASE hour < Cutoff
  <2>1. CellStart(date, hour) = At(date + 1, hour)
    BY <1>4 DEF CellStart
  <2>2. At(date, Noon) <= At(date, HoursPerDay)
    BY <1>1, AtGrows
  <2>3. At(date + 1, 0) <= At(date + 1, hour)
    BY <1>1, AtGrows
  <2>4. At(date + 1, hour + 1) <= At(date + 1, Cutoff)
    <3>1. hour + 1 \in Int /\ hour + 1 <= Cutoff
      BY <1>1, <1>4
    <3> QED BY <3>1, <1>1, AtGrows
  <2>5. At(date + 1, hour + 1) = At(date + 1, hour) + HourLength /\ At(date + 1, hour) \in Int
        /\ At(date + 1, hour) = ((date + 1) * HoursPerDay + hour) * HourLength
    BY <1>1, AtIs
  <2>6. (date + 1) * HoursPerDay + hour \in Int
    BY <1>1
  <2>7. \E k \in Int : CellStart(date, hour) = k * HourLength
    BY <2>1, <2>5, <2>6
  <2> QED BY <2>1, <2>2, <2>3, <2>4, <2>5, <2>7, <1>1, <1>2, <1>3
<1>5. CASE ~(hour < Cutoff)
  <2>1. CellStart(date, hour) = At(date, hour) /\ Noon <= hour /\ hour + 1 <= HoursPerDay /\ hour + 1 \in Int
    BY <1>1, <1>5 DEF CellStart
  <2>2. At(date, Noon) <= At(date, hour)
    BY <1>1, <2>1, AtGrows
  <2>3. At(date, hour + 1) <= At(date, HoursPerDay)
    BY <1>1, <2>1, AtGrows
  <2>4. At(date + 1, 0) <= At(date + 1, Cutoff)
    BY <1>1, AtGrows
  <2>5. At(date, hour + 1) = At(date, hour) + HourLength /\ At(date, hour) \in Int
        /\ At(date, hour) = (date * HoursPerDay + hour) * HourLength
    BY <1>1, AtIs
  <2>6. date * HoursPerDay + hour \in Int
    BY <1>1
  <2>7. \E k \in Int : CellStart(date, hour) = k * HourLength
    BY <2>1, <2>5, <2>6
  <2> QED BY <2>1, <2>2, <2>3, <2>4, <2>5, <2>7, <1>1, <1>2, <1>3
<1> QED BY <1>4, <1>5

\* The validator's answers: an accepted booking is of whole hours and free of
\* others; and one of whole hours on a court in service is refused to staff
\* only for a block or a booking.
LEMMA CreatedIs ==
    ASSUME NEW who, NEW from, NEW to, Verdict(who, from, to) = "created"
    PROVE  to - from \in {n * HourLength : n \in 1 .. MaxSpan} /\ Bookable(from, to)
<1>1. to - from \in {n * HourLength : n \in 1 .. MaxSpan}
  BY DEF Verdict
<1>2. ~\E c \in closures : Overlaps(c, from, to)
  BY DEF Verdict
<1>3. ~\E b \in taken : b.status \in Holding /\ Overlaps(b, from, to)
  BY DEF Verdict
<1> QED BY <1>1, <1>2, <1>3 DEF Bookable, Held

\* Staff are refused what is blocked or taken, and nothing else of a court that
\* is available; a slot with neither is refused for another reason, or created.
LEMMA VerdictIs ==
    ASSUME NEW who, NEW from, NEW to, to - from \in {n * HourLength : n \in 1 .. MaxSpan}
    PROVE  /\ who = "staff" /\ service = "available" =>
                Verdict(who, from, to) =
                    IF \E c \in closures : Overlaps(c, from, to) THEN "blocked"
                    ELSE IF \E b \in taken : Held(b) /\ Overlaps(b, from, to) THEN "taken"
                    ELSE "created"
           /\ Bookable(from, to) => Verdict(who, from, to) \in {"created", "unavailable", "closed", "past"}
<1>1. who = "staff" => who # "member"
  OBVIOUS
<1>2. ASSUME who = "staff", service = "available"
      PROVE  Verdict(who, from, to) =
                 IF \E c \in closures : Overlaps(c, from, to) THEN "blocked"
                 ELSE IF \E b \in taken : Held(b) /\ Overlaps(b, from, to) THEN "taken"
                 ELSE "created"
  <2>1. ~(to - from \notin {n * HourLength : n \in 1 .. MaxSpan}) /\ ~(service # "available") /\ ~(who = "member")
    BY <1>1, <1>2
  <2> QED BY <2>1 DEF Verdict, Held
<1>3. ASSUME Bookable(from, to) PROVE Verdict(who, from, to) \in {"created", "unavailable", "closed", "past"}
  <2>1. ~\E c \in closures : Overlaps(c, from, to)
    BY <1>3 DEF Bookable
  <2>2. ~\E b \in taken : b.status \in Holding /\ Overlaps(b, from, to)
    BY <1>3 DEF Bookable, Held
  <2> QED BY <2>1, <2>2 DEF Verdict
<1> QED BY <1>2, <1>3

-----------------------------------------------------------------------------
(* The steps of the pages and of the desk *)

\* A slot of a page that is current is drawn over what the tables hold in it.
LEMMA CellShown ==
    ASSUME BoardsTyped, GridFresh, grid # NotOpen, grid.current, NEW hour \in GridHours, NEW from, NEW to,
           from = CellStart(grid.date, hour), to = from + HourLength
    PROVE  /\ from \in Int /\ to \in Int /\ grid.date \in Int
           /\ (\E b \in grid.booked : Overlaps(b, from, to)) <=> \E b \in taken : Held(b) /\ Overlaps(b, from, to)
           /\ (\E c \in grid.blocked : Overlaps(c, from, to)) <=> \E c \in closures : Overlaps(c, from, to)
<1> DEFINE start  == At(grid.date, Noon)
           finish == At(grid.date + 1, Cutoff)
<1>1. grid.date \in Int /\ grid.date + 1 \in Int /\ Noon \in Int /\ Cutoff \in Int /\ HourLength \in Int
  <2>1. grid \in GridPage
    BY DEF BoardsTyped
  <2>2. grid.date \in Int
    BY <2>1, BoardAssumption DEF GridPage
  <2> QED BY <2>2, DayIs
<1>2. from \in Int /\ to \in Int /\ start <= from /\ to <= finish
  <2>1. CellStart(grid.date, hour) \in Int /\ start <= CellStart(grid.date, hour)
        /\ CellStart(grid.date, hour) + HourLength <= finish
    BY <1>1, CellIs
  <2> QED BY <2>1, <1>1
<1>3. start \in Int /\ finish \in Int
  <2>1. start \in Int
    BY <1>1, AtIs
  <2>2. finish \in Int
    BY <1>1, AtIs
  <2> QED BY <2>1, <2>2
<1>4. ASSUME NEW row, row.from \in Int, row.to \in Int, Overlaps(row, from, to) PROVE Overlaps(row, start, finish)
  <2> HIDE DEF start, finish
  <2> QED BY <1>2, <1>3, <1>4 DEF Overlaps
<1>5. grid.booked = {[from |-> b.from, to |-> b.to] : b \in {x \in taken : ShownHeld(x) /\ Overlaps(x, start, finish)}}
      /\ grid.blocked = {c \in closures : Overlaps(c, start, finish)}
  BY DEF GridFresh, HeldOn, ShutOn
<1>6. (\A b \in taken : b.from \in Int /\ b.to \in Int) /\ \A c \in closures : c.from \in Int /\ c.to \in Int
  BY BoardAssumption DEF BoardsTyped, Reserved
<1> HIDE DEF start, finish
<1>7. ASSUME NEW b \in grid.booked, Overlaps(b, from, to) PROVE \E x \in taken : Held(x) /\ Overlaps(x, from, to)
  <2>1. PICK x \in taken : ShownHeld(x) /\ b = [from |-> x.from, to |-> x.to]
    BY <1>5
  <2> QED BY <1>7, <2>1 DEF Overlaps, Held, ShownHeld
<1>8. ASSUME NEW x \in taken, Held(x), Overlaps(x, from, to) PROVE \E b \in grid.booked : Overlaps(b, from, to)
  <2>1. ShownHeld(x) /\ Overlaps(x, start, finish)
    BY <1>4, <1>6, <1>8 DEF Held, ShownHeld
  <2>2. [from |-> x.from, to |-> x.to] \in grid.booked
    BY <1>5, <2>1
  <2>3. Overlaps([from |-> x.from, to |-> x.to], from, to)
    BY <1>8 DEF Overlaps
  <2> QED BY <2>2, <2>3
<1>9. \A c \in closures : Overlaps(c, from, to) => c \in grid.blocked
  BY <1>4, <1>5, <1>6
<1>10. \A c \in grid.blocked : c \in closures
  BY <1>5
<1> QED BY <1>1, <1>2, <1>7, <1>8, <1>9, <1>10

\* A page or a form that something has moved under is no longer current.
LEMMA OutdatedFresh ==
    ASSUME BoardsInv, Outdated
    PROVE  (grid' = NotOpen \/ form' = NotOpen) /\ GridFresh' /\ FormFresh'
<1>1. grid' = NotOpen \/ form' = NotOpen
  BY DEF BoardsInv, Outdated
<1>2. ASSUME grid' # NotOpen PROVE ~grid'.current
  <2>1. grid # NotOpen /\ grid' = [grid EXCEPT !.current = FALSE]
    BY <1>2 DEF Outdated
  <2> QED BY <2>1 DEF BoardsInv, BoardsTyped, GridPage
<1>3. ASSUME form' # NotOpen
      PROVE  /\ form # NotOpen /\ form'.cell = form.cell /\ form'.date = form.date
             /\ form'.hour = form.hour /\ form'.end = form.end /\ ~form'.current
  <2>1. form # NotOpen /\ form' = [form EXCEPT !.current = FALSE]
    BY <1>3 DEF Outdated
  <2>2. form \in FormPage
    BY <2>1 DEF BoardsInv, BoardsTyped
  <2> QED BY <2>1, <2>2 DEF FormPage
<1>4. FormFresh'
  <2>1. FormStart(form') = FormStart(form) \/ form' = NotOpen
    BY <1>3 DEF FormStart
  <2> QED BY <1>3, <2>1 DEF BoardsInv, FormFresh
<1> QED BY <1>1, <1>2, <1>4 DEF GridFresh

\* A booking the validator accepts, of a start on the hour, keeps the rows apart.
LEMMA RowAdded ==
    ASSUME RowsApart, NEW k \in Int, NEW from \in Int, NEW to \in Int, from = k * HourLength,
           to - from \in {n * HourLength : n \in 1 .. MaxSpan}, Bookable(from, to), closures' = closures,
           taken' = taken \cup {[from |-> from, to |-> to, status |-> "draft"]}
    PROVE  RowsApart'
<1> DEFINE new == [from |-> from, to |-> to, status |-> "draft"]
<1>1. PICK n \in 1 .. MaxSpan : to - from = n * HourLength
  OBVIOUS
<1>2. new.from = k * HourLength /\ new.to = (k + n) * HourLength
  <2>1. (k + n) * HourLength = k * HourLength + n * HourLength /\ n * HourLength \in Int
    BY DayIs
  <2> QED BY <1>1, <2>1
<1>3. Whole(new)
  BY <1>2 DEF Whole
<1>4. \A c \in closures : ~Overlaps(c, new.from, new.to)
  BY DEF Bookable
<1> HIDE DEF new
<1>5. \A b \in taken' : b \in taken \/ b = new
  BY DEF new
<1>6. \A b : Whole(b)' <=> Whole(b)
  BY DEF Whole
<1> QED BY <1>3, <1>4, <1>5, <1>6 DEF RowsApart, Held

\* Opening the availability page of a day, and clicking a green slot of it.
LEMMA OpenGridStep == ASSUME BoardsInv, NEW date \in Dates, OpenGrid(date) PROVE BoardsInv'
<1>1. BoardsTyped'
  BY BoardsTypedStep DEF BoardsInv, BoardsNext
<1>2. grid' = LoadedGrid(date) /\ taken' = taken /\ closures' = closures /\ form' = NotOpen
  BY DEF OpenGrid
<1>3. grid'.date = date /\ grid'.booked = HeldOn(date) /\ grid'.blocked = ShutOn(date)
  BY <1>2 DEF LoadedGrid, HeldOn, ShutOn
<1>4. HeldOn(date)' = HeldOn(date) /\ ShutOn(date)' = ShutOn(date)
  BY <1>2 DEF HeldOn, ShutOn
<1>5. GridFresh'
  BY <1>2, <1>3 DEF GridFresh, HeldOn, ShutOn
<1> QED BY <1>1, <1>2, <1>5 DEF BoardsInv, RowsApart, FormFresh, Held, Whole

\* A free slot of a current page is open in the tables.
LEMMA SlotClickStep == ASSUME BoardsInv, NEW hour \in GridHours, HandleSlotClick(hour) PROVE BoardsInv'
<1>1. BoardsTyped'
  BY BoardsTypedStep DEF BoardsInv, BoardsNext
<1> DEFINE cell == CellStart(grid.date, hour)
<1>2. /\ grid # NotOpen /\ grid' = NotOpen /\ taken' = taken /\ closures' = closures
      /\ form' = [date |-> grid.date, hour |-> hour, end |-> hour + 1, cell |-> cell, current |-> grid.current]
  BY DEF HandleSlotClick
<1>3. form'.date = grid.date /\ form'.hour = hour /\ form'.end = hour + 1 /\ form'.cell = cell /\ form'.current = grid.current
  BY <1>2
<1>4. FormStart(form') = cell
  BY <1>3 DEF FormStart, CellStart
<1>5. ASSUME grid.current PROVE Bookable(cell, cell + HourLength)
  <2>1. ~(\E b \in grid.booked : Overlaps(b, cell, cell + HourLength))
        /\ ~(\E c \in grid.blocked : Overlaps(c, cell, cell + HourLength))
    BY DEF HandleSlotClick, SlotState
  <2>2. ((\E b \in grid.booked : Overlaps(b, cell, cell + HourLength))
            <=> \E b \in taken : Held(b) /\ Overlaps(b, cell, cell + HourLength))
        /\ ((\E c \in grid.blocked : Overlaps(c, cell, cell + HourLength))
            <=> \E c \in closures : Overlaps(c, cell, cell + HourLength))
    BY <1>2, <1>5, CellShown DEF BoardsInv
  <2> HIDE DEF cell
  <2> QED BY <2>1, <2>2 DEF Bookable
<1> HIDE DEF cell
<1>6. FormFresh'
  <2>1. ASSUME form'.current PROVE /\ \A c \in closures' : ~Overlaps(c, form'.cell, form'.cell + HourLength)
                                   /\ \A b \in taken' : Held(b) => ~Overlaps(b, form'.cell, form'.cell + HourLength)
    BY <2>1, <1>2, <1>3, <1>5 DEF Bookable
  <2> QED BY <2>1, <1>3, <1>4 DEF FormFresh, Bookable, Held
<1> QED BY <1>1, <1>2, <1>6 DEF BoardsInv, RowsApart, GridFresh, Held, Whole

\* Another hour in the form: it no longer says what was clicked.
LEMMA HourChangeStep ==
    ASSUME BoardsInv, NEW hour \in Int, NEW end \in Int, form # NotOpen, [BoardsNext]_boardVars,
           form' = [form EXCEPT !.hour = hour, !.end = end, !.cell = NoCell, !.current = FALSE],
           UNCHANGED <<service, taken, closures, clock, visitor, grid>>
    PROVE  BoardsInv'
<1>1. BoardsTyped'
  BY BoardsTypedStep DEF BoardsInv
<1>2. form \in FormPage
  BY DEF BoardsInv, BoardsTyped
<1>3. form'.cell = NoCell
  BY <1>2 DEF FormPage
<1>4. FormFresh'
  BY <1>3 DEF FormFresh, NoCell
<1>5. GridFresh'
  BY DEF BoardsInv, GridFresh, HeldOn, ShutOn
<1>6. RowsApart'
  BY DEF BoardsInv, RowsApart, Held, Whole
<1>7. grid' = NotOpen
  BY DEF BoardsInv
<1> QED BY <1>1, <1>4, <1>5, <1>6, <1>7 DEF BoardsInv

\* What the form sends starts on the hour.
LEMMA SubmitStep == ASSUME BoardsInv, HandleSubmit PROVE BoardsInv'
<1>1. BoardsTyped'
  BY BoardsTypedStep DEF BoardsInv, BoardsNext
<1>2. form \in FormPage
  BY DEF HandleSubmit, BoardsInv, BoardsTyped
<1>3. form.date \in Int /\ form.date + 1 \in Int /\ form.hour \in Int /\ Cutoff \in Int
  <2>1. form.date \in Int
    BY <1>2, BoardAssumption DEF FormPage
  <2>2. form.hour \in Int
    BY <1>2, DayIs DEF FormPage
  <2> QED BY <2>1, <2>2, DayIs
<1>4. PICK day \in Int : FormStart(form) = At(day, form.hour)
  BY <1>3 DEF FormStart
<1>5. FormStart(form) = (day * HoursPerDay + form.hour) * HourLength /\ day * HoursPerDay + form.hour \in Int
  <2>1. At(day, form.hour) = (day * HoursPerDay + form.hour) * HourLength
    BY <1>3, AtIs
  <2> QED BY <1>3, <1>4, <2>1, DayIs
<1>6. FormStart(form) \in Int /\ FormEnd(form) \in Int
  BY BoardAssumption DEF HandleSubmit
<1>7. FormEnd(form) - FormStart(form) \in {n * HourLength : n \in 1 .. MaxSpan} /\ Bookable(FormStart(form), FormEnd(form))
  BY CreatedIs DEF HandleSubmit
<1>8. closures' = closures /\ taken' = taken \cup {[from |-> FormStart(form), to |-> FormEnd(form), status |-> "draft"]}
      /\ grid' = grid /\ form' = NotOpen /\ form # NotOpen
  BY DEF HandleSubmit
<1>9. RowsApart'
  BY <1>5, <1>6, <1>7, <1>8, RowAdded DEF BoardsInv
<1>10. grid' = NotOpen
  BY <1>8 DEF BoardsInv
<1> QED BY <1>1, <1>8, <1>9, <1>10 DEF BoardsInv, GridFresh, FormFresh

\* Another booking, begun on the hour.
LEMMA ElsewhereStep == ASSUME BoardsInv, NEW i \in OnTheHour, BookElsewhere(i) PROVE BoardsInv'
<1>1. BoardsTyped'
  BY BoardsTypedStep DEF BoardsInv, BoardsNext
<1>2. i.from \in Int /\ i.to \in Int /\ i.from % HourLength = 0
  BY BoardAssumption DEF OnTheHour
<1>3. PICK k \in Int : i.from = k * HourLength
  <2>1. i.from = HourLength * (i.from \div HourLength) /\ i.from \div HourLength \in Int
    <3>1. HourLength \in Nat \ {0}
      BY DayIs
    <3>2. i.from \div HourLength \in Int /\ i.from = HourLength * (i.from \div HourLength) + (i.from % HourLength)
      BY <1>2, <3>1, Divides
    <3>3. HourLength * (i.from \div HourLength) \in Int
      BY <3>1, <3>2
    <3> QED BY <1>2, <3>2, <3>3
  <2>2. \A q \in Int : HourLength * q = q * HourLength
    BY DayIs
  <2> QED BY <2>1, <2>2
<1>4. i.to - i.from \in {n * HourLength : n \in 1 .. MaxSpan} /\ Bookable(i.from, i.to)
  BY CreatedIs DEF BookElsewhere
<1>5. closures' = closures /\ taken' = taken \cup {[from |-> i.from, to |-> i.to, status |-> "draft"]} /\ Outdated
  BY DEF BookElsewhere
<1>6. RowsApart'
  BY <1>2, <1>3, <1>4, <1>5, RowAdded DEF BoardsInv
<1> QED BY <1>1, <1>5, <1>6, OutdatedFresh DEF BoardsInv

\* A block of the block form, where nothing is.
LEMMA BlockStep ==
    ASSUME BoardsInv, NEW date \in Calendar, NEW i \in BlockModal(date) \cap Intervals, BlockSlot(i)
    PROVE  BoardsInv'
<1>1. BoardsTyped'
  BY BoardsTypedStep DEF BoardsInv, BoardsNext
<1>2. date \in Int
  BY BoardAssumption DEF Calendar
<1>3. i.from < i.to
  <2>1. PICK t \in (0 .. DayLength - 1) \X (0 .. DayLength - 1) :
            t[1] < t[2] /\ i = [from |-> At(date, 0) + t[1], to |-> At(date, 0) + t[2]]
    BY DEF BlockModal
  <2>2. t[1] \in Int /\ t[2] \in Int /\ t[1] < t[2]
    BY <2>1, DayIs
  <2>3. At(date, 0) \in Int
    BY <1>2, AtIs
  <2>4. i.from = At(date, 0) + t[1] /\ i.to = At(date, 0) + t[2]
    BY <2>1
  <2> HIDE DEF At
  <2> QED BY <2>2, <2>3, <2>4
<1>4. taken' = taken /\ closures' = closures \cup {i} /\ Outdated
      /\ \A b \in taken : b.status \in Holding => ~Overlaps(b, i.from, i.to)
  BY DEF BlockSlot
<1>5. \A b \in taken : Held(b) => ~Overlaps(i, b.from, b.to)
  <2>1. \A b \in taken : b.from \in Int /\ b.to \in Int
    BY DEF BoardsInv, BoardsTyped, Reserved
  <2>2. i.from \in Int /\ i.to \in Int
    BY BoardAssumption
  <2> QED BY <1>4, <2>1, <2>2 DEF Held, Overlaps
<1>6. \A b \in taken : Whole(b)' <=> Whole(b)
  BY DEF Whole
<1>7. RowsApart'
  BY <1>3, <1>4, <1>5, <1>6 DEF BoardsInv, RowsApart, Held
<1> QED BY <1>1, <1>4, <1>7, OutdatedFresh DEF BoardsInv

\* A booking that moves on stays where it is, and one that held nothing holds
\* nothing afterwards.
LEMMA MoveOnStep == ASSUME BoardsInv, NEW b \in taken, NEW s \in Statuses, MoveOn(b, s) PROVE BoardsInv'
<1>1. BoardsTyped'
  BY BoardsTypedStep DEF BoardsInv, BoardsNext
<1> DEFINE new == [b EXCEPT !.status = s]
<1>2. taken' = (taken \ {b}) \cup {new} /\ closures' = closures /\ Outdated
      /\ <<b.status, s>> \in {<<"draft", "confirmed">>, <<"confirmed", "no_show">>}
  BY DEF MoveOn
<1>3. b \in Reserved
  BY DEF BoardsInv, BoardsTyped
<1>4. new.from = b.from /\ new.to = b.to /\ new.status = s
  BY <1>3 DEF Reserved
<1>5. b.status \in Holding
  BY <1>2 DEF Holding
<1> HIDE DEF new
<1>6. RowsApart'
  <2>1. \A x \in taken' : x \in taken \/ x = new
    BY <1>2
  <2>2. Whole(b) /\ \A c \in closures : ~Overlaps(c, b.from, b.to)
    BY <1>5 DEF BoardsInv, RowsApart, Held
  <2>3. Whole(new) /\ \A c \in closures : ~Overlaps(c, new.from, new.to)
    BY <1>4, <2>2 DEF Whole
  <2>4. \A x : Whole(x)' <=> Whole(x)
    BY DEF Whole
  <2> QED BY <1>2, <2>1, <2>3, <2>4 DEF BoardsInv, RowsApart, Held
<1> QED BY <1>1, <1>2, <1>6, OutdatedFresh DEF BoardsInv

\* What is taken away leaves the others apart.
LEMMA TakenAwayStep ==
    ASSUME BoardsInv, [BoardsNext]_boardVars, taken' \subseteq taken, closures' \subseteq closures, Outdated
    PROVE  BoardsInv'
<1>1. BoardsTyped'
  BY BoardsTypedStep DEF BoardsInv
<1>2. \A x : Whole(x)' <=> Whole(x)
  BY DEF Whole
<1>3. RowsApart'
  BY <1>2 DEF BoardsInv, RowsApart, Held
<1> QED BY <1>1, <1>3, OutdatedFresh DEF BoardsInv

\* Nothing but the clock moves.
LEMMA BoardsStill ==
    ASSUME BoardsInv, [BoardsNext]_boardVars, UNCHANGED <<taken, closures, grid, form>>
    PROVE  BoardsInv'
<1>1. BoardsTyped'
  BY BoardsTypedStep DEF BoardsInv
<1>2. RowsApart' /\ GridFresh'
  BY DEF BoardsInv, RowsApart, Held, Whole, GridFresh, HeldOn, ShutOn
<1>3. FormFresh'
  BY DEF BoardsInv, FormFresh, FormStart, Bookable, Held
<1> QED BY <1>1, <1>2, <1>3 DEF BoardsInv

\* Every step of the pages, the desk, the owner and the clock.
LEMMA BoardsInvStep == BoardsInv /\ [BoardsNext]_boardVars => BoardsInv'
<1> SUFFICES ASSUME BoardsInv, [BoardsNext]_boardVars PROVE BoardsInv'
  OBVIOUS
<1>1. CASE UNCHANGED boardVars
  BY <1>1, BoardsStill DEF boardVars
<1>2. ASSUME NEW date \in Dates, OpenGrid(date) PROVE BoardsInv'
  BY <1>2, OpenGridStep
<1>3. ASSUME NEW hour \in GridHours, HandleSlotClick(hour) PROVE BoardsInv'
  BY <1>3, SlotClickStep
<1>4. ASSUME NEW hour \in 0 .. HoursPerDay - 1, HandleStartHourChange(hour) PROVE BoardsInv'
  <2>1. form # NotOpen
    BY <1>4 DEF HandleStartHourChange
  <2>2. form \in FormPage
    BY <2>1 DEF BoardsInv, BoardsTyped
  <2>3. form.end \in Int /\ form.hour \in Int /\ hour \in Int
    BY <2>2, DayIs DEF FormPage
  <2>4. PICK e \in Int : e = hour + (form.end - form.hour)
    BY <2>3
  <2>5. form' = [form EXCEPT !.hour = hour, !.end = e, !.cell = NoCell, !.current = FALSE]
    BY <1>4, <2>4 DEF HandleStartHourChange
  <2>6. UNCHANGED <<service, taken, closures, clock, visitor, grid>>
    BY <1>4 DEF HandleStartHourChange
  <2> QED BY <2>1, <2>3, <2>5, <2>6, HourChangeStep
<1>5. ASSUME NEW end \in 1 .. HoursPerDay - 1 + MaxSpan, HandleEndHourChange(end) PROVE BoardsInv'
  <2>1. form # NotOpen /\ UNCHANGED <<service, taken, closures, clock, visitor, grid>>
        /\ form' = [form EXCEPT !.end = end, !.cell = NoCell, !.current = FALSE]
    BY <1>5 DEF HandleEndHourChange
  <2>2. form \in FormPage
    BY <2>1 DEF BoardsInv, BoardsTyped
  <2>3. form.hour \in Int /\ end \in Int
    BY <2>2, DayIs DEF FormPage
  <2>4. form' = [form EXCEPT !.hour = form.hour, !.end = end, !.cell = NoCell, !.current = FALSE]
    BY <2>1, <2>2 DEF FormPage
  <2> QED BY <2>1, <2>3, <2>4, HourChangeStep
<1>6. ASSUME NEW date \in Calendar, NEW i \in BlockModal(date) \cap Intervals, BlockSlot(i) PROVE BoardsInv'
  BY <1>6, BlockStep
<1>7. ASSUME NEW b \in taken, Cancel(b) PROVE BoardsInv'
  BY <1>7, TakenAwayStep DEF Cancel
<1>8. ASSUME NEW c \in closures, Unblock(c) PROVE BoardsInv'
  BY <1>8, TakenAwayStep DEF Unblock
<1>9. ASSUME NEW s \in CourtStates, SetCourt(s) PROVE BoardsInv'
  BY <1>9, TakenAwayStep DEF SetCourt
<1>10. CASE Tick
  BY <1>10, BoardsStill DEF Tick
<1> QED BY <1>1, <1>2, <1>3, <1>4, <1>5, <1>6, <1>7, <1>8, <1>9, <1>10, SubmitStep, ElsewhereStep, MoveOnStep DEF BoardsNext

-----------------------------------------------------------------------------
(* What the pages show *)

\* A booking of whole hours that meets an hour covers it.
LEMMA WholeCovers ==
    ASSUME NEW b, Whole(b), NEW k \in Int, Overlaps(b, k * HourLength, k * HourLength + HourLength)
    PROVE  b.from \in Int /\ b.to \in Int /\ b.from <= k * HourLength /\ k * HourLength + HourLength <= b.to
<1>1. PICK q \in Int, n \in 1 .. MaxSpan : b.from = q * HourLength /\ b.to = (q + n) * HourLength
  BY DEF Whole
<1>2. HourLength \in Nat \ {0} /\ n \in Int /\ q + n \in Int /\ k + 1 \in Int
  BY DayIs
<1>3. (k + 1) * HourLength = k * HourLength + HourLength
  BY <1>2
<1>4. q * HourLength < (k + 1) * HourLength /\ k * HourLength < (q + n) * HourLength
  <2>1. b.from < k * HourLength + HourLength /\ b.to > k * HourLength
    BY DEF Overlaps
  <2>2. k * HourLength \in Int /\ (q + n) * HourLength \in Int
    BY <1>2
  <2> QED BY <2>1, <2>2, <1>1, <1>3
<1>5. q < k + 1
  BY <1>2, <1>4, Cancels
<1>6. k < q + n
  BY <1>2, <1>4, Cancels
<1>7. q <= k /\ k + 1 <= q + n
  BY <1>2, <1>5, <1>6
<1>8. q * HourLength <= k * HourLength
  BY <1>2, <1>7, Grows
<1>9. (k + 1) * HourLength <= (q + n) * HourLength
  BY <1>2, <1>7, Grows
<1>10. q * HourLength \in Int /\ (q + n) * HourLength \in Int
  BY <1>2
<1> QED BY <1>1, <1>3, <1>8, <1>9, <1>10

\* The length of one hour is one a form may send.
LEMMA OneHour == HourLength \in {n * HourLength : n \in 1 .. MaxSpan}
<1>1. 1 \in 1 .. MaxSpan /\ 1 * HourLength = HourLength
  BY DayIs
<1> QED BY <1>1

\* The grid of a day against the validator.
LEMMA GridTells == BoardsInv => GridAgrees
<1> SUFFICES ASSUME BoardsInv, grid # NotOpen, grid.current, service = "available", NEW hour \in GridHours,
                    NEW from, NEW to, from = CellStart(grid.date, hour), to = from + HourLength,
                    NEW verdict, verdict = Verdict("staff", from, to)
             PROVE  CASE SlotState(hour) = "booked"  -> verdict = "taken"
                      [] SlotState(hour) = "blocked" -> verdict = "blocked"
                      [] OTHER -> verdict = "created"
  BY DEF GridAgrees
<1> DEFINE Shut == \E c \in closures : Overlaps(c, from, to)
           Had  == \E b \in taken : Held(b) /\ Overlaps(b, from, to)
<1>1. /\ from \in Int /\ to \in Int /\ grid.date \in Int
      /\ (\E b \in grid.booked : Overlaps(b, from, to)) <=> Had
      /\ (\E c \in grid.blocked : Overlaps(c, from, to)) <=> Shut
  BY CellShown DEF BoardsInv
<1>2. to - from = HourLength
  BY <1>1, DayIs
<1>3. verdict = IF Shut THEN "blocked" ELSE IF Had THEN "taken" ELSE "created"
  <2>1. to - from \in {n * HourLength : n \in 1 .. MaxSpan}
    BY <1>2, OneHour
  <2> QED BY <2>1, VerdictIs
<1>4. PICK k \in Int : from = k * HourLength
  BY <1>1, CellIs
<1>5. ~(Had /\ Shut)
  <2>1. SUFFICES ASSUME NEW b \in taken, Held(b), Overlaps(b, from, to), NEW c \in closures, Overlaps(c, from, to) PROVE FALSE
    OBVIOUS
  <2>2. b.from \in Int /\ b.to \in Int /\ b.from <= from /\ to <= b.to
    <3>1. Overlaps(b, k * HourLength, k * HourLength + HourLength)
      BY <1>4, <2>1
    <3> QED BY <1>4, <3>1, WholeCovers DEF BoardsInv, RowsApart
  <2>3. c.from \in Int /\ c.to \in Int
    BY BoardAssumption DEF BoardsInv, BoardsTyped
  <2>4. Overlaps(c, b.from, b.to)
    BY <1>1, <2>1, <2>2, <2>3 DEF Overlaps
  <2> QED BY <2>1, <2>4 DEF BoardsInv, RowsApart
<1>6. \/ SlotState(hour) = "booked" /\ Had
      \/ SlotState(hour) = "blocked" /\ ~Had /\ Shut
      \/ SlotState(hour) \in {"past", "free"} /\ ~Had /\ ~Shut
  BY <1>1 DEF SlotState
<1> HIDE DEF Shut, Had
<1> QED BY <1>3, <1>5, <1>6

\* The form of a green slot against the validator.
LEMMA OfferTells == BoardsInv => OfferIsHonoured
<1> SUFFICES ASSUME BoardsInv, form # NotOpen, form.cell # NoCell
             PROVE  /\ FormStart(form) = form.cell /\ FormEnd(form) = form.cell + HourLength
                    /\ form.current => Verdict(visitor, FormStart(form), FormEnd(form))
                                           \in {"created", "unavailable", "closed", "past"}
  BY DEF OfferIsHonoured
<1>1. form \in FormPage
  BY DEF BoardsInv, BoardsTyped
<1>2. form.cell = FormStart(form) /\ form.end = form.hour + 1 /\ (form.current => Bookable(form.cell, form.cell + HourLength))
  BY DEF BoardsInv, FormFresh
<1>3. form.hour \in Int /\ form.date \in Int /\ form.date + 1 \in Int
  <2>1. form.date \in Int
    BY <1>1, BoardAssumption DEF FormPage
  <2>2. form.hour \in Int
    BY <1>1, DayIs DEF FormPage
  <2> QED BY <2>1, <2>2
<1>4. form.cell \in Int
  <2>1. PICK day \in Int : FormStart(form) = At(day, form.hour)
    BY <1>3 DEF FormStart
  <2>2. At(day, form.hour) \in Int
    BY <1>3, AtIs
  <2> QED BY <1>2, <2>1, <2>2
<1>5. FormEnd(form) = form.cell + HourLength
  <2>1. (form.end - form.hour) * HourLength = HourLength
    BY <1>2, <1>3, DayIs
  <2> QED BY <1>2, <2>1 DEF FormEnd
<1>6. form.cell + HourLength - form.cell = HourLength
  BY <1>4, DayIs
<1>7. ASSUME form.current PROVE Verdict(visitor, form.cell, form.cell + HourLength) \in {"created", "unavailable", "closed", "past"}
  <2>1. Bookable(form.cell, form.cell + HourLength)
    BY <1>2, <1>7
  <2>2. PICK to : to = form.cell + HourLength
    OBVIOUS
  <2>3. to - form.cell \in {n * HourLength : n \in 1 .. MaxSpan}
    <3>1. to - form.cell = HourLength
      BY <1>4, <2>2, DayIs
    <3> QED BY <3>1, OneHour
  <2>4. Verdict(visitor, form.cell, to) \in {"created", "unavailable", "closed", "past"}
    BY <2>1, <2>2, <2>3, VerdictIs
  <2> QED BY <2>2, <2>4
<1> QED BY <1>2, <1>5, <1>7

\* The hour of the day a moment falls in.
LEMMA HourIs ==
    ASSUME NEW day \in Int, NEW hour \in 0 .. HoursPerDay - 1, NEW rest \in 0 .. HourLength - 1
    PROVE  /\ DayOf(At(day, hour) + rest) = day
           /\ ((At(day, hour) + rest) % DayLength) \div HourLength = hour
           /\ (At(day, hour) + rest) % HourLength = rest
           /\ (At(day, hour) + rest) % DayLength = hour * HourLength + rest
<1>1. HourLength \in Nat \ {0} /\ DayLength \in Nat \ {0} /\ HoursPerDay \in Int /\ hour \in Int /\ rest \in Int
      /\ 0 <= hour /\ hour + 1 <= HoursPerDay /\ DayLength = HoursPerDay * HourLength
  BY DayIs
<1>2. hour * HourLength + rest \in 0 .. DayLength - 1
  <2>1. 0 * HourLength <= hour * HourLength
    BY <1>1, Grows
  <2>2. (hour + 1) * HourLength <= HoursPerDay * HourLength
    BY <1>1, Grows
  <2>3. (hour + 1) * HourLength = hour * HourLength + HourLength /\ 0 * HourLength = 0 /\ hour * HourLength \in Int
    BY <1>1
  <2> QED BY <1>1, <2>1, <2>2, <2>3
<1> DEFINE t == At(day, hour) + rest
           r == hour * HourLength + rest
<1>3. t = DayLength * day + r /\ t \in Int
  <2>1. day * DayLength = DayLength * day /\ day * DayLength \in Int /\ hour * HourLength \in Int
    BY <1>1
  <2> QED BY <1>1, <2>1 DEF At
<1>4. t \div DayLength = day /\ t % DayLength = r
  <2> HIDE DEF t, r
  <2>1. r \in 0 .. DayLength - 1
    BY <1>2 DEF r
  <2> QED BY <1>1, <1>3, <2>1, DivIs
<1>5. r = HourLength * hour + rest /\ r \in Int
  BY <1>1
<1>6. r \div HourLength = hour /\ r % HourLength = rest
  <2> HIDE DEF r
  <2> QED BY <1>1, <1>5, DivIs
<1>7. t % HourLength = rest
  <2>1. At(day, hour) = (day * HoursPerDay + hour) * HourLength
    BY <1>1, AtIs
  <2>2. PICK q \in Int : q = day * HoursPerDay + hour
    BY <1>1
  <2>3. t = HourLength * q + rest
    <3>1. q * HourLength = HourLength * q
      BY <1>1
    <3> QED BY <2>1, <2>2, <3>1
  <2>4. HourLength \in Nat \ {0} /\ t \in Int
    BY <1>1, <1>3
  <2> HIDE DEF t
  <2> QED BY <2>3, <2>4, DivIs
<1> QED BY <1>4, <1>6, <1>7 DEF DayOf

\* The week calendar: what overlaps an hour and does not start in it began before.
LEMMA CalendarTells == BoardsInv => CalendarIsTrue
<1> SUFFICES ASSUME BoardsInv, NEW date \in Dates, NEW hour \in 0 .. HoursPerDay - 1, NEW b \in taken,
                    b \notin EventsAt(date, hour), Overlaps(b, PanelStart(date, hour), PanelStart(date, hour) + HourLength)
             PROVE  b.from < PanelStart(date, hour)
  BY DEF CalendarIsTrue
<1>1. date \in Int /\ hour \in Int /\ b.from \in Int /\ HourLength \in Nat \ {0}
  <2>1. b.from \in Int
    BY DEF BoardsInv, BoardsTyped, Reserved
  <2> QED BY <2>1, BoardAssumption, DayIs
<1>2. At(date, hour) \in Int
  BY <1>1, AtIs
<1>3. b.from < At(date, hour) + HourLength
  BY DEF Overlaps, PanelStart
<1>4. SUFFICES ASSUME ~(b.from < At(date, hour)) PROVE FALSE
  BY DEF PanelStart
<1>5. PICK rest \in 0 .. HourLength - 1 : b.from = At(date, hour) + rest
  <2>1. b.from - At(date, hour) \in 0 .. HourLength - 1
    <3> QED BY <1>1, <1>2, <1>3, <1>4
  <2>2. b.from = At(date, hour) + (b.from - At(date, hour))
    BY <1>1, <1>2
  <2> QED BY <2>1, <2>2
<1>6. DayOf(b.from) = date /\ (b.from % DayLength) \div HourLength = hour
  BY <1>1, <1>5, HourIs
<1> QED BY <1>6 DEF EventsAt

-----------------------------------------------------------------------------
(* The schedule grid *)

\* The hour a time of the day falls in.
LEMMA HourOf ==
    ASSUME NEW m \in 0 .. DayLength - 1
    PROVE  /\ m \div HourLength \in 0 .. HoursPerDay - 1 /\ m % HourLength \in 0 .. HourLength - 1
           /\ m = (m \div HourLength) * HourLength + (m % HourLength)
           /\ (m \div HourLength) * HourLength <= m /\ m < (m \div HourLength + 1) * HourLength
<1>1. HourLength \in Nat \ {0} /\ HoursPerDay \in Nat \ {0} /\ m \in Int /\ 0 <= m /\ m < HoursPerDay * HourLength
  BY DayIs
<1>2. PICK q \in Int : q = m \div HourLength
  BY <1>1, Divides
<1>3. PICK r \in 0 .. HourLength - 1 : r = m % HourLength
  BY <1>1, Divides
<1>4. m = HourLength * q + r
  BY <1>1, <1>2, <1>3, Divides
<1>5. HourLength * q = q * HourLength /\ q * HourLength \in Int /\ (q + 1) * HourLength = q * HourLength + HourLength /\ q + 1 \in Int
  BY <1>1
<1>6. q * HourLength <= m /\ m < (q + 1) * HourLength
  BY <1>1, <1>4, <1>5
<1>7. 0 <= q
  <2>1. 0 * HourLength < (q + 1) * HourLength
    BY <1>1, <1>5, <1>6
  <2>2. 0 < q + 1
    BY <2>1, <1>1, <1>5, Cancels
  <2> QED BY <2>2
<1>8. q < HoursPerDay
  <2>1. q * HourLength < HoursPerDay * HourLength
    BY <1>1, <1>5, <1>6
  <2> QED BY <2>1, <1>1, Cancels
<1>9. q \in 0 .. HoursPerDay - 1
  BY <1>1, <1>7, <1>8
<1> QED BY <1>2, <1>3, <1>4, <1>5, <1>6, <1>9

\* A row that starts in the day from the first row on is drawn at its time.
LEMMA TopIs ==
    ASSUME NEW date \in Int, NEW first \in 0 .. HoursPerDay - 1, NEW top \in 0 .. DayLength - 1,
           NEW from, from = At(date, first) + top, GridStartHour(date) = first
    PROVE  ScheduleTop(date, from) = top
<1>1. HourLength \in Nat \ {0} /\ HoursPerDay \in Nat \ {0} /\ first \in Int /\ 0 <= first /\ first < HoursPerDay
  BY DayIs
<1>2. PICK q \in 0 .. HoursPerDay - 1, r \in 0 .. HourLength - 1 : top = q * HourLength + r
  BY HourOf
<1>3. q \in Int /\ r \in Int /\ 0 <= q /\ q < HoursPerDay /\ first + q \in Int /\ q * HourLength \in Int
  BY <1>1, <1>2
<1>4. At(date, first) + q * HourLength = At(date, first + q) /\ At(date, first) \in Int
  <2>1. At(date, first) = date * DayLength + first * HourLength /\ At(date, first + q) = date * DayLength + (first + q) * HourLength
    BY DEF At
  <2>2. (first + q) * HourLength = first * HourLength + q * HourLength /\ first * HourLength \in Int
    BY <1>1, <1>3
  <2>3. date * DayLength \in Int
    BY DayIs
  <2> QED BY <2>1, <2>2, <2>3, <1>3
<1>5. from = At(date, first + q) + r
  BY <1>2, <1>3, <1>4
<1>6. CASE first + q < HoursPerDay
  <2>1. first + q \in 0 .. HoursPerDay - 1
    BY <1>1, <1>3, <1>6
  <2>2. (from % DayLength) \div HourLength = first + q /\ from % HourLength = r
    BY <1>2, <1>5, <2>1, HourIs
  <2>3. ~(first + q < first) /\ first + q - first = q
    BY <1>1, <1>3
  <2>4. ScheduleTop(date, from) = (first + q - first) * HourLength + r
    BY <2>2, <2>3 DEF ScheduleTop
  <2> QED BY <1>2, <2>3, <2>4
<1>7. CASE ~(first + q < HoursPerDay)
  <2> DEFINE early == first + q - HoursPerDay
  <2>1. early \in 0 .. HoursPerDay - 1 /\ early < first /\ early + HoursPerDay = first + q
    BY <1>1, <1>3, <1>7
  <2> HIDE DEF early
  <2>2. At(date, first + q) = At(date + 1, early) /\ date + 1 \in Int
    <3>1. early \in Int /\ early * HourLength \in Int /\ HoursPerDay * HourLength = DayLength /\ DayLength \in Int
      BY <2>1, <1>1, DayIs
    <3>2. (first + q) * HourLength = early * HourLength + DayLength
      <4>1. (early + HoursPerDay) * HourLength = early * HourLength + HoursPerDay * HourLength
        BY <3>1, <1>1
      <4> QED BY <4>1, <3>1, <2>1
    <3>3. (date + 1) * DayLength = date * DayLength + DayLength /\ date * DayLength \in Int
      BY <3>1
    <3> QED BY <3>1, <3>2, <3>3 DEF At
  <2>3. from = At(date + 1, early) + r
    BY <1>5, <2>2
  <2>4. (from % DayLength) \div HourLength = early /\ from % HourLength = r
    BY <1>2, <2>1, <2>2, <2>3, HourIs
  <2>5. ScheduleTop(date, from) = ((early + HoursPerDay) - first) * HourLength + r
    BY <2>1, <2>4 DEF ScheduleTop
  <2>6. (early + HoursPerDay) - first = q
    BY <2>1, <1>1, <1>3
  <2> QED BY <1>2, <2>5, <2>6
<1> QED BY <1>6, <1>7

\* The schedule's hours are hours of the day.
LEMMA TimesAre ==
    ASSUME HoursTypeOK, NEW date \in Int
    PROVE  GridTimes(date).open \in 0 .. HoursPerDay - 1 /\ GridTimes(date).close \in 0 .. HoursPerDay - 1
<1>1. PICK days \in SUBSET Weekdays : hours \in [days -> Openings]
  BY DEF HoursTypeOK
<1> DEFINE day == date % WeekLength
<1>2. CASE day \in DOMAIN hours /\ ~hours[day].closed
  <2>1. hours[day].open \in 0 .. DayLength - 1 /\ hours[day].close \in 0 .. DayLength - 1
    BY <1>1, <1>2, OpeningsAssumption
  <2>2. GridTimes(date).open = hours[day].open \div HourLength /\ GridTimes(date).close = hours[day].close \div HourLength
    BY <1>2 DEF GridTimes
  <2> HIDE DEF day
  <2> QED BY <2>1, <2>2, HourOf
<1>3. CASE ~(day \in DOMAIN hours /\ ~hours[day].closed)
  BY <1>3, BoardAssumption DEF GridTimes
<1> QED BY <1>2, <1>3

\* What lies in the hours of a day that opens and closes in two hours of the
\* clock starts above the last row.
LEMMA DrawnAbove ==
    ASSUME HoursTypeOK, NEW date \in Int, NEW row, row.from \in Int, row.to \in Int, row.from < row.to,
           NEW w \in DayWindow(date), w.open <= row.from, row.to <= w.close,
           GridTimes(date).open # GridTimes(date).close
    PROVE  LET top == row.from - At(date, GridStartHour(date))
           IN top \in 0 .. DayLength - 1 /\ top < GridLength(date) * HourLength
<1>1. PICK days \in SUBSET Weekdays : hours \in [days -> Openings]
  BY DEF HoursTypeOK
<1> DEFINE day == date % WeekLength
<1>2. day \in DOMAIN hours /\ ~hours[day].closed
  BY DEF DayWindow
<1>3. PICK o \in 0 .. DayLength - 1, c \in 0 .. DayLength - 1 : o = hours[day].open /\ c = hours[day].close
  BY <1>1, <1>2, OpeningsAssumption
<1>4. PICK g \in 0 .. HoursPerDay - 1 : g = o \div HourLength /\ g * HourLength <= o
  BY HourOf
<1>5. PICK k \in 0 .. HoursPerDay - 1 : k = c \div HourLength /\ c < (k + 1) * HourLength /\ k * HourLength <= c
  BY HourOf
<1>6. GridTimes(date) = [open |-> g, close |-> k]
  BY <1>2, <1>3, <1>4, <1>5 DEF GridTimes
<1>7. g # k /\ GridStartHour(date) = g /\ GridTimes(date).open = g /\ GridTimes(date).close = k
  BY <1>6 DEF GridStartHour
<1>8. /\ HourLength \in Nat \ {0} /\ HoursPerDay \in Nat \ {0} /\ DayLength \in Nat \ {0} /\ DayLength = HoursPerDay * HourLength
      /\ g \in Int /\ k \in Int /\ o \in Int /\ c \in Int /\ 0 <= g /\ 0 <= k /\ k < HoursPerDay /\ 0 <= o /\ o < DayLength /\ c < DayLength
  BY DayIs
<1>9. PICK base \in Int : base = date * DayLength
  BY <1>8
<1>10. PICK gh \in Int : gh = g * HourLength
  BY <1>8
<1>11. PICK kh \in Int : kh = (k + 1) * HourLength /\ c < kh
  <2>1. (k + 1) * HourLength \in Int
    BY <1>8
  <2> QED BY <1>5, <2>1
<1>12. At(date, g) = base + gh /\ gh <= o /\ 0 <= gh
  <2>1. 0 * HourLength <= g * HourLength /\ 0 * HourLength = 0
    BY <1>8, Grows
  <2> QED BY <1>4, <1>9, <1>10, <2>1 DEF At
<1>13. PICK last \in Int :
          /\ w.open = base + o /\ w.close = base + last
          /\ \/ c < o /\ last = c + DayLength
             \/ o < c /\ c # DayLength - 1 /\ last = c
             \/ o < c /\ c = DayLength - 1 /\ last = DayLength
  <2>1. o # c
    BY <1>4, <1>5, <1>7
  <2> DEFINE close == IF c = DayLength - 1 THEN DayLength ELSE c
             ends == CASE o = c -> o + DayLength
                       [] o # c /\ close <= o -> close + DayLength
                       [] OTHER -> close
  <2>2. w = [open |-> date * DayLength + o, close |-> date * DayLength + ends]
    BY <1>2, <1>3 DEF DayWindow
  <2>3. ends \in Int
        /\ \/ c < o /\ ends = c + DayLength
           \/ o < c /\ c # DayLength - 1 /\ ends = c
           \/ o < c /\ c = DayLength - 1 /\ ends = DayLength
    BY <2>1, <1>8
  <2> HIDE DEF ends
  <2> QED BY <2>2, <2>3, <1>9
<1>14. PICK top \in Int : top = row.from - At(date, g) /\ 0 <= top /\ top < last - gh
  BY <1>8, <1>9, <1>10, <1>12, <1>13
<1>15. GridLength(date) = (IF k - g < 0 THEN k - g + HoursPerDay ELSE k - g) + 1
  BY <1>6 DEF GridLength
<1>16. CASE c < o
  <2>1. k < g
    <3>1. k * HourLength < (g + 1) * HourLength
      <4>1. o < (g + 1) * HourLength
        BY <1>4, HourOf
      <4>2. k * HourLength \in Int /\ (g + 1) * HourLength \in Int
        BY <1>8
      <4> QED BY <4>1, <4>2, <1>5, <1>8, <1>16
    <3>2. k < g + 1
      BY <3>1, <1>8, Cancels
    <3> QED BY <3>2, <1>7, <1>8
  <2>2. kh <= gh
    <3>1. k + 1 <= g /\ k + 1 \in Int
      BY <2>1, <1>8
    <3> QED BY <3>1, <1>8, <1>10, <1>11, Grows
  <2>3. GridLength(date) = (k + 1) - g + HoursPerDay
    BY <2>1, <1>8, <1>15
  <2>4. ((k + 1) - g + HoursPerDay) * HourLength = kh - gh + DayLength
    BY <1>8, <1>10, <1>11
  <2>5. last = c + DayLength
    BY <1>8, <1>13, <1>16
  <2>6. top < DayLength /\ top < kh - gh + DayLength
    BY <1>8, <1>10, <1>11, <1>14, <2>2, <2>5
  <2> QED BY <1>7, <1>8, <1>14, <2>3, <2>4, <2>6
<1>17. CASE o < c
  <2>1. g < k
    <3>1. g * HourLength < (k + 1) * HourLength
      BY <1>8, <1>10, <1>11, <1>12, <1>17
    <3>2. g < k + 1
      BY <3>1, <1>8, Cancels
    <3> QED BY <3>2, <1>7, <1>8
  <2>2. GridLength(date) = (k + 1) - g
    BY <2>1, <1>8, <1>15
  <2>3. ((k + 1) - g) * HourLength = kh - gh
    BY <1>8, <1>10, <1>11
  <2>4. last <= kh /\ last <= DayLength
    <3>1. c + 1 <= kh /\ c + 1 <= DayLength
      BY <1>8, <1>11
    <3> QED BY <3>1, <1>8, <1>13, <1>17
  <2>5. top < DayLength /\ top < kh - gh
    BY <1>8, <1>10, <1>11, <1>12, <1>14, <2>4
  <2> QED BY <1>7, <1>8, <1>14, <2>2, <2>3, <2>5
<1> QED BY <1>13, <1>16, <1>17

\* What a closure and a booking have in common: they end after they start.
LEMMA RowsRun ==
    ASSUME BoardsInv, NEW row \in taken \cup closures
    PROVE  row.from \in Int /\ row.to \in Int /\ row.from < row.to
<1>1. CASE row \in taken
  <2>1. PICK k \in Int, n \in 1 .. MaxSpan : row.from = k * HourLength /\ row.to = (k + n) * HourLength
    BY <1>1 DEF BoardsInv, RowsApart, Whole
  <2>2. HourLength \in Nat \ {0} /\ n \in Nat \ {0} /\ k + n \in Int
    BY DayIs
  <2>3. k * HourLength < (k + n) * HourLength /\ k * HourLength \in Int /\ (k + n) * HourLength \in Int
    <3>1. (k + n) * HourLength = k * HourLength + n * HourLength
      BY <2>2
    <3>2. 1 * HourLength <= n * HourLength
      BY <2>2, Grows
    <3> QED BY <3>1, <3>2, <2>2
  <2> QED BY <2>1, <2>3
<1>2. CASE row \in closures
  BY <1>2, BoardAssumption DEF BoardsInv, BoardsTyped, RowsApart
<1> QED BY <1>1, <1>2

\* Which rows the schedule of their day, or of the night before, loads.
LEMMA ScheduleLoads ==
    ASSUME BoardsInv, NEW row \in taken \cup closures, NEW day, day = DayOf(row.from)
    PROVE  row \in OnSchedule(day) \cup OnSchedule(day - 1)
              <=> row.from < At(day, Cutoff) \/ At(day, Noon) < row.to
<1>1. row.from \in Int /\ row.to \in Int /\ row.from < row.to
  BY RowsRun
<1>2. day \in Int /\ day * DayLength <= row.from /\ row.from < (day + 1) * DayLength
  <2>1. DayLength \in Nat \ {0}
    BY DayIs
  <2>2. day \in Int /\ row.from % DayLength \in 0 .. DayLength - 1 /\ row.from = DayLength * day + (row.from % DayLength)
    BY <1>1, <2>1, Divides DEF DayOf
  <2>3. DayLength * day = day * DayLength /\ (day + 1) * DayLength = day * DayLength + DayLength /\ day * DayLength \in Int
    <3>1. PICK d \in Int, n \in Nat : d = day /\ n = DayLength
      BY <2>1, <2>2
    <3>2. n * d = d * n /\ (d + 1) * n = d * n + n /\ d * n \in Int
      OBVIOUS
    <3> QED BY <3>1, <3>2
  <2> QED BY <1>1, <2>1, <2>2, <2>3
<1>3. /\ At(day, Noon) \in Int /\ At(day, Cutoff) \in Int
      /\ At(day, Noon) = day * DayLength + Noon * HourLength /\ At(day, Cutoff) = day * DayLength + Cutoff * HourLength
      /\ At(day + 1, Cutoff) = (day + 1) * DayLength + Cutoff * HourLength
      /\ At(day - 1, Noon) = (day - 1) * DayLength + Noon * HourLength
      /\ day - 1 + 1 = day
  BY <1>2, AtIs, DayIs DEF At
<1>4. /\ Cutoff * HourLength \in Nat /\ Noon * HourLength \in Nat /\ Noon * HourLength <= DayLength
      /\ (day - 1) * DayLength = day * DayLength - DayLength
      /\ day * DayLength \in Int /\ (day + 1) * DayLength \in Int /\ DayLength \in Nat
  <2>1. Noon * HourLength <= HoursPerDay * HourLength
    BY DayIs, Grows
  <2> QED BY <1>2, <2>1, DayIs
<1>5. /\ row \in OnSchedule(day) <=> row.from < At(day + 1, Cutoff) /\ row.to > At(day, Noon)
      /\ row \in OnSchedule(day - 1) <=> row.from < At(day, Cutoff) /\ row.to > At(day - 1, Noon)
  BY <1>3 DEF OnSchedule, Overlaps
<1>6. row.from < At(day + 1, Cutoff) /\ row.to > At(day - 1, Noon)
  BY <1>1, <1>2, <1>3, <1>4
<1> QED BY <1>1, <1>3, <1>5, <1>6

\* The schedule against the tables and the working hours.
LEMMA ScheduleTells == BoardsInv /\ HoursTypeOK => ScheduleIsTrue
<1> SUFFICES ASSUME BoardsInv, HoursTypeOK PROVE ScheduleIsTrue
  OBVIOUS
<1>1. ASSUME NEW date \in Dates, NEW row \in OnSchedule(date), NEW top, top = row.from - At(date, GridStartHour(date))
      PROVE  /\ top \in 0 .. DayLength - 1 => ScheduleTop(date, row.from) = top
             /\ \A w \in DayWindow(date) :
                   w.open <= row.from /\ row.to <= w.close /\ GridTimes(date).open # GridTimes(date).close =>
                       IF row \in closures THEN BlockCard(date, row) ELSE BookingCard(date, row)
  <2>1. row \in taken \cup closures /\ date \in Int
    BY BoardAssumption DEF OnSchedule
  <2>2. row.from \in Int /\ row.to \in Int /\ row.from < row.to
    BY <2>1, RowsRun
  <2>3. PICK first \in 0 .. HoursPerDay - 1 : first = GridStartHour(date)
    BY <2>1, TimesAre DEF GridStartHour
  <2>4. At(date, first) \in Int
    BY <2>1, <2>3, AtIs, DayIs
  <2>5. row.from = At(date, first) + top
    BY <1>1, <2>2, <2>3, <2>4
  <2>6. top \in 0 .. DayLength - 1 => ScheduleTop(date, row.from) = top
    BY <2>1, <2>3, <2>5, TopIs
  <2>7. ASSUME NEW w \in DayWindow(date), w.open <= row.from, row.to <= w.close, GridTimes(date).open # GridTimes(date).close
        PROVE  BlockCard(date, row) /\ BookingCard(date, row)
    <3>1. top \in 0 .. DayLength - 1 /\ top < GridLength(date) * HourLength
      BY <1>1, <2>1, <2>2, <2>7, DrawnAbove
    <3> QED BY <2>6, <3>1 DEF BlockCard, BookingCard
  <2> QED BY <2>6, <2>7
<1> QED BY <1>1, ScheduleLoads DEF ScheduleIsTrue

\* The invariant holds at first and tells the truth.
LEMMA BoardsInvStart == BoardsInit => BoardsInv
BY BoardsTypedStart DEF BoardsInit, BoardsInv, RowsApart, GridFresh, FormFresh

\* What the grid, the forms, the calendar and the schedule show follows.
LEMMA BoardsInvTells == BoardsInv /\ HoursTypeOK => BoardsAreTrue
BY GridTells, OfferTells, CalendarTells, ScheduleTells DEF BoardsAreTrue

\* A slot shown free can be had, the forms ask for what was clicked, the
\* calendar shows every booking at its hour, and the schedule those and only
\* those not within the hours from six to noon, for any hours of the week and
\* any bookings and closures.
THEOREM BoardsHold ==
    BoardsInit /\ HoursTypeOK /\ [][BoardsNext /\ UNCHANGED hours]_<<hours, boardVars>> => []BoardsAreTrue
<1> DEFINE Inv == BoardsInv /\ HoursTypeOK
<1>1. BoardsInit /\ HoursTypeOK => Inv
  BY BoardsInvStart
<1>2. Inv /\ [BoardsNext /\ UNCHANGED hours]_<<hours, boardVars>> => Inv'
  <2> SUFFICES ASSUME Inv, [BoardsNext /\ UNCHANGED hours]_<<hours, boardVars>> PROVE Inv'
    OBVIOUS
  <2>1. [BoardsNext]_boardVars /\ hours' = hours
    OBVIOUS
  <2>2. HoursTypeOK'
    BY <2>1 DEF HoursTypeOK
  <2> QED BY <2>1, <2>2, BoardsInvStep
<1>3. Inv => BoardsAreTrue
  BY BoardsInvTells
<1> QED BY <1>1, <1>2, <1>3, PTL

-----------------------------------------------------------------------------
(* Counting *)

\* The members of two sets, one with one.
PairsOff(f, S, T) ==
    /\ f \in [S -> T]
    /\ \A x, y \in S : f[x] = f[y] => x = y
    /\ \A t \in T : \E x \in S : f[x] = t

\* Two sets whose members pair off have one size.
LEMMA Matched ==
    ASSUME NEW S, NEW T, IsFiniteSet(T), NEW f, PairsOff(f, S, T)
    PROVE  IsFiniteSet(S) /\ Cardinality(S) = Cardinality(T)
<1>1. f \in Injection(S, T) /\ f \in Surjection(S, T)
  BY DEF Injection, Surjection, IsInjective, PairsOff
<1>2. IsFiniteSet(S)
  BY <1>1, FS_Injection
<1>3. ExistsBijection(S, T)
  BY <1>1 DEF ExistsBijection, Bijection
<1> QED BY <1>2, <1>3, FS_Bijection

\* The members of a finite set can be numbered.
LEMMA Numbered ==
    ASSUME NEW S, IsFiniteSet(S)
    PROVE  /\ Cardinality(S) \in Nat
           /\ \E f \in [1 .. Cardinality(S) -> S] :
                 /\ \A x, y \in 1 .. Cardinality(S) : f[x] = f[y] => x = y
                 /\ \A t \in S : \E x \in 1 .. Cardinality(S) : f[x] = t
<1>1. Cardinality(S) \in Nat /\ ExistsBijection(1 .. Cardinality(S), S)
  BY FS_CardinalityType
<1>2. PICK f : f \in Bijection(1 .. Cardinality(S), S)
  BY <1>1 DEF ExistsBijection
<1>3. f \in [1 .. Cardinality(S) -> S] /\ (\A x, y \in DOMAIN f : f[x] = f[y] => x = y)
      /\ \A t \in S : \E x \in 1 .. Cardinality(S) : f[x] = t
  BY <1>2 DEF Bijection, Injection, Surjection, IsInjective
<1> QED BY <1>1, <1>3

\* Rows that count the members of a set by a key, one row to a key.
Counts(rows, of, key) ==
    /\ \A x \in rows : x.bookings = Cardinality({v \in of : key[v] = x.key})
    /\ \A x, y \in rows : x.key = y.key => x = y
    /\ \A v \in of : \E x \in rows : x.key = key[v]

\* Together they count each member once.
LEMMA CountedOnce ==
    ASSUME NEW V, IsFiniteSet(V), NEW of \in SUBSET V, NEW key, NEW rows, Counts(rows, of, key)
    PROVE  Cardinality({x \in rows \X (1 .. Cardinality(V)) : x[2] <= x[1].bookings}) = Cardinality(of)
<1> DEFINE Part(k)  == {v \in of : key[v] = k}
           Pairs    == {x \in rows \X (1 .. Cardinality(V)) : x[2] <= x[1].bookings}
           Keys     == {x.key : x \in rows}
           Lists(f, k) == /\ f \in [1 .. Cardinality(Part(k)) -> Part(k)]
                          /\ \A x, y \in 1 .. Cardinality(Part(k)) : f[x] = f[y] => x = y
                          /\ \A t \in Part(k) : \E x \in 1 .. Cardinality(Part(k)) : f[x] = t
<1>0. /\ \A x \in rows : x.bookings = Cardinality({v \in of : key[v] = x.key})
      /\ \A x, y \in rows : x.key = y.key => x = y
      /\ \A v \in of : \E x \in rows : x.key = key[v]
  BY DEF Counts
<1>1. \A k : /\ Cardinality(Part(k)) \in Nat /\ Cardinality(Part(k)) <= Cardinality(V)
             /\ \E f : Lists(f, k)
  <2>1. SUFFICES ASSUME NEW k
                 PROVE /\ Cardinality(Part(k)) \in Nat /\ Cardinality(Part(k)) <= Cardinality(V)
                       /\ \E f : Lists(f, k)
    OBVIOUS
  <2>2. Part(k) \in SUBSET V
    OBVIOUS
  <2> HIDE DEF Part
  <2>3. IsFiniteSet(Part(k)) /\ Cardinality(Part(k)) <= Cardinality(V)
    BY <2>2, FS_Subset
  <2>4. Cardinality(Part(k)) \in Nat /\ \E f : Lists(f, k)
    BY <2>3, Numbered
  <2> QED BY <2>3, <2>4
<1>2. Cardinality(V) \in Nat /\ IsFiniteSet(of)
  BY FS_CardinalityType, FS_Subset
<1>3. PICK list : \A k \in Keys : Lists(list[k], k)
  <2> DEFINE list == [k \in Keys |-> CHOOSE f : Lists(f, k)]
  <2> HIDE DEF Lists, Keys
  <2>1. \A k \in Keys : Lists(list[k], k)
    BY <1>1
  <2> QED BY <2>1
<1>4. \A k, v : v \in Part(k) <=> v \in of /\ key[v] = k
  OBVIOUS
<1>5. PICK n : \A k \in Keys : n[k] = Cardinality(Part(k))
  <2> DEFINE n == [k \in Keys |-> Cardinality(Part(k))]
  <2>1. \A k \in Keys : n[k] = Cardinality(Part(k))
    OBVIOUS
  <2> HIDE DEF n
  <2> QED BY <2>1
<1>6. \A x \in rows : x.key \in Keys /\ x.bookings = n[x.key] /\ n[x.key] \in Nat /\ n[x.key] <= Cardinality(V)
  <2> HIDE DEF Part
  <2>1. \A x \in rows : x.key \in Keys
    OBVIOUS
  <2>2. \A x \in rows : x.bookings = Cardinality(Part(x.key))
    BY <1>0 DEF Part
  <2> QED BY <2>1, <2>2, <1>1, <1>5
<1>7. \A x : x \in Pairs <=> x \in rows \X (1 .. Cardinality(V)) /\ x[2] <= x[1].bookings
  OBVIOUS
<1> HIDE DEF Part
<1>8. \A k \in Keys : /\ \A i \in 1 .. n[k] : list[k][i] \in of /\ key[list[k][i]] = k
                      /\ \A i, j \in 1 .. n[k] : list[k][i] = list[k][j] => i = j
                      /\ \A v \in of : key[v] = k => \E i \in 1 .. n[k] : list[k][i] = v
  <2> SUFFICES ASSUME NEW k \in Keys
               PROVE  /\ \A i \in 1 .. n[k] : list[k][i] \in of /\ key[list[k][i]] = k
                      /\ \A i, j \in 1 .. n[k] : list[k][i] = list[k][j] => i = j
                      /\ \A v \in of : key[v] = k => \E i \in 1 .. n[k] : list[k][i] = v
    OBVIOUS
  <2>1. Lists(list[k], k) /\ n[k] = Cardinality(Part(k))
    BY <1>3, <1>5
  <2> QED BY <2>1, <1>4
<1> HIDE DEF Lists, Keys, Pairs
<1>9. \A x \in Pairs : /\ x[1] \in rows /\ x[1].key \in Keys /\ x[2] \in 1 .. n[x[1].key] /\ x = <<x[1], x[2]>>
  <2> SUFFICES ASSUME NEW x \in Pairs
               PROVE  x[1] \in rows /\ x[1].key \in Keys /\ x[2] \in 1 .. n[x[1].key] /\ x = <<x[1], x[2]>>
    OBVIOUS
  <2>1. x[1] \in rows /\ x[2] \in 1 .. Cardinality(V) /\ x = <<x[1], x[2]>> /\ x[2] <= x[1].bookings
    BY <1>7
  <2> QED BY <1>2, <1>6, <2>1
<1> DEFINE all == [x \in Pairs |-> list[x[1].key][x[2]]]
<1>10. \A x \in Pairs : all[x] \in of /\ key[all[x]] = x[1].key /\ all[x] = list[x[1].key][x[2]]
  BY <1>8, <1>9
<1>11. all \in [Pairs -> of]
  BY <1>10
<1> HIDE DEF all
<1>12. \A x, y \in Pairs : all[x] = all[y] => x = y
  <2> SUFFICES ASSUME NEW x \in Pairs, NEW y \in Pairs, all[x] = all[y] PROVE x = y
    OBVIOUS
  <2>1. x[1] \in rows /\ x[2] \in 1 .. n[x[1].key] /\ y[1] \in rows /\ y[2] \in 1 .. n[y[1].key]
        /\ x = <<x[1], x[2]>> /\ y = <<y[1], y[2]>>
    BY <1>9
  <2>2. x[1].key = y[1].key
    BY <1>10
  <2>3. x[1] = y[1]
    BY <1>0, <2>1, <2>2
  <2>4. PICK k \in Keys : k = x[1].key
    BY <1>9
  <2>5. list[k][x[2]] = list[k][y[2]] /\ x[2] \in 1 .. n[k] /\ y[2] \in 1 .. n[k]
    BY <1>10, <2>1, <2>2, <2>4
  <2>6. x[2] = y[2]
    BY <1>8, <2>5
  <2> QED BY <2>1, <2>3, <2>6
<1>13. \A v \in of : \E x \in Pairs : all[x] = v
  <2> SUFFICES ASSUME NEW v \in of PROVE \E x \in Pairs : all[x] = v
    OBVIOUS
  <2>1. PICK row \in rows : row.key = key[v]
    BY <1>0
  <2>2. PICK k \in Keys : k = row.key
    BY <1>6
  <2>3. PICK i \in 1 .. n[k] : list[k][i] = v
    BY <1>8, <2>1, <2>2
  <2>4. <<row, i>> \in Pairs
    <3>1. row.bookings = n[k] /\ n[k] <= Cardinality(V) /\ n[k] \in Nat
      BY <1>6, <2>2
    <3>2. i \in 1 .. Cardinality(V) /\ i <= row.bookings
      BY <1>2, <2>3, <3>1
    <3> QED BY <1>7, <3>2
  <2>5. all[<<row, i>>] = v
    <3>1. <<row, i>>[1] = row /\ <<row, i>>[2] = i
      OBVIOUS
    <3>2. all[<<row, i>>] = list[<<row, i>>[1].key][<<row, i>>[2]]
      BY <1>10, <2>4
    <3> QED BY <2>2, <2>3, <3>1, <3>2
  <2> QED BY <2>4, <2>5
<1>14. PairsOff(all, Pairs, of)
  BY <1>11, <1>12, <1>13 DEF PairsOff
<1>15. Cardinality(Pairs) = Cardinality(of)
  BY <1>2, <1>14, Matched
<1> QED BY <1>15 DEF Pairs

-----------------------------------------------------------------------------
(* The rows of a report *)

\* The bookings a report of a window is about.
Concerned(type, w) == {v \in Visits : Concerns(type, v, w)}

\* A row to a key, which counts the bookings of the key and adds their prices up;
\* no booking is left out.
LEMMA RowsAre ==
    ASSUME NEW type, NEW w
    PROVE  /\ \A x \in ReportRows(type, w) :
                 /\ x.bookings = Cardinality({v \in Concerned(type, w) : RowKey(type, v) = x.key})
                 /\ type \in Revenue => x.revenue = Total({v \in Concerned(type, w) : RowKey(type, v) = x.key}, PriceOf)
                 /\ x.key \in {RowKey(type, v) : v \in Concerned(type, w)} \cup Always(type)
           /\ \A x, y \in ReportRows(type, w) : x.key = y.key => x = y
           /\ \A v \in Concerned(type, w) : \E x \in ReportRows(type, w) : x.key = RowKey(type, v)
<1> DEFINE of    == Concerned(type, w)
           with(k) == {v \in of : RowKey(type, v) = k}
           row(k) == [key |-> k, place |-> Place(type, k, Cardinality(with(k))), bookings |-> Cardinality(with(k)),
                      revenue |-> IF type \in Revenue THEN Total(with(k), PriceOf) ELSE 0]
           Keys  == {RowKey(type, v) : v \in of} \cup Always(type)
<1>1. ReportRows(type, w) = {row(k) : k \in Keys}
  BY Zenon DEF ReportRows, Concerned
<1>2. \A k : /\ row(k).key = k /\ row(k).bookings = Cardinality(with(k))
             /\ type \in Revenue => row(k).revenue = Total(with(k), PriceOf)
  OBVIOUS
<1>3. \A v \in of : RowKey(type, v) \in Keys
  OBVIOUS
<1> HIDE DEF row, Keys, of
<1>4. \A x \in ReportRows(type, w) : \E k \in Keys : x = row(k) /\ x.key = k
  BY <1>1, <1>2
<1>5. \A v \in of : \E x \in ReportRows(type, w) : x.key = RowKey(type, v)
  BY <1>1, <1>2, <1>3
<1>6. \A x, y \in ReportRows(type, w) : x.key = y.key => x = y
  BY <1>4
<1>7. \A x \in ReportRows(type, w) : /\ x.bookings = Cardinality(with(x.key)) /\ x.key \in Keys
                                     /\ type \in Revenue => x.revenue = Total(with(x.key), PriceOf)
  BY <1>2, <1>4
<1>8. \A x \in ReportRows(type, w) :
          /\ x.bookings = Cardinality({v \in Concerned(type, w) : RowKey(type, v) = x.key})
          /\ type \in Revenue => x.revenue = Total({v \in Concerned(type, w) : RowKey(type, v) = x.key}, PriceOf)
  BY <1>7 DEF of
<1>9. \A x \in ReportRows(type, w) : x.key \in {RowKey(type, v) : v \in Concerned(type, w)} \cup Always(type)
  BY <1>7 DEF of, Keys
<1> QED BY <1>5, <1>6, <1>8, <1>9 DEF of

\* The rows of a report together count each booking it is about once.
LEMMA TalliedIs == ASSUME NEW type, NEW w PROVE Tallied(type, w) = Cardinality(Concerned(type, w))
<1> DEFINE key == [v \in Visits |-> RowKey(type, v)]
           rows == ReportRows(type, w)
           of == Concerned(type, w)
<1>1. IsFiniteSet(Visits) /\ of \in SUBSET Visits
  BY ReportsAssumption DEF Concerned
<1>2. \A v \in of : key[v] = RowKey(type, v)
  BY <1>1
<1>3. \A k : {v \in of : key[v] = k} = {v \in of : RowKey(type, v) = k}
  BY <1>2
<1>4. \A x \in rows : x.bookings = Cardinality({v \in of : RowKey(type, v) = x.key})
  BY RowsAre
<1>5. \A x, y \in rows : x.key = y.key => x = y
  BY RowsAre
<1>6. \A v \in of : \E x \in rows : x.key = RowKey(type, v)
  BY RowsAre
<1>7. \A x \in rows : x.bookings = Cardinality({v \in of : key[v] = x.key})
  BY <1>3, <1>4
<1>8. \A v \in of : \E x \in rows : x.key = key[v]
  BY <1>2, <1>6
<1>9. Counts(rows, of, key)
  <2> HIDE DEF key, rows, of
  <2> QED BY <1>5, <1>7, <1>8 DEF Counts
<1> HIDE DEF key, rows, of
<1>10. Cardinality({x \in rows \X (1 .. Cardinality(Visits)) : x[2] <= x[1].bookings}) = Cardinality(of)
  BY <1>1, <1>9, CountedOnce
<1> QED BY <1>10 DEF Tallied, rows, of

\* The rows of a revenue report together add up the prices of the bookings it is
\* about, each once.
LEMMA SummedIs == ASSUME NEW type \in Revenue, NEW w PROVE Summed(type, w) = Total(Concerned(type, w), PriceOf)
<1> DEFINE rows == ReportRows(type, w)
           of   == Concerned(type, w)
           row  == [v \in of |-> CHOOSE x \in rows : x.key = RowKey(type, v)]
           sum  == [x \in rows |-> Total({v \in of : row[v] = x}, PriceOf)]
<1>1. of \in SUBSET Visits /\ IsFiniteSet(of) /\ \A v \in of : PriceOf[v] \in Nat
  BY ReportsAssumption, FS_Subset DEF Concerned
<1>2. \A x \in rows : /\ x.revenue = Total({v \in of : RowKey(type, v) = x.key}, PriceOf)
                      /\ \E v \in of : x.key = RowKey(type, v)
  <2>1. Always(type) = {}
    BY DEF Always, Revenue
  <2> QED BY <2>1, RowsAre
<1>3. \A v \in of : row[v] \in rows /\ row[v].key = RowKey(type, v)
  <2>1. \A v \in of : \E x \in rows : x.key = RowKey(type, v)
    BY RowsAre
  <2> HIDE DEF rows, of
  <2> QED BY <2>1
<1>4. \A x, y \in rows : x.key = y.key => x = y
  BY RowsAre
<1>5. row \in [of -> rows]
  <2>1. row = [v \in of |-> row[v]]
    OBVIOUS
  <2> HIDE DEF row
  <2> QED BY <1>3, <2>1
<1> HIDE DEF rows, of, row
<1>6. \A x \in rows : {v \in of : row[v] = x} = {v \in of : RowKey(type, v) = x.key}
  BY <1>3, <1>4
<1>7. row \in Surjection(of, rows)
  <2>1. ASSUME NEW x \in rows PROVE \E v \in of : row[v] = x
    <3>1. PICK v \in of : x.key = RowKey(type, v)
      BY <1>2
    <3>2. row[v] \in rows /\ row[v].key = x.key
      BY <1>3, <3>1
    <3>3. row[v] = x
      BY <1>4, <3>2
    <3> QED BY <3>3
  <2> QED BY <2>1, <1>5 DEF Surjection
<1>8. IsFiniteSet(rows)
  BY <1>1, <1>7, FS_Surjection
<1>9. Total(of, PriceOf) = Total(rows, sum)
  BY <1>1, <1>3, <1>8, TotalBySlice
<1>10. \A x \in rows : sum[x] = x.revenue
  BY <1>2, <1>6
<1>11. sum = [x \in rows |-> x.revenue]
  BY <1>10
<1> HIDE DEF sum
<1> QED BY <1>9, <1>11 DEF Summed, rows, of

\* A moment's business day is the one whose six o'clock is the last before it.
LEMMA OperationalIs ==
    ASSUME NEW t \in Int, NEW d \in Int
    PROVE  /\ OperationalDay(t) \in Int
           /\ OperationalDay(t) = d <=> SixAM <= t + Ahead - d * UnitsPerDay /\ t + Ahead - d * UnitsPerDay < SixAM + UnitsPerDay
<1>1. UnitsPerDay \in Nat \ {0} /\ SixAM \in Int /\ Ahead \in Int
  BY ReportsAssumption
<1>2. PICK a \in Int : a = t + Ahead - SixAM
  BY <1>1
<1>3. PICK q \in Int, r \in 0 .. UnitsPerDay - 1 : q = a \div UnitsPerDay /\ a = UnitsPerDay * q + r
  BY <1>1, <1>2, Divides
<1>4. OperationalDay(t) = q
  BY <1>2, <1>3 DEF OperationalDay
<1>5. PICK base \in Int : base = d * UnitsPerDay /\ base = UnitsPerDay * d
  BY <1>1
<1>6. t + Ahead - d * UnitsPerDay = (a - base) + SixAM
  BY <1>1, <1>2, <1>5
<1>7. ASSUME q = d
      PROVE SixAM <= t + Ahead - d * UnitsPerDay /\ t + Ahead - d * UnitsPerDay < SixAM + UnitsPerDay
  <2>1. a = base + r
    BY <1>3, <1>5, <1>7
  <2> QED BY <2>1, <1>1, <1>3, <1>5, <1>6
<1>8. ASSUME SixAM <= t + Ahead - d * UnitsPerDay, t + Ahead - d * UnitsPerDay < SixAM + UnitsPerDay
      PROVE  q = d
  <2>1. PICK s \in Int : s = a - base
    BY <1>2, <1>5
  <2>2. s \in 0 .. UnitsPerDay - 1
    BY <2>1, <1>1, <1>6, <1>8
  <2>3. a = UnitsPerDay * d + s
    BY <2>1, <1>2, <1>5
  <2>4. a \div UnitsPerDay = d
    BY <1>1, <1>2, <2>2, <2>3, DivIs
  <2> QED BY <2>4, <1>3
<1> QED BY <1>4, <1>7, <1>8

\* The reports of one window agree.
LEMMA PeriodsHold == ASSUME NEW w PROVE PeriodsAgree(w)
<1> DEFINE history == ReportRows("booking_history", w)
           earning == {v \in Visits : visit[v].status \in Earning /\ v \in {x.key : x \in history}}
<1>1. \A v : v \in {x.key : x \in history} <=> v \in Visits /\ In(StartOf[v], w)
  <2>1. \A v : RowKey("booking_history", v) = v
    BY DEF RowKey, Revenue
  <2>2. \A v : Concerns("booking_history", v, w) <=> In(StartOf[v], w)
    BY DEF Concerns, Revenue
  <2>3. Always("booking_history") = {}
    BY DEF Always
  <2>4. Concerned("booking_history", w) = {v \in Visits : In(StartOf[v], w)}
    BY <2>2 DEF Concerned
  <2>5. \A x \in history : x.key \in {RowKey("booking_history", v) : v \in Concerned("booking_history", w)} \cup Always("booking_history")
    BY RowsAre
  <2>6. \A v \in Concerned("booking_history", w) : \E x \in history : x.key = RowKey("booking_history", v)
    BY RowsAre
  <2> HIDE DEF history
  <2> QED BY <2>1, <2>3, <2>4, <2>5, <2>6
<1>2. earning = {v \in Visits : visit[v].status \in Earning /\ In(StartOf[v], w)}
  <2> HIDE DEF history
  <2> QED BY <1>1
<1>3. \A t \in Revenue \cup {"court_utilization"} : Concerned(t, w) = earning
  <2> SUFFICES ASSUME NEW t \in Revenue \cup {"court_utilization"} PROVE Concerned(t, w) = earning
    OBVIOUS
  <2>1. \A v : Concerns(t, v, w) <=> visit[v].status \in Earning /\ In(StartOf[v], w)
    BY DEF Concerns, Revenue
  <2> HIDE DEF earning
  <2> QED BY <2>1, <1>2 DEF Concerned
<1>4. \A t \in Revenue \cup {"court_utilization"} : Tallied(t, w) = Cardinality(earning)
  <2> HIDE DEF earning
  <2> QED BY <1>3, TalliedIs
<1>a. \A t \in Revenue : Summed(t, w) = Total(earning, PriceOf)
  <2> HIDE DEF earning
  <2> QED BY <1>3, SummedIs
<1>5. Tallied("customer_activity", w) = Tallied("booking_history", w)
  <2>1. Concerned("customer_activity", w) = Concerned("booking_history", w)
    BY DEF Concerned, Concerns, Revenue
  <2> QED BY <2>1, TalliedIs
<1> DEFINE day(d) == {v \in earning : LET since == StartOf[v] + Ahead - d * UnitsPerDay
                                      IN  SixAM <= since /\ since < SixAM + UnitsPerDay}
<1>6. ASSUME NEW x \in ReportRows("daily_revenue", w)
      PROVE  x.bookings = Cardinality(day(x.key)) /\ x.revenue = Total(day(x.key), PriceOf)
  <2>1. Concerned("daily_revenue", w) = earning
    <3>1. "daily_revenue" \in Revenue
      BY DEF Revenue
    <3> HIDE DEF earning
    <3> QED BY <3>1, <1>3
  <2>2. \A v : RowKey("daily_revenue", v) = OperationalDay(StartOf[v])
    BY DEF RowKey
  <2>3. Always("daily_revenue") = {}
    BY DEF Always
  <2>4. /\ x.bookings = Cardinality({v \in earning : OperationalDay(StartOf[v]) = x.key})
        /\ x.revenue = Total({v \in earning : OperationalDay(StartOf[v]) = x.key}, PriceOf)
        /\ \E v \in earning : x.key = OperationalDay(StartOf[v])
    <3> HIDE DEF earning
    <3>1. /\ x.bookings = Cardinality({v \in Concerned("daily_revenue", w) : RowKey("daily_revenue", v) = x.key})
          /\ x.revenue = Total({v \in Concerned("daily_revenue", w) : RowKey("daily_revenue", v) = x.key}, PriceOf)
      <4>1. "daily_revenue" \in Revenue
        BY DEF Revenue
      <4> QED BY <4>1, RowsAre
    <3>2. x.key \in {RowKey("daily_revenue", v) : v \in Concerned("daily_revenue", w)} \cup Always("daily_revenue")
      BY RowsAre
    <3>3. {v \in Concerned("daily_revenue", w) : RowKey("daily_revenue", v) = x.key} = {v \in earning : OperationalDay(StartOf[v]) = x.key}
      BY <2>1, <2>2
    <3> QED BY <2>1, <2>2, <2>3, <3>1, <3>2, <3>3
  <2>5. \A v \in earning : StartOf[v] \in Int
    <3>1. \A v \in Visits : StartOf[v] \in SixAM .. LastNow /\ SixAM \in Int /\ LastNow \in Int
      BY ReportsAssumption
    <3> QED BY <3>1
  <2> HIDE DEF earning
  <2>6. PICK d \in Int : d = x.key
    BY <2>4, <2>5, OperationalIs
  <2>7. \A v \in earning : OperationalDay(StartOf[v]) = d <=>
            SixAM <= StartOf[v] + Ahead - d * UnitsPerDay /\ StartOf[v] + Ahead - d * UnitsPerDay < SixAM + UnitsPerDay
    BY <2>5, OperationalIs
  <2>8. {v \in earning : OperationalDay(StartOf[v]) = d}
            = {v \in earning : SixAM <= StartOf[v] + Ahead - d * UnitsPerDay /\ StartOf[v] + Ahead - d * UnitsPerDay < SixAM + UnitsPerDay}
    BY <2>7
  <2> QED BY <2>4, <2>6, <2>8
<1> QED BY <1>4, <1>a, <1>5, <1>6 DEF PeriodsAgree

\* A job has its request from the click on; a deleted booking is a cancelled one,
\* and what is collected is on file.
ReportsTyped ==
    /\ ReportsTypeOK /\ \A j \in Jobs : stage[j] # "idle" => asked[j] \in Request
    /\ \A v \in Visits : /\ visit[v].row = "deleted" => visit[v].status = "cancelled"
                         /\ visit[v].taken <= visit[v].filed

\* No report is asked for at first.
LEMMA ReportsTypedStart == ReportsInit => ReportsTyped
<1> SUFFICES ASSUME ReportsInit PROVE ReportsTyped
  OBVIOUS
<1>1. FirstNow \in FirstNow .. LastNow /\ "pending" \in DOMAIN Ways
  BY ReportsAssumption DEF Ways
<1>2. ReportsTypeOK /\ \A j \in Jobs : stage[j] # "idle" => asked[j] \in Request
  BY <1>1 DEF ReportsInit, ReportsTypeOK
<1>3. \A v \in Visits : visit[v].row = "live" /\ visit[v].taken = 0 /\ visit[v].filed = 0
  BY DEF ReportsInit
<1> QED BY <1>2, <1>3 DEF ReportsTyped

\* A booking moves from a status to a status.
LEMMA WaysTyped == "cancelled" \in DOMAIN Ways /\ Ways["cancelled"] = {} /\ \A s \in DOMAIN Ways : Ways[s] \subseteq DOMAIN Ways
BY DEF Ways

\* The row of a booking.
VisitRow == [status : DOMAIN Ways, since : 0 .. LastNow \cup {Unset}, row : {"live", "deleted"}, filed : Nat, taken : Nat]

\* A booking's new row is a row, a deleted one is cancelled, and nothing is
\* collected that is not on file.
LEMMA VisitStep ==
    ASSUME ReportsTyped, NEW v \in Visits, VisitMoves(v) \/ VisitSettled(v) \/ VisitDeleted(v)
    PROVE  \E r \in VisitRow : VisitBecomes(v, r) /\ (r.row = "deleted" => r.status = "cancelled") /\ r.taken <= r.filed
<1> DEFINE Fits(r) == r \in VisitRow /\ (r.row = "deleted" => r.status = "cancelled") /\ r.taken <= r.filed
<1>0. PICK o : o = visit[v]
  OBVIOUS
<1>1. Fits(o) /\ now \in 0 .. LastNow
  BY <1>0, ReportsAssumption DEF ReportsTyped, ReportsTypeOK, VisitRow
<1>2. CASE VisitMoves(v)
  <2>1. PICK s \in Ways[o.status] :
            VisitBecomes(v, [o EXCEPT !.status = s, !.since = IF s \in {"cancelled", "no_show"} THEN now ELSE Unset])
    BY <1>0, <1>2 DEF VisitMoves
  <2>2. s \in DOMAIN Ways /\ o.row # "deleted"
    BY <1>1, WaysTyped DEF VisitRow
  <2>3. PICK t \in 0 .. LastNow \cup {Unset} : t = IF s \in {"cancelled", "no_show"} THEN now ELSE Unset
    BY <1>1
  <2>4. Fits([o EXCEPT !.status = s, !.since = t])
    BY <1>1, <2>2 DEF VisitRow
  <2> QED BY <2>1, <2>3, <2>4
<1>3. CASE VisitSettled(v)
  <2>1. PICK a \in Receipts[v] : VisitBecomes(v, [o EXCEPT !.filed = a[1], !.taken = a[2]])
    BY <1>0, <1>3 DEF VisitSettled
  <2>2. a[1] \in Nat /\ a[2] \in Nat /\ a[2] <= a[1]
    BY ReportsAssumption
  <2>3. Fits([o EXCEPT !.filed = a[1], !.taken = a[2]])
    BY <1>1, <2>2 DEF VisitRow
  <2> QED BY <2>1, <2>3
<1>4. CASE VisitDeleted(v)
  <2>1. PICK t : t = IF o.status = "cancelled" THEN o.since ELSE Unset
    OBVIOUS
  <2>2. VisitBecomes(v, [o EXCEPT !.status = "cancelled", !.row = "deleted", !.since = t])
    BY <1>0, <1>4, <2>1 DEF VisitDeleted
  <2>3. t \in 0 .. LastNow \cup {Unset}
    BY <1>1, <2>1 DEF VisitRow
  <2>4. Fits([o EXCEPT !.status = "cancelled", !.row = "deleted", !.since = t])
    BY <1>1, <2>3, WaysTyped DEF VisitRow
  <2> QED BY <2>2, <2>4
<1> QED BY <1>2, <1>3, <1>4

\* A file is named only once its request is there.
LEMMA ReportsTypedStep == ReportsTyped /\ [ReportsNext]_reportVars => ReportsTyped'
<1> SUFFICES ASSUME ReportsTyped, [ReportsNext]_reportVars PROVE ReportsTyped'
  OBVIOUS
<1> DEFINE Sound == \A v \in Visits : /\ visit[v].row = "deleted" => visit[v].status = "cancelled"
                                     /\ visit[v].taken <= visit[v].filed
<1>0. ReportsTypeOK /\ Sound /\ \A j \in Jobs : stage[j] # "idle" => asked[j] \in Request
  BY DEF ReportsTyped
<1>a. visit' = visit => Sound'
  BY <1>0
<1> HIDE DEF Sound
<1>b. ASSUME ReportsTypeOK', Sound', \A j \in Jobs : stage'[j] # "idle" => asked'[j] \in Request PROVE ReportsTyped'
  BY <1>b DEF ReportsTyped, Sound
<1>1. CASE UNCHANGED reportVars
  BY <1>0, <1>a, <1>b, <1>1 DEF reportVars, ReportsTypeOK
<1>2. CASE TimePasses
  <2>1. now' \in FirstNow .. LastNow
    BY <1>0, <1>2, ReportsAssumption DEF TimePasses, ReportsTypeOK
  <2>2. moved' \subseteq Jobs
    BY <1>0, <1>2 DEF TimePasses, Built, ReportsTypeOK
  <2> QED BY <1>0, <1>a, <1>b, <1>2, <2>1, <2>2 DEF TimePasses, ReportsTypeOK
<1>3. ASSUME NEW v \in Visits, VisitMoves(v) \/ VisitSettled(v) \/ VisitDeleted(v) PROVE ReportsTyped'
  <2>1. PICK r \in VisitRow : VisitBecomes(v, r) /\ (r.row = "deleted" => r.status = "cancelled") /\ r.taken <= r.filed
    BY <1>3, VisitStep
  <2>2. visit \in [Visits -> VisitRow]
    BY <1>0 DEF ReportsTypeOK, VisitRow
  <2>3. /\ visit' \in [Visits -> VisitRow] /\ visit'[v] = r
        /\ \A x \in Visits : x # v => visit'[x] = visit[x]
    BY <2>1, <2>2 DEF VisitBecomes
  <2>4. Sound'
    BY <1>0, <2>1, <2>3 DEF Sound
  <2>5. moved' \subseteq Jobs /\ UNCHANGED <<now, choice, asked, job, stage, paper, file>>
    BY <1>0, <2>1 DEF VisitBecomes, Built, ReportsTypeOK
  <2>6. ReportsTypeOK'
    BY <1>0, <2>3, <2>5 DEF ReportsTypeOK, VisitRow
  <2> QED BY <1>0, <1>b, <2>4, <2>5, <2>6
<1>4. ASSUME NEW t \in Types, Select(t) PROVE ReportsTyped'
  BY <1>0, <1>a, <1>b, <1>4 DEF Select, ReportsTypeOK
<1>5. ASSUME NEW j \in Jobs, NEW r \in Request, GenerateReport(j, r) PROVE ReportsTyped'
  <2>1. asked' \in [Jobs -> Request \cup {Unset}] /\ asked'[j] = r
        /\ \A k \in Jobs : k # j => asked'[k] = asked[k] /\ stage'[k] = stage[k]
    BY <1>0, <1>5 DEF GenerateReport, ReportsTypeOK
  <2> QED BY <1>0, <1>a, <1>b, <1>5, <2>1 DEF GenerateReport, ReportsTypeOK
<1>6. ASSUME NEW j \in Jobs, BuildReport(j) \/ JobCompleted(j) \/ GenerationFails(j) PROVE ReportsTyped'
  <2>1. /\ UNCHANGED <<now, visit, choice, asked, file>> /\ moved' \subseteq Jobs
        /\ job' \in [Jobs -> {"none", "queued", "completed"}] /\ stage[j] # "idle"
        /\ \E s \in {"built", "answering", "failed"} : stage' = [stage EXCEPT ![j] = s]
    BY <1>0, <1>6 DEF BuildReport, JobCompleted, GenerationFails, ReportsTypeOK
  <2> QED BY <1>0, <1>a, <1>b, <2>1 DEF ReportsTypeOK
<1>7. ASSUME NEW j \in Jobs, FileSaved(j) PROVE ReportsTyped'
  <2>1. asked[j] \in Request
    BY <1>0, <1>7 DEF FileSaved
  <2>2. asked[j].type \in Types
    BY <2>1 DEF Request
  <2>3. /\ UNCHANGED <<now, visit, choice, asked, job, moved>> /\ stage[j] # "idle"
        /\ stage' = [stage EXCEPT ![j] = "over"] /\ file' = [file EXCEPT ![j] = asked[j].type]
    BY <1>7 DEF FileSaved, NamedFor
  <2> QED BY <1>0, <1>a, <1>b, <2>2, <2>3 DEF ReportsTypeOK
<1> QED BY <1>1, <1>2, <1>3, <1>4, <1>5, <1>6, <1>7 DEF ReportsNext


\* What a job's row, its request's progress, its file and its document have to
\* do with one another.
Progress(j) ==
    /\ stage[j] = "idle" => job[j] = "none"
    /\ stage[j] \in {"building", "built"} => job[j] = "queued"
    /\ stage[j] \in {"answering", "over"} => job[j] = "completed"
Named(j) == file[j] # Unset => stage[j] = "over" /\ file[j] = asked[j].type
Kept(j)  == (stage[j] = "built" \/ job[j] = "completed") /\ j \notin moved => paper[j] \in Documents(asked[j])
ReportsInv ==
    /\ ReportsTyped /\ DOMAIN paper = Jobs /\ paper = [j \in Jobs |-> paper[j]]
    /\ \A j \in Jobs : Progress(j) /\ Named(j) /\ Kept(j)

\* A document depends on the bookings and on the window.
LEMMA DocumentsStay ==
    ASSUME visit' = visit, NEW r, Window(r)' = Window(r)
    PROVE  Documents(r)' = Documents(r)
<1>1. ASSUME NEW type, NEW w PROVE ReportRows(type, w)' = ReportRows(type, w)
  BY DEF ReportRows, Concerns, RowKey, Always, Place
<1>2. PICK w : w = Window(r)
  OBVIOUS
<1>3. ReportRows(r.type, w)' = ReportRows(r.type, w)
  BY <1>1
<1> QED BY <1>2, <1>3 DEF Documents

\* A job that nothing touches keeps what it has while its window and the
\* bookings stay, or is counted as moved.
LEMMA JobStays ==
    ASSUME NEW j \in Jobs, Progress(j), Named(j), Kept(j),
           asked'[j] = asked[j], job'[j] = job[j], stage'[j] = stage[j], paper'[j] = paper[j], file'[j] = file[j],
           \/ j \in moved'
           \/ j \notin Built
           \/ (j \in moved => j \in moved') /\ visit' = visit /\ Window(asked[j])' = Window(asked[j])
    PROVE  Progress(j)' /\ Named(j)' /\ Kept(j)'
<1>1. Progress(j)' /\ Named(j)'
  BY DEF Progress, Named
<1>2. ASSUME (j \in moved => j \in moved'), visit' = visit, Window(asked[j])' = Window(asked[j]) PROVE Kept(j)'
  <2>1. PICK r : r = asked[j]
    OBVIOUS
  <2>2. Window(r)' = Window(r)
    <3>1. Window(r)' = Window(asked[j])'
      BY <2>1 DEF Window
    <3> QED BY <3>1, <2>1, <1>2
  <2>3. Documents(r)' = Documents(r)
    BY <1>2, <2>2, DocumentsStay
  <2>4. Documents(asked[j])' = Documents(r)'
    BY <2>1 DEF Documents, Window
  <2> QED BY <2>1, <2>3, <2>4, <1>2 DEF Kept
<1>3. ASSUME j \notin Built PROVE Kept(j)'
  <2>1. stage[j] \in {"idle", "building"}
    BY <1>3 DEF Built
  <2>2. job[j] \in {"none", "queued"} /\ stage[j] # "built"
    BY <2>1 DEF Progress
  <2> QED BY <2>2 DEF Kept
<1>4. ASSUME j \in moved' PROVE Kept(j)'
  BY <1>4 DEF Kept
<1> QED BY <1>1, <1>2, <1>3, <1>4

\* At first there is no job.
LEMMA ReportsInvStart == ReportsInit => ReportsInv
<1> SUFFICES ASSUME ReportsInit PROVE ReportsInv
  OBVIOUS
<1>1. \A j \in Jobs : stage[j] = "idle" /\ job[j] = "none" /\ file[j] = Unset
  BY DEF ReportsInit
<1>2. \A j \in Jobs : Progress(j) /\ Named(j) /\ Kept(j)
  BY <1>1 DEF Progress, Named, Kept
<1>3. DOMAIN paper = Jobs /\ paper = [j \in Jobs |-> paper[j]]
  BY DEF ReportsInit
<1> QED BY <1>2, <1>3, ReportsTypedStart DEF ReportsInv

\* A job is built from the bookings of that moment, marked and named; what
\* moves a window or a booking outdates the documents that are built.
LEMMA ReportsInvStep == ReportsInv /\ [ReportsNext]_reportVars => ReportsInv'
<1> SUFFICES ASSUME ReportsInv, [ReportsNext]_reportVars PROVE ReportsInv'
  OBVIOUS
<1>0. ReportsTyped' /\ ReportsTyped /\ ReportsTypeOK
  BY ReportsTypedStep DEF ReportsInv, ReportsTyped
<1>a. \A j \in Jobs : Progress(j) /\ Named(j) /\ Kept(j)
  BY DEF ReportsInv
<1>b. DOMAIN paper = Jobs /\ paper = [j \in Jobs |-> paper[j]]
  BY DEF ReportsInv
<1>1. CASE UNCHANGED reportVars
  <2>1. \A j \in Jobs : Window(asked[j])' = Window(asked[j])
    BY <1>1 DEF reportVars, Window
  <2>2. \A j \in Jobs : Progress(j)' /\ Named(j)' /\ Kept(j)'
    BY <1>1, <1>a, <2>1, JobStays DEF reportVars
  <2> QED BY <1>0, <1>1, <1>b, <2>2 DEF reportVars, ReportsInv
<1>2. CASE TimePasses
  <2>1. visit' = visit /\ UNCHANGED <<asked, job, stage, paper, file>>
        /\ moved' = moved \cup {j \in Built : Unset \in {asked[j].from, asked[j].to}}
    BY <1>2 DEF TimePasses
  <2>2. ASSUME NEW j \in Jobs
        PROVE  \/ j \in moved'
               \/ j \notin Built
               \/ (j \in moved => j \in moved') /\ visit' = visit /\ Window(asked[j])' = Window(asked[j])
    <3>1. CASE asked[j].from # Unset /\ asked[j].to # Unset
      BY <2>1, <3>1 DEF Window
    <3> QED BY <2>1, <3>1
  <2>3. \A j \in Jobs : Progress(j)' /\ Named(j)' /\ Kept(j)'
    BY <1>a, <2>1, <2>2, JobStays
  <2> QED BY <1>0, <1>b, <2>1, <2>3 DEF ReportsInv
<1>3. ASSUME NEW v \in Visits, VisitMoves(v) \/ VisitSettled(v) \/ VisitDeleted(v) PROVE ReportsInv'
  <2>1. UNCHANGED <<asked, job, stage, paper, file>> /\ moved' = moved \cup Built
    BY <1>3 DEF VisitMoves, VisitSettled, VisitDeleted, VisitBecomes
  <2>2. \A j \in Jobs : j \in moved' \/ j \notin Built
    BY <2>1
  <2>3. \A j \in Jobs : Progress(j)' /\ Named(j)' /\ Kept(j)'
    BY <1>a, <2>1, <2>2, JobStays
  <2> QED BY <1>0, <1>b, <2>1, <2>3 DEF ReportsInv
<1>4. ASSUME NEW t \in Types, Select(t) PROVE ReportsInv'
  <2>1. UNCHANGED <<now, visit, asked, job, stage, paper, file, moved>>
    BY <1>4 DEF Select
  <2>2. \A j \in Jobs : Window(asked[j])' = Window(asked[j])
    BY <2>1 DEF Window
  <2>3. \A j \in Jobs : Progress(j)' /\ Named(j)' /\ Kept(j)'
    BY <1>a, <2>1, <2>2, JobStays
  <2> QED BY <1>0, <1>b, <2>1, <2>3 DEF ReportsInv
<1>5. ASSUME NEW j \in Jobs, UNCHANGED <<now, visit>>,
             \A k \in Jobs \ {j} : /\ asked'[k] = asked[k] /\ job'[k] = job[k] /\ stage'[k] = stage[k]
                                   /\ paper'[k] = paper[k] /\ file'[k] = file[k] /\ (k \in moved => k \in moved')
      PROVE  \A k \in Jobs \ {j} : Progress(k)' /\ Named(k)' /\ Kept(k)'
  <2>1. \A k \in Jobs \ {j} : Window(asked[k])' = Window(asked[k])
    BY <1>5 DEF Window
  <2> QED BY <1>5, <1>a, <2>1, JobStays
<1>6. ASSUME NEW j \in Jobs, NEW r \in Request, GenerateReport(j, r) PROVE ReportsInv'
  <2>1. /\ UNCHANGED <<now, visit, paper, file, moved>> /\ stage[j] = "idle"
        /\ asked' = [asked EXCEPT ![j] = r] /\ job' = [job EXCEPT ![j] = "queued"] /\ stage' = [stage EXCEPT ![j] = "building"]
    BY <1>6 DEF GenerateReport
  <2>2. /\ stage'[j] = "building" /\ job'[j] = "queued" /\ file'[j] = file[j]
        /\ \A k \in Jobs \ {j} : asked'[k] = asked[k] /\ job'[k] = job[k] /\ stage'[k] = stage[k]
    BY <1>0, <2>1 DEF ReportsTypeOK
  <2>3. file[j] = Unset
    BY <1>a, <2>1 DEF Named
  <2>4. Progress(j)' /\ Named(j)' /\ Kept(j)'
    BY <2>2, <2>3 DEF Progress, Named, Kept
  <2>5. \A k \in Jobs \ {j} : Progress(k)' /\ Named(k)' /\ Kept(k)'
    BY <1>5, <2>1, <2>2
  <2> QED BY <1>0, <1>b, <2>1, <2>4, <2>5 DEF ReportsInv
<1>7. ASSUME NEW j \in Jobs, BuildReport(j) PROVE ReportsInv'
  <2>1. PICK d \in Documents(asked[j]) : paper' = [paper EXCEPT ![j] = d]
    BY <1>7 DEF BuildReport
  <2>2. /\ UNCHANGED <<now, visit, asked, job, file>> /\ stage[j] = "building"
        /\ stage' = [stage EXCEPT ![j] = "built"] /\ moved' = moved \ {j}
    BY <1>7 DEF BuildReport
  <2>3. /\ stage'[j] = "built" /\ paper'[j] = d /\ job'[j] = job[j] /\ file'[j] = file[j] /\ asked'[j] = asked[j]
        /\ \A k \in Jobs \ {j} : stage'[k] = stage[k] /\ paper'[k] = paper[k] /\ (k \in moved => k \in moved')
        /\ DOMAIN paper' = Jobs /\ paper' = [k \in Jobs |-> paper'[k]]
    BY <1>0, <1>b, <2>1, <2>2 DEF ReportsTypeOK
  <2>4. Progress(j)' /\ Named(j)'
    BY <1>a, <2>2, <2>3 DEF Progress, Named
  <2>5. Kept(j)'
    <3>1. PICK r : r = asked[j]
      OBVIOUS
    <3>2. Window(r)' = Window(r)
      BY <2>2 DEF Window
    <3>3. Documents(r)' = Documents(r)
      BY <2>2, <3>2, DocumentsStay
    <3>4. Documents(asked[j])' = Documents(r)'
      BY <2>2, <3>1 DEF Documents, Window
    <3> QED BY <2>1, <2>3, <3>1, <3>3, <3>4 DEF Kept
  <2>6. \A k \in Jobs \ {j} : Progress(k)' /\ Named(k)' /\ Kept(k)'
    BY <1>5, <2>2, <2>3
  <2> QED BY <1>0, <2>3, <2>4, <2>5, <2>6 DEF ReportsInv
<1>8. ASSUME NEW j \in Jobs, JobCompleted(j) \/ FileSaved(j) \/ GenerationFails(j) PROVE ReportsInv'
  <2>1. /\ UNCHANGED <<now, visit, asked, paper, moved>>
        /\ \/ /\ stage[j] = "built" /\ job' = [job EXCEPT ![j] = "completed"]
              /\ stage' = [stage EXCEPT ![j] = "answering"] /\ file' = file
           \/ /\ stage[j] = "answering" /\ file' = [file EXCEPT ![j] = asked[j].type]
              /\ stage' = [stage EXCEPT ![j] = "over"] /\ job' = job
           \/ /\ stage[j] \in {"building", "built", "answering"} /\ stage' = [stage EXCEPT ![j] = "failed"]
              /\ job' = job /\ file' = file
    BY <1>8 DEF JobCompleted, FileSaved, GenerationFails, NamedFor
  <2>2. \A k \in Jobs \ {j} : stage'[k] = stage[k] /\ job'[k] = job[k] /\ file'[k] = file[k]
    BY <1>0, <2>1 DEF ReportsTypeOK
  <2>3. \/ stage[j] = "built" /\ job'[j] = "completed" /\ stage'[j] = "answering" /\ file'[j] = file[j]
        \/ stage[j] = "answering" /\ file'[j] = asked[j].type /\ stage'[j] = "over" /\ job'[j] = job[j]
        \/ stage[j] \in {"building", "built", "answering"} /\ stage'[j] = "failed" /\ job'[j] = job[j] /\ file'[j] = file[j]
    BY <1>0, <2>1 DEF ReportsTypeOK
  <2>4. Progress(j)' /\ Named(j)'
    BY <1>a, <2>1, <2>3 DEF Progress, Named
  <2>5. Kept(j)'
    <3>1. PICK r : r = asked[j]
      OBVIOUS
    <3>2. Window(r)' = Window(r)
      BY <2>1 DEF Window
    <3>3. Documents(r)' = Documents(r)
      BY <2>1, <3>2, DocumentsStay
    <3>4. Documents(asked[j])' = Documents(r)'
      BY <2>1, <3>1 DEF Documents, Window
    <3>5. stage'[j] = "built" \/ job'[j] = "completed" => stage[j] = "built" \/ job[j] = "completed"
      BY <1>a, <2>3 DEF Progress
    <3>6. Kept(j) /\ paper'[j] = paper[j] /\ moved' = moved
      BY <1>a, <2>1
    <3> QED BY <3>1, <3>3, <3>4, <3>5, <3>6 DEF Kept
  <2>6. \A k \in Jobs \ {j} : Progress(k)' /\ Named(k)' /\ Kept(k)'
    BY <1>5, <2>1, <2>2
  <2> QED BY <1>0, <1>b, <2>1, <2>4, <2>5, <2>6 DEF ReportsInv
<1> QED BY <1>1, <1>2, <1>3, <1>4, <1>6, <1>7, <1>8 DEF ReportsNext

\* The jobs' papers are true.
LEMMA PapersTell == ReportsInv => PapersAreTrue
<1> SUFFICES ASSUME ReportsInv PROVE PapersAreTrue
  OBVIOUS
<1>1. ASSUME NEW j \in Jobs
      PROVE  /\ file[j] # Unset => file[j] = asked[j].type /\ job[j] = "completed"
             /\ job[j] = "queued" /\ stage[j] \notin {"building", "built"} => stage[j] = "failed"
             /\ job[j] = "completed" /\ j \notin moved => paper[j] \in Downloads(j)
  <2>1. Progress(j) /\ Named(j) /\ Kept(j)
    BY DEF ReportsInv
  <2>2. stage[j] \in {"idle", "building", "built", "answering", "over", "failed"}
    BY DEF ReportsInv, ReportsTyped, ReportsTypeOK
  <2> QED BY <2>1, <2>2 DEF Progress, Named, Kept, Downloads
<1> QED BY <1>1 DEF PapersAreTrue

-----------------------------------------------------------------------------
(* The analytics screen *)

\* The numbers the charts are drawn from.
LEMMA UnitsAre ==
    /\ UnitsPerDay \in Nat \ {0} /\ SixAM \in 0 .. UnitsPerDay - 1 /\ Ahead \in 0 .. SixAM
    /\ SixAM \in Int /\ Ahead \in Int /\ 0 <= Ahead /\ Ahead <= SixAM /\ SixAM < UnitsPerDay
    /\ DaysPerWeek \in Nat \ {0} /\ DaysPerMonth \in Nat \ {0} /\ CourtCount \in Nat /\ MemberCount \in Nat
    /\ IsFiniteSet(Visits) /\ LastNow \in Nat
    /\ \A v \in Visits : StartOf[v] \in Int /\ 0 <= StartOf[v] /\ StartOf[v] <= LastNow /\ NumberOf[v] \in 1 .. CourtCount /\ MemberOf[v] \in 1 .. MemberCount
<1>1. /\ UnitsPerDay \in Nat \ {0} /\ SixAM \in 0 .. UnitsPerDay - 1 /\ Ahead \in 0 .. SixAM
      /\ DaysPerWeek \in Nat \ {0} /\ DaysPerMonth \in Nat \ {0} /\ CourtCount \in Nat /\ MemberCount \in Nat
      /\ IsFiniteSet(Visits) /\ LastNow \in Nat
  BY ReportsAssumption
<1>2. \A v \in Visits : StartOf[v] \in SixAM .. LastNow /\ NumberOf[v] \in 1 .. CourtCount /\ MemberOf[v] \in 1 .. MemberCount
  BY ReportsAssumption
<1> QED BY <1>1, <1>2

\* A business day begins at six of the club's clock.
LEMMA DayBegins ==
    ASSUME NEW t \in Int, NEW d \in Int
    PROVE  /\ OperationalDay(t) \in Int
           /\ d <= OperationalDay(t) => d * UnitsPerDay + SixAM <= t + Ahead
           /\ t + Ahead < (OperationalDay(t) + 1) * UnitsPerDay + SixAM
<1>1. UnitsPerDay \in Nat \ {0} /\ SixAM \in Int /\ Ahead \in Int
  BY UnitsAre
<1>2. PICK q \in Int : q = OperationalDay(t)
  BY OperationalIs
<1>3. SixAM <= t + Ahead - q * UnitsPerDay /\ t + Ahead - q * UnitsPerDay < SixAM + UnitsPerDay
  BY <1>2, OperationalIs
<1>4. q * UnitsPerDay \in Int /\ d * UnitsPerDay \in Int /\ (q + 1) * UnitsPerDay = q * UnitsPerDay + UnitsPerDay
  BY <1>1
<1>5. d <= q => d * UnitsPerDay <= q * UnitsPerDay
  BY <1>1, Grows
<1> QED BY <1>1, <1>2, <1>3, <1>4, <1>5

\* A day before is a day earlier.
LEMMA DayBefore ==
    ASSUME NEW t \in Int, NEW i \in Int PROVE OperationalDay(t - i * UnitsPerDay) = OperationalDay(t) - i
<1>1. UnitsPerDay \in Nat \ {0} /\ SixAM \in Int /\ Ahead \in Int
  BY UnitsAre
<1>2. PICK q \in Int : q = OperationalDay(t)
  BY OperationalIs
<1>3. SixAM <= t + Ahead - q * UnitsPerDay /\ t + Ahead - q * UnitsPerDay < SixAM + UnitsPerDay
  BY <1>2, OperationalIs
<1>4. PICK u \in Int : u = t - i * UnitsPerDay
  BY <1>1
<1>5. (q - i) * UnitsPerDay = q * UnitsPerDay - i * UnitsPerDay /\ q - i \in Int /\ q * UnitsPerDay \in Int /\ i * UnitsPerDay \in Int
  BY <1>1
<1>6. u + Ahead - (q - i) * UnitsPerDay = t + Ahead - q * UnitsPerDay
  BY <1>1, <1>4, <1>5
<1>7. OperationalDay(u) = q - i
  BY <1>3, <1>5, <1>6, OperationalIs
<1> QED BY <1>2, <1>4, <1>7

\* A month is its days.
LEMMA MonthIs ==
    ASSUME NEW d \in Int
    PROVE  MonthOf(d) \in Int /\ MonthOf(d) * DaysPerMonth <= d /\ d < (MonthOf(d) + 1) * DaysPerMonth
<1>1. DaysPerMonth \in Nat \ {0}
  BY UnitsAre
<1>2. PICK q \in Int, r \in 0 .. DaysPerMonth - 1 : q = d \div DaysPerMonth /\ d = DaysPerMonth * q + r
  BY <1>1, Divides
<1>3. (q + 1) * DaysPerMonth = q * DaysPerMonth + DaysPerMonth /\ DaysPerMonth * q = q * DaysPerMonth /\ q * DaysPerMonth \in Int
  BY <1>1
<1> QED BY <1>1, <1>2, <1>3 DEF MonthOf

\* The trend's months are whole numbers, and a day of one of them begins in it.
LEMMA TrendIs ==
    ASSUME now \in Int
    PROVE  /\ FirstMonth \in Int /\ LastMonth \in Int
           /\ FirstMonth * DaysPerMonth \in Int /\ FirstMonth * DaysPerMonth * UnitsPerDay \in Int
           /\ \A d \in Int : MonthOf(d) >= FirstMonth => FirstMonth * DaysPerMonth <= d
<1>1. DaysPerMonth \in Nat \ {0} /\ UnitsPerDay \in Nat \ {0} /\ TrendMonths \in Nat
  BY UnitsAre, OverviewAssumption
<1>2. now \div UnitsPerDay \in Int
  BY <1>1, Divides
<1>3. LastMonth \in Int
  BY <1>2, MonthIs DEF LastMonth
<1>4. PICK first \in Int : first = FirstMonth
  BY <1>1, <1>3 DEF FirstMonth
<1>5. PICK days \in Int : days = first * DaysPerMonth
  BY <1>1
<1>6. ASSUME NEW d \in Int, MonthOf(d) >= first PROVE first * DaysPerMonth <= d
  <2>1. PICK m \in Int : m = MonthOf(d) /\ m * DaysPerMonth <= d
    BY MonthIs
  <2>2. first * DaysPerMonth <= m * DaysPerMonth
    BY <1>1, <1>6, <2>1, Grows
  <2>3. m * DaysPerMonth \in Int
    BY <1>1
  <2> QED BY <1>5, <2>1, <2>2, <2>3
<1>7. days * UnitsPerDay \in Int
  BY <1>1
<1> QED BY <1>3, <1>4, <1>5, <1>6, <1>7

\* A booking of a month of the trend is in the trend.
LEMMA MonthBars ==
    ASSUME now \in Int, NEW m \in DOMAIN PerMonth
    PROVE  PerMonth[m] = Figures({v \in LiveRows : MonthOf(OperationalDay(StartOf[v])) = m})
<1>1. m \in FirstMonth .. LastMonth /\ FirstMonth \in Int /\ LastMonth \in Int
  BY TrendIs DEF PerMonth
<1>2. ASSUME NEW v \in LiveRows, MonthOf(OperationalDay(StartOf[v])) = m PROVE InTrend(StartOf[v])
  <2>0. v \in Visits
    BY DEF LiveRows
  <2>1. StartOf[v] \in Int /\ Ahead \in Int /\ SixAM \in Int /\ Ahead <= SixAM /\ UnitsPerDay \in Nat
    BY <2>0, UnitsAre
  <2>2. PICK d \in Int : d = OperationalDay(StartOf[v])
    BY <2>1, OperationalIs
  <2>3. PICK first \in Int : first = FirstMonth * DaysPerMonth /\ first <= d
    BY <1>1, <1>2, <2>2, TrendIs
  <2>4. first * UnitsPerDay + SixAM <= StartOf[v] + Ahead
    BY <2>1, <2>2, <2>3, DayBegins
  <2>5. first * UnitsPerDay \in Int
    BY <2>1
  <2>6. first * UnitsPerDay <= StartOf[v]
    BY <2>1, <2>4, <2>5
  <2> QED BY <2>1, <2>3, <2>5, <2>6 DEF InTrend
<1>3. {v \in LiveRows : InTrend(StartOf[v]) /\ MonthOf(OperationalDay(StartOf[v])) = m}
          = {v \in LiveRows : MonthOf(OperationalDay(StartOf[v])) = m}
  BY <1>2
<1>4. PerMonth[m] = Figures({v \in LiveRows : InTrend(StartOf[v]) /\ MonthOf(OperationalDay(StartOf[v])) = m})
  BY <1>1 DEF PerMonth
<1> QED BY <1>3, <1>4

\* The statuses a figure counts: a no-show's deposit is kept, and what was paid
\* was booked.
LEMMA StatusesAre ==
    /\ Earning \subseteq Verified /\ Verified \subseteq Booked /\ Verified = Earning \cup {"no_show"} /\ "no_show" \notin Earning
    /\ \A S : Figures(S).bookings = With(S, Booked) /\ Figures(S).revenue = Collected(S)
    /\ \A S, X : \A v : v \in With(S, X) <=> v \in S /\ visit[v].status \in X
<1>1. Earning \subseteq Verified /\ Verified \subseteq Booked /\ Verified = Earning \cup {"no_show"} /\ "no_show" \notin Earning
  BY DEF Verified, Booked, Earning, Ways
<1>2. \A S : Figures(S).bookings = With(S, Booked) /\ Figures(S).revenue = Collected(S)
  BY DEF Figures
<1>3. \A S, X : \A v : v \in With(S, X) <=> v \in S /\ visit[v].status \in X
  BY DEF With
<1> QED BY <1>1, <1>2, <1>3

\* What is collected on some bookings is a number, and no more than is on file.
LEMMA MoneyIs ==
    ASSUME ReportsTyped
    PROVE  /\ now \in Int /\ LiveRows \subseteq Visits /\ \A n : Recent(n) \subseteq LiveRows
           /\ \A S \in SUBSET Visits : IsFiniteSet(S) /\ Collected(S) \in Nat
           /\ Taken \in [Visits -> Nat] /\ Filed \in [Visits -> Nat] /\ PriceOf \in [Visits -> Nat]
           /\ \A v \in Visits : /\ Taken[v] = visit[v].taken /\ Filed[v] = visit[v].filed
                                /\ visit[v].taken \in Nat /\ visit[v].filed \in Nat /\ visit[v].taken <= visit[v].filed
                                /\ visit[v].status # "cancelled" => v \in LiveRows
<1>1. now \in FirstNow .. LastNow /\ FirstNow \in Int /\ LastNow \in Int
  BY ReportsAssumption DEF ReportsTyped, ReportsTypeOK
<1>2. LiveRows \subseteq Visits /\ \A n : Recent(n) \subseteq LiveRows
  BY DEF LiveRows, Recent
<1>3. visit \in [Visits -> VisitRow]
  BY DEF ReportsTyped, ReportsTypeOK, VisitRow
<1>4. \A v \in Visits : /\ visit[v].taken \in Nat /\ visit[v].filed \in Nat /\ visit[v].taken <= visit[v].filed
                        /\ visit[v].row \in {"live", "deleted"} /\ (visit[v].row = "deleted" => visit[v].status = "cancelled")
  BY <1>3 DEF ReportsTyped, VisitRow
<1>5. \A v \in Visits : visit[v].status # "cancelled" => v \in LiveRows
  BY <1>4 DEF LiveRows
<1>6. Taken \in [Visits -> Nat] /\ Filed \in [Visits -> Nat] /\ \A v \in Visits : Taken[v] = visit[v].taken /\ Filed[v] = visit[v].filed
  BY <1>4 DEF Taken, Filed
<1>7. ASSUME NEW S \in SUBSET Visits PROVE IsFiniteSet(S) /\ Collected(S) \in Nat
  <2>1. IsFiniteSet(Visits) /\ With(S, Verified) \in SUBSET Visits
    BY UnitsAre DEF With
  <2>2. Total(With(S, Verified), Taken) \in Nat
    BY <1>6, <2>1, TotalType
  <2> QED BY <2>1, <2>2, FS_Subset DEF Collected
<1> QED BY <1>1, <1>2, <1>4, <1>5, <1>6, <1>7, ReportsAssumption

\* What is collected is the sum over any labels of the bookings, and the rest.
LEMMA CollectedBy ==
    ASSUME ReportsTyped, NEW S \in SUBSET Visits, NEW C, IsFiniteSet(C), NEW of
    PROVE  Collected(S) = Total(C, [c \in C |-> Collected({v \in S : of[v] = c})]) + Collected({v \in S : of[v] \notin C})
<1> DEFINE W    == With(S, Verified)
           In1  == {v \in W : of[v] \in C}
           Out1 == {v \in W : of[v] \notin C}
<1>1. W \in SUBSET Visits /\ In1 \in SUBSET Visits /\ Out1 \in SUBSET Visits
  BY DEF With
<1>2. In1 \cup Out1 = W /\ In1 \cap Out1 = {}
  OBVIOUS
<1>3. \A c : With({v \in S : of[v] = c}, Verified) = {v \in W : of[v] = c}
  BY DEF With
<1>4. With({v \in S : of[v] \notin C}, Verified) = Out1
  BY DEF With
<1>5. \A c \in C : {v \in W : of[v] = c} = {v \in In1 : of[v] = c}
  OBVIOUS
<1>6. \A v \in In1 : of[v] \in C
  OBVIOUS
<1> HIDE DEF In1, Out1, W
<1>7. IsFiniteSet(In1) /\ IsFiniteSet(Out1) /\ \A v \in In1 \cup Out1 : Taken[v] \in Nat
  BY <1>1, MoneyIs
<1>8. Total(W, Taken) = Total(In1, Taken) + Total(Out1, Taken)
  BY <1>2, <1>7, TotalOfTwo
<1>9. Total(In1, Taken) = Total(C, [c \in C |-> Total({v \in In1 : of[v] = c}, Taken)])
  BY <1>6, <1>7, TotalBySlice
<1>10. \A c \in C : Collected({v \in S : of[v] = c}) = Total({v \in In1 : of[v] = c}, Taken)
  BY <1>3, <1>5 DEF Collected
<1>11. [c \in C |-> Collected({v \in S : of[v] = c})] = [c \in C |-> Total({v \in In1 : of[v] = c}, Taken)]
  BY <1>10
<1>12. Collected({v \in S : of[v] \notin C}) = Total(Out1, Taken)
  BY <1>4 DEF Collected
<1>13. Collected(S) = Total(W, Taken)
  BY DEF Collected, W
<1> QED BY <1>8, <1>9, <1>11, <1>12, <1>13

\* The days of the chart are the last ones, today's the last of them.
LEMMA DaysAre ==
    ASSUME now \in Int, NEW n \in Ranges
    PROVE  /\ OperationalDay(now) \in Int /\ n \in Nat \ {0}
           /\ DOMAIN PerDay(n) = OperationalDay(now) - n + 1 .. OperationalDay(now)
           /\ \A d \in DOMAIN PerDay(n) : PerDay(n)[d] = Figures({v \in Recent(n) : OperationalDay(StartOf[v]) = d})
<1>1. n \in Nat \ {0} /\ UnitsPerDay \in Nat \ {0}
  BY OverviewAssumption, UnitsAre
<1>2. PICK today \in Int : today = OperationalDay(now)
  BY OperationalIs
<1> DEFINE D == {OperationalDay(now - i * UnitsPerDay) : i \in 0 .. n - 1}
<1>3. \A i \in 0 .. n - 1 : OperationalDay(now - i * UnitsPerDay) = today - i
  BY <1>2, DayBefore
<1>4. ASSUME NEW d \in D PROVE d \in today - n + 1 .. today
  <2>1. PICK i \in 0 .. n - 1 : d = OperationalDay(now - i * UnitsPerDay)
    OBVIOUS
  <2>2. d = today - i
    BY <1>3, <2>1
  <2> QED BY <2>2, <1>1, <1>2
<1>5. ASSUME NEW d \in today - n + 1 .. today PROVE d \in D
  <2>1. today - d \in 0 .. n - 1 /\ today - (today - d) = d
    BY <1>1, <1>2
  <2> QED BY <2>1, <1>3
<1>6. DOMAIN PerDay(n) = D /\ \A d \in D : PerDay(n)[d] = Figures({v \in Recent(n) : OperationalDay(StartOf[v]) = d})
  BY DEF PerDay
<1> HIDE DEF D
<1>7. D = today - n + 1 .. today
  BY <1>4, <1>5
<1> QED BY <1>1, <1>2, <1>6, <1>7

\* A booking of one of the days of the chart is in the range.
LEMMA DayBars ==
    ASSUME now \in Int, NEW n \in Ranges, NEW v \in LiveRows, OperationalDay(StartOf[v]) \in DOMAIN PerDay(n)
    PROVE  v \in Recent(n)
<1>0. v \in Visits
  BY DEF LiveRows
<1>1. n \in Nat \ {0} /\ UnitsPerDay \in Nat \ {0} /\ StartOf[v] \in Int /\ Ahead \in Int /\ SixAM \in Int
  BY <1>0, OverviewAssumption, UnitsAre
<1>2. PICK today \in Int, d \in Int : today = OperationalDay(now) /\ d = OperationalDay(StartOf[v])
  BY <1>1, OperationalIs
<1>3. (today - n) + 1 <= d
  BY <1>1, <1>2, DaysAre
<1>4. PICK first \in Int : first = (today - n) + 1 /\ first <= d
  BY <1>1, <1>2, <1>3
<1>5. first * UnitsPerDay + SixAM <= StartOf[v] + Ahead
  BY <1>1, <1>2, <1>4, DayBegins
<1>6. now + Ahead < (today + 1) * UnitsPerDay + SixAM
  BY <1>2, DayBegins
<1>7. (today + 1) * UnitsPerDay = first * UnitsPerDay + n * UnitsPerDay /\ first * UnitsPerDay \in Int /\ n * UnitsPerDay \in Int
  <2>1. today + 1 = first + n
    BY <1>1, <1>4
  <2>2. (first + n) * UnitsPerDay = first * UnitsPerDay + n * UnitsPerDay
    BY <1>1, <1>4
  <2> QED BY <2>1, <2>2, <1>1, <1>4
<1>8. StartOf[v] >= now - n * UnitsPerDay
  BY <1>1, <1>5, <1>6, <1>7
<1> QED BY <1>8 DEF Recent

\* The bars of the days.
LEMMA DaysTell ==
    ASSUME now \in Int, NEW n \in Ranges, NEW today, today = OperationalDay(now), NEW X
    PROVE  /\ \A d \in DOMAIN PerDay(n) : PerDay(n)[d] = Figures({v \in LiveRows : OperationalDay(StartOf[v]) = d})
           /\ Split([d \in DOMAIN PerDay(n) |-> With({v \in Recent(n) : OperationalDay(StartOf[v]) = d}, X)],
                    {v \in With(Recent(n), X) : OperationalDay(StartOf[v]) \in today - n + 1 .. today})
<1> DEFINE D == DOMAIN PerDay(n)
           of(d) == With({v \in Recent(n) : OperationalDay(StartOf[v]) = d}, X)
<1>1. \A d \in D : {v \in Recent(n) : OperationalDay(StartOf[v]) = d} = {v \in LiveRows : OperationalDay(StartOf[v]) = d}
  BY DayBars DEF Recent
<1>2. D = today - n + 1 .. today /\ \A d \in D : PerDay(n)[d] = Figures({v \in Recent(n) : OperationalDay(StartOf[v]) = d})
  BY DaysAre
<1>3. \A d, v : v \in of(d) <=> v \in With(Recent(n), X) /\ OperationalDay(StartOf[v]) = d
  BY StatusesAre
<1> HIDE DEF of, D
<1>4. UNION {of(d) : d \in D} = {v \in With(Recent(n), X) : OperationalDay(StartOf[v]) \in D}
  BY <1>3
<1>5. \A j, k \in D : j # k => of(j) \cap of(k) = {}
  BY <1>3
<1>6. Split([d \in D |-> of(d)], {v \in With(Recent(n), X) : OperationalDay(StartOf[v]) \in D})
  BY <1>4, <1>5 DEF Split
<1> QED BY <1>1, <1>2, <1>6 DEF of, D

\* The days' bars and the courts' slices add up to the headline, with what is on
\* none of them.
LEMMA SumsTell ==
    ASSUME ReportsTyped, NEW n \in Ranges, NEW days, days = DOMAIN PerDay(n)
    PROVE  /\ AddsUp([d \in days |-> PerDay(n)[d].revenue],
                     Collected({v \in Recent(n) : OperationalDay(StartOf[v]) \notin days}), Collected(Recent(n)))
           /\ AddsUp([k \in RevenueSlices(n) |-> PerCourt(n)[k].revenue],
                     Collected({v \in Recent(n) : NumberOf[v] \in Retired}), Collected(Recent(n)))
<1>0. Recent(n) \in SUBSET Visits /\ now \in Int
  BY MoneyIs
<1>1. AddsUp([d \in days |-> PerDay(n)[d].revenue],
             Collected({v \in Recent(n) : OperationalDay(StartOf[v]) \notin days}), Collected(Recent(n)))
  <2> DEFINE of == [v \in Visits |-> OperationalDay(StartOf[v])]
  <2>1. IsFiniteSet(days)
    <3>1. PICK today \in Int, m \in Int : today = OperationalDay(now) /\ m = today - n + 1 /\ days = m .. today
      BY <1>0, DaysAre
    <3> QED BY <3>1, FS_Interval
  <2>2. (\A d : {v \in Recent(n) : of[v] = d} = {v \in Recent(n) : OperationalDay(StartOf[v]) = d})
        /\ {v \in Recent(n) : of[v] \notin days} = {v \in Recent(n) : OperationalDay(StartOf[v]) \notin days}
    BY <1>0
  <2>3. \A d \in days : PerDay(n)[d].revenue = Collected({v \in Recent(n) : OperationalDay(StartOf[v]) = d})
    BY <1>0, DaysAre, StatusesAre
  <2> HIDE DEF of
  <2>4. [d \in days |-> PerDay(n)[d].revenue] = [d \in days |-> Collected({v \in Recent(n) : of[v] = d})]
    BY <2>2, <2>3
  <2>5. Collected(Recent(n)) = Total(days, [d \in days |-> Collected({v \in Recent(n) : of[v] = d})])
                               + Collected({v \in Recent(n) : of[v] \notin days})
    BY <1>0, <2>1, CollectedBy
  <2>6. PICK parts : parts = [d \in days |-> PerDay(n)[d].revenue]
    OBVIOUS
  <2>7. DOMAIN parts = days
    BY <2>6
  <2> QED BY <2>2, <2>4, <2>5, <2>6, <2>7 DEF AddsUp
<1>2. AddsUp([k \in RevenueSlices(n) |-> PerCourt(n)[k].revenue],
             Collected({v \in Recent(n) : NumberOf[v] \in Retired}), Collected(Recent(n)))
  <2> DEFINE C      == (1 .. CourtCount) \ Retired
             part   == [k \in C |-> Collected({v \in Recent(n) : NumberOf[v] = k})]
             slices == RevenueSlices(n)
             parts  == [k \in slices |-> PerCourt(n)[k].revenue]
  <2>1. IsFiniteSet(C)
    <3>1. C \in SUBSET (1 .. CourtCount) /\ CourtCount \in Int /\ 1 \in Int
      BY UnitsAre
    <3> HIDE DEF C
    <3>2. IsFiniteSet(1 .. CourtCount)
      BY <3>1, FS_Interval
    <3> QED BY <3>1, <3>2, FS_Subset
  <2>2. DOMAIN PerCourt(n) = C /\ \A k \in C : PerCourt(n)[k].revenue = part[k]
    BY StatusesAre DEF PerCourt
  <2>3. part \in [C -> Nat]
    <3>1. \A k \in C : part[k] \in Nat
      BY <1>0, MoneyIs
    <3> QED BY <3>1
  <2>4. {v \in Recent(n) : NumberOf[v] \notin C} = {v \in Recent(n) : NumberOf[v] \in Retired}
    BY <1>0, UnitsAre
  <2>5. slices \in SUBSET C /\ (\A k \in slices : parts[k] = part[k]) /\ \A k \in C \ slices : part[k] = 0
    BY <2>2 DEF RevenueSlices
  <2> HIDE DEF C
  <2>6. Collected(Recent(n)) = Total(C, part) + Collected({v \in Recent(n) : NumberOf[v] \notin C})
    BY <1>0, <2>1, CollectedBy
  <2>7. DOMAIN parts = slices
    OBVIOUS
  <2> HIDE DEF part, slices, parts
  <2>8. Total(slices, part) = Total(C, part)
    BY <2>1, <2>3, <2>5, TotalOfPart
  <2>9. Total(slices, parts) = Total(slices, part)
    BY <2>1, <2>5, FS_Subset, TotalSame
  <2>10. AddsUp(parts, Collected({v \in Recent(n) : NumberOf[v] \in Retired}), Collected(Recent(n)))
    BY <2>4, <2>6, <2>7, <2>8, <2>9 DEF AddsUp
  <2> QED BY <2>10 DEF parts, slices
<1> QED BY <1>1, <1>2

\* The other splits of the headline: by weekday and hour.
LEMMA PartsTell ==
    ASSUME now \in Int, NEW n \in Ranges
    PROVE  /\ Split(PerWeekday(n), With(Recent(n), Booked))
           /\ Split(PeakHours(n), {v \in With(With(Recent(n), Booked), Earning) :
                                      (StartOf[v] + Ahead) % UnitsPerDay \in SixAM .. LastPeak})
<1>0. \A v : v \in Recent(n) => v \in Visits
  BY DEF Recent, LiveRows
<1>2. Split(PerWeekday(n), With(Recent(n), Booked))
  <2> DEFINE of(d) == With({v \in Recent(n) : CalendarDay(StartOf[v]) % DaysPerWeek = d}, Booked)
             Days == 0 .. DaysPerWeek - 1
  <2>1. \A v \in Recent(n) : CalendarDay(StartOf[v]) % DaysPerWeek \in Days
    <3> SUFFICES ASSUME NEW v \in Recent(n) PROVE CalendarDay(StartOf[v]) % DaysPerWeek \in Days
      OBVIOUS
    <3>1. UnitsPerDay \in Nat \ {0} /\ DaysPerWeek \in Nat \ {0} /\ StartOf[v] \in Int /\ Ahead \in Int
      BY <1>0, UnitsAre
    <3>2. PICK a \in Int : a = StartOf[v] + Ahead
      BY <3>1
    <3>3. PICK q \in Int : q = a \div UnitsPerDay
      BY <3>1, Divides
    <3>4. q % DaysPerWeek \in Days
      BY <3>1, Divides
    <3> QED BY <3>2, <3>3, <3>4 DEF CalendarDay
  <2>2. \A d, v : v \in of(d) <=> v \in With(Recent(n), Booked) /\ CalendarDay(StartOf[v]) % DaysPerWeek = d
    BY StatusesAre
  <2>3. \A v : v \in With(Recent(n), Booked) => v \in Recent(n)
    BY StatusesAre
  <2>4. PerWeekday(n) = [d \in Days |-> of(d)]
    BY DEF PerWeekday
  <2> HIDE DEF of, Days
  <2>5. UNION {of(d) : d \in Days} = With(Recent(n), Booked)
    BY <2>1, <2>2, <2>3
  <2>6. \A j, k \in Days : j # k => of(j) \cap of(k) = {}
    BY <2>2
  <2> QED BY <2>4, <2>5, <2>6 DEF Split
<1>3. Split(PeakHours(n), {v \in With(With(Recent(n), Booked), Earning) :
                              (StartOf[v] + Ahead) % UnitsPerDay \in SixAM .. LastPeak})
  <2> DEFINE of(h) == With({v \in Recent(n) : (StartOf[v] + Ahead) % UnitsPerDay = h}, Earning)
             Hours1 == SixAM .. LastPeak
             whole == With(With(Recent(n), Booked), Earning)
  <2>1. \A h, v : v \in of(h) <=> v \in whole /\ (StartOf[v] + Ahead) % UnitsPerDay = h
    BY StatusesAre
  <2>2. PeakHours(n) = [h \in Hours1 |-> of(h)]
    BY DEF PeakHours
  <2> HIDE DEF of, Hours1, whole
  <2>3. UNION {of(h) : h \in Hours1} = {v \in whole : (StartOf[v] + Ahead) % UnitsPerDay \in Hours1}
    BY <2>1
  <2>4. \A j, k \in Hours1 : j # k => of(j) \cap of(k) = {}
    BY <2>1
  <2>5. Split([h \in Hours1 |-> of(h)], {v \in whole : (StartOf[v] + Ahead) % UnitsPerDay \in Hours1})
    BY <2>3, <2>4 DEF Split
  <2> QED BY <2>2, <2>5 DEF Hours1, whole
<1> QED BY <1>2, <1>3

-----------------------------------------------------------------------------
(* Lists of customers, the owner's report, and the range before *)

\* Rows of different customers are no more than the customers, and one list
\* takes them all or is full.
LEMMA CutsAre ==
    ASSUME NEW rows, NEW cap \in Nat, NEW list \in Cuts(rows, cap),
           \A x \in rows : x.key \in 1 .. MemberCount, \A x, y \in rows : x.key = y.key => x = y
    PROVE  /\ IsFiniteSet(rows) /\ Cardinality(rows) \in Nat /\ Cardinality(rows) <= MemberCount
           /\ list = rows \/ Cardinality(list) = cap
           /\ Cardinality(rows) <= cap => list = rows
<1> DEFINE key == [x \in rows |-> x.key]
<1>1. MemberCount \in Nat
  BY UnitsAre
<1>2. IsFiniteSet(1 .. MemberCount) /\ Cardinality(1 .. MemberCount) = MemberCount
  BY <1>1, FS_Interval
<1>3. key \in Injection(rows, 1 .. MemberCount)
  BY DEF Injection, IsInjective
<1>4. IsFiniteSet(rows) /\ Cardinality(rows) <= MemberCount
  <2> HIDE DEF key
  <2>1. IsFiniteSet(rows) /\ Cardinality(rows) <= Cardinality(1 .. MemberCount)
    BY <1>2, <1>3, FS_Injection
  <2> QED BY <2>1, <1>2
<1>5. list \in SUBSET rows /\ Cardinality(list) = IF Cardinality(rows) <= cap THEN Cardinality(rows) ELSE cap
  BY DEF Cuts
<1>6. Cardinality(list) = Cardinality(rows) => list = rows
  BY <1>4, <1>5, FS_Subset
<1>7. Cardinality(rows) \in Nat
  BY <1>4, FS_CardinalityType
<1> QED BY <1>4, <1>5, <1>6, <1>7

\* A customer with a booking is among the top unless the places are taken by
\* customers who paid as much.
LEMMA TopTells ==
    ASSUME ReportsTyped, NEW n, NEW top \in TopCustomers(n), NEW v \in With(Recent(n), Booked)
    PROVE  \/ \E x \in top : x.key = MemberOf[v]
           \/ /\ Cardinality(top) = TopPlaces
              /\ \A x \in top : Collected({u \in Recent(n) : MemberOf[u] = x.key})
                                >= Collected({u \in Recent(n) : MemberOf[u] = MemberOf[v]})
<1> DEFINE of(m)  == {x \in Recent(n) : MemberOf[x] = m}
           row(m) == [key |-> m, place |-> -Collected(of(m))]
           Those  == {k \in 1 .. MemberCount : With(of(k), Booked) # {}}
           rows   == {row(m) : m \in Those}
<1>1. top \in Cuts(rows, TopPlaces) /\ TopPlaces \in Nat
  BY OverviewAssumption DEF TopCustomers
<1>2. v \in Recent(n) /\ v \in Visits /\ visit[v].status \in Booked
  BY StatusesAre DEF Recent, LiveRows
<1>3. v \in With(of(MemberOf[v]), Booked) /\ MemberOf[v] \in 1 .. MemberCount
  BY <1>2, StatusesAre, UnitsAre
<1>4. MemberOf[v] \in Those
  BY <1>3
<1>5. \A m : row(m).key = m /\ row(m).place = -Collected(of(m))
  OBVIOUS
<1>6. \A k \in Those : k \in 1 .. MemberCount
  OBVIOUS
<1>a. \A m : Collected(of(m)) \in Nat
  <2>1. \A m : of(m) \in SUBSET Visits
    BY DEF Recent, LiveRows
  <2> HIDE DEF of
  <2> QED BY <2>1, MoneyIs
<1> HIDE DEF of, row, Those
<1>7. (\A x \in rows : x.key \in 1 .. MemberCount) /\ (\A x, y \in rows : x.key = y.key => x = y)
      /\ \A x \in rows : x.place = -Collected(of(x.key))
  BY <1>5, <1>6
<1>8. PICK y \in rows : y.key = MemberOf[v]
  BY <1>4, <1>5
<1> HIDE DEF rows
<1>9. top = rows \/ Cardinality(top) = TopPlaces
  BY <1>1, <1>7, CutsAre
<1>10. top \in SUBSET rows /\ \A x \in top, z \in rows \ top : x.place <= z.place
  BY <1>1 DEF Cuts
<1>11. ASSUME y \notin top, NEW x \in top PROVE Collected(of(x.key)) >= Collected(of(MemberOf[v]))
  <2>1. PICK a \in Nat, b \in Nat : a = Collected(of(x.key)) /\ b = Collected(of(MemberOf[v]))
    BY <1>a
  <2>2. -a <= -b
    BY <1>7, <1>8, <1>10, <1>11, <2>1
  <2> QED BY <2>1, <2>2
<1>12. ASSUME y \notin top PROVE Cardinality(top) = TopPlaces
  BY <1>8, <1>9, <1>12
<1> QED BY <1>8, <1>11, <1>12 DEF of

\* The charts agree with the headline.
LEMMA ChartsTell == ReportsTyped => ChartsAgree
<1> SUFFICES ASSUME ReportsTyped PROVE ChartsAgree
  OBVIOUS
<1>0. now \in Int
  BY MoneyIs
<1>1. \A m \in DOMAIN PerMonth : PerMonth[m] = Figures({v \in LiveRows : MonthOf(OperationalDay(StartOf[v])) = m})
  BY <1>0, MonthBars
<1> DEFINE Agree(n, head, days) ==
             /\ DOMAIN PerDay(n) = days
             /\ \A d \in days : PerDay(n)[d] = Figures({v \in LiveRows : OperationalDay(StartOf[v]) = d})
             /\ AddsUp([d \in days |-> PerDay(n)[d].revenue],
                       Collected({v \in Recent(n) : OperationalDay(StartOf[v]) \notin days}), head.revenue)
             /\ Split([d \in days |-> PerDay(n)[d].bookings], {v \in head.bookings : OperationalDay(StartOf[v]) \in days})
             /\ AddsUp([k \in RevenueSlices(n) |-> PerCourt(n)[k].revenue],
                       Collected({v \in Recent(n) : NumberOf[v] \in Retired}), head.revenue)
             /\ Split(PerWeekday(n), head.bookings)
             /\ Split(PeakHours(n), {v \in With(head.bookings, Earning) : (StartOf[v] + Ahead) % UnitsPerDay \in SixAM .. LastPeak})
             /\ \A top \in TopCustomers(n), v \in head.bookings :
                   \/ \E x \in top : x.key = MemberOf[v]
                   \/ /\ Cardinality(top) = TopPlaces
                      /\ \A x \in top : Collected({u \in Recent(n) : MemberOf[u] = x.key})
                                        >= Collected({u \in Recent(n) : MemberOf[u] = MemberOf[v]})
<1>2. ASSUME NEW n \in Ranges, NEW head, head = Headline(n).current.figures, NEW today, today = OperationalDay(now),
             NEW days, days = today - n + 1 .. today
      PROVE  Agree(n, head, days)
  <2>1. head.revenue = Collected(Recent(n)) /\ head.bookings = With(Recent(n), Booked)
    <3>1. head = Figures(Recent(n))
      BY <1>2 DEF Headline
    <3> QED BY <3>1, StatusesAre
  <2>2. DOMAIN PerDay(n) = days /\ \A d \in days : PerDay(n)[d] = Figures({v \in Recent(n) : OperationalDay(StartOf[v]) = d})
    BY <1>0, <1>2, DaysAre
  <2>3. \A d \in days : PerDay(n)[d] = Figures({v \in LiveRows : OperationalDay(StartOf[v]) = d})
    BY <1>0, <1>2, <2>2, DaysTell
  <2> DEFINE day(d) == With({v \in Recent(n) : OperationalDay(StartOf[v]) = d}, Booked)
  <2>4. \A d \in days : PerDay(n)[d].bookings = day(d)
    BY <2>2, StatusesAre
  <2>5. Split([d \in DOMAIN PerDay(n) |-> day(d)], {v \in With(Recent(n), Booked) : OperationalDay(StartOf[v]) \in today - n + 1 .. today})
    BY <1>0, <1>2, DaysTell
  <2> HIDE DEF day
  <2>6. [d \in days |-> PerDay(n)[d].bookings] = [d \in DOMAIN PerDay(n) |-> day(d)]
    BY <2>2, <2>4
  <2>7. Split([d \in days |-> PerDay(n)[d].bookings], {v \in head.bookings : OperationalDay(StartOf[v]) \in days})
    BY <1>2, <2>1, <2>5, <2>6
  <2>8. /\ AddsUp([d \in days |-> PerDay(n)[d].revenue],
                  Collected({v \in Recent(n) : OperationalDay(StartOf[v]) \notin days}), Collected(Recent(n)))
        /\ AddsUp([k \in RevenueSlices(n) |-> PerCourt(n)[k].revenue],
                  Collected({v \in Recent(n) : NumberOf[v] \in Retired}), Collected(Recent(n)))
    BY <2>2, SumsTell
  <2>9. /\ Split(PerWeekday(n), With(Recent(n), Booked))
        /\ Split(PeakHours(n), {v \in With(With(Recent(n), Booked), Earning) :
                                   (StartOf[v] + Ahead) % UnitsPerDay \in SixAM .. LastPeak})
    BY <1>0, PartsTell
  <2>10. \A top \in TopCustomers(n), v \in With(Recent(n), Booked) :
            \/ \E x \in top : x.key = MemberOf[v]
            \/ /\ Cardinality(top) = TopPlaces
               /\ \A x \in top : Collected({u \in Recent(n) : MemberOf[u] = x.key})
                                 >= Collected({u \in Recent(n) : MemberOf[u] = MemberOf[v]})
    BY TopTells
  <2> QED BY <2>1, <2>2, <2>3, <2>7, <2>8, <2>9, <2>10
<1>3. \A n \in Ranges : Agree(n, Headline(n).current.figures, OperationalDay(now) - n + 1 .. OperationalDay(now))
  <2> HIDE DEF Agree
  <2> QED BY <1>2
<1> QED BY <1>1, <1>3, Zenon DEF ChartsAgree

\* The range before ends where the range begins.
LEMMA PeriodsTell == now \in Int => PeriodsMeet
<1> SUFFICES ASSUME now \in Int, NEW n \in Ranges
             PROVE  \A k \in {"cancelled", "absent"} :
                        Split(<<Headline(n).current[k], Headline(n).previous[k]>>, Headline(2 * n).current[k])
  BY DEF PeriodsMeet
<1>1. n \in Nat \ {0} /\ UnitsPerDay \in Nat \ {0}
  BY OverviewAssumption, UnitsAre
<1>2. PICK len \in Nat : len = n * UnitsPerDay /\ 2 * n * UnitsPerDay = len + len
  BY <1>1
<1>3. /\ \A v : v \in Recent(2 * n) <=> v \in Recent(n) \/ v \in Before(n)
      /\ \A v : ~(v \in Recent(n) /\ v \in Before(n))
  <2>1. \A v : v \in Recent(n) <=> v \in LiveRows /\ StartOf[v] >= now - len
    BY <1>2 DEF Recent
  <2>2. \A v : v \in Recent(2 * n) <=> v \in LiveRows /\ StartOf[v] >= now - (len + len)
    BY <1>2 DEF Recent
  <2>3. \A v : v \in Before(n) <=> v \in LiveRows /\ v \notin Recent(n) /\ StartOf[v] >= now - (len + len)
    BY <1>2 DEF Before
  <2>4. \A v \in LiveRows : StartOf[v] >= now - len => StartOf[v] >= now - (len + len)
    <3>1. \A v \in LiveRows : v \in Visits
      BY DEF LiveRows
    <3> QED BY <3>1, UnitsAre
  <2> QED BY <2>1, <2>2, <2>3, <2>4
<1>4. ASSUME NEW X, NEW a, NEW b, NEW c, a = With(Recent(n), X), b = With(Before(n), X), c = With(Recent(2 * n), X)
      PROVE  Split(<<a, b>>, c)
  <2>1. a \cup b = c /\ a \cap b = {}
    BY <1>3, <1>4 DEF With
  <2>2. DOMAIN <<a, b>> = {1, 2} /\ <<a, b>>[1] = a /\ <<a, b>>[2] = b
    OBVIOUS
  <2>3. UNION {<<a, b>>[k] : k \in {1, 2}} = a \cup b
    BY <2>2
  <2>4. \A j, k \in {1, 2} : j # k => <<a, b>>[j] \cap <<a, b>>[k] = {}
    BY <2>1, <2>2
  <2> QED BY <2>1, <2>2, <2>3, <2>4 DEF Split
<1>5. \A m \in {n, 2 * n} : /\ Headline(m).current["cancelled"] = With(Recent(m), {"cancelled"})
                            /\ Headline(m).current["absent"] = With(Recent(m), {"no_show"})
  BY DEF Headline
<1>6. Headline(n).previous["cancelled"] = With(Before(n), {"cancelled"}) /\ Headline(n).previous["absent"] = With(Before(n), {"no_show"})
  BY DEF Headline
<1>7. Split(<<Headline(n).current["cancelled"], Headline(n).previous["cancelled"]>>, Headline(2 * n).current["cancelled"])
  BY <1>4, <1>5, <1>6
<1>8. Split(<<Headline(n).current["absent"], Headline(n).previous["absent"]>>, Headline(2 * n).current["absent"])
  BY <1>4, <1>5, <1>6
<1> QED BY <1>7, <1>8

\* What is collected, with what is short of the prices, is the prices, with what is
\* above them.
LEMMA ShortsTell ==
    ASSUME ReportsTyped, NEW S \in SUBSET Visits
    PROVE  /\ Total(S, Taken) + Total(S, Short) = Total(S, PriceOf) + Total(S, Surplus)
           /\ Total(S, Taken) \in Nat /\ Total(S, Short) \in Nat /\ Total(S, PriceOf) \in Nat /\ Total(S, Surplus) \in Nat
<1>1. \A v \in Visits : Taken[v] = visit[v].taken /\ visit[v].taken \in Nat /\ PriceOf[v] \in Nat
  BY MoneyIs
<1>2. \A v \in Visits : /\ Short[v] = IF PriceOf[v] > visit[v].taken THEN PriceOf[v] - visit[v].taken ELSE 0
                        /\ Surplus[v] = IF PriceOf[v] < visit[v].taken THEN visit[v].taken - PriceOf[v] ELSE 0
  BY DEF Short, Surplus
<1>3. \A v \in Visits : Short[v] \in Nat /\ Surplus[v] \in Nat /\ Taken[v] + Short[v] = PriceOf[v] + Surplus[v]
  BY <1>1, <1>2
<1>4. Short = [v \in Visits |-> Short[v]] /\ Surplus = [v \in Visits |-> Surplus[v]]
  BY DEF Short, Surplus
<1>5. Short \in [Visits -> Nat] /\ Surplus \in [Visits -> Nat] /\ Taken \in [Visits -> Nat] /\ PriceOf \in [Visits -> Nat]
  BY <1>3, <1>4, MoneyIs
<1>6. IsFiniteSet(Visits)
  BY UnitsAre
<1>7. [v \in Visits |-> Taken[v] + Short[v]] = [v \in Visits |-> PriceOf[v] + Surplus[v]]
  BY <1>3
<1>8. Total(S, [v \in Visits |-> Taken[v] + Short[v]]) = Total(S, Taken) + Total(S, Short)
  BY <1>5, <1>6, TotalOfSums
<1>9. Total(S, [v \in Visits |-> PriceOf[v] + Surplus[v]]) = Total(S, PriceOf) + Total(S, Surplus)
  BY <1>5, <1>6, TotalOfSums
<1> QED BY <1>5, <1>6, <1>7, <1>8, <1>9, TotalType

\* A day's bar against the owner's report.
LEMMA BarsTell == ReportsTyped => BarsMatchReport
<1> SUFFICES ASSUME ReportsTyped, NEW n \in Ranges, NEW d \in DOMAIN PerDay(n)
             PROVE  LET rows        == {x \in ReportRows("daily_revenue", [from |-> 0, to |-> LastNow]) : x.key = d}
                        day(states) == With({v \in Visits : OperationalDay(StartOf[v]) = d}, states)
                        earning     == day(Earning)
                    IN  /\ {x.bookings : x \in rows} = {Cardinality(earning)} \ {0}
                        /\ \A x \in rows :
                              PerDay(n)[d].revenue + Total(earning, Short) =
                                  x.revenue + Total(earning, Surplus) + Total(day({"no_show"}), Taken)
                        /\ rows = {} => PerDay(n)[d].revenue = Total(day({"no_show"}), Taken)
  BY DEF BarsMatchReport
<1> DEFINE w       == [from |-> 0, to |-> LastNow]
           rows    == {x \in ReportRows("daily_revenue", w) : x.key = d}
           bar     == PerDay(n)[d].revenue
           paid    == With({v \in Visits : OperationalDay(StartOf[v]) = d}, Earning)
           noShows == With({v \in Visits : OperationalDay(StartOf[v]) = d}, {"no_show"})
<1> SUFFICES /\ {x.bookings : x \in rows} = {Cardinality(paid)} \ {0}
             /\ \A x \in rows : bar + Total(paid, Short) = x.revenue + Total(paid, Surplus) + Total(noShows, Taken)
             /\ rows = {} => bar = Total(noShows, Taken)
  OBVIOUS
<1>0. paid \in SUBSET Visits /\ noShows \in SUBSET Visits /\ paid \cap noShows = {}
  BY StatusesAre
<1>1. bar = Total(paid, Taken) + Total(noShows, Taken)
  <2>1. PICK S : S = {v \in LiveRows : OperationalDay(StartOf[v]) = d}
    OBVIOUS
  <2>2. PerDay(n)[d] = Figures(S)
    <3>1. PICK today : today = OperationalDay(now)
      OBVIOUS
    <3>2. PerDay(n)[d] = Figures({v \in LiveRows : OperationalDay(StartOf[v]) = d})
      BY <3>1, DaysTell, MoneyIs
    <3> QED BY <2>1, <3>2
  <2>3. bar = Total(With(S, Verified), Taken)
    BY <2>2, StatusesAre DEF Collected
  <2>4. With(S, Verified) = paid \cup noShows
    <3>1. \A v \in Visits : visit[v].status \in Verified => v \in LiveRows
      <4>1. "cancelled" \notin Verified
        BY DEF Verified, Earning
      <4> QED BY <4>1, MoneyIs
    <3>2. LiveRows \subseteq Visits
      BY MoneyIs
    <3> QED BY <2>1, <3>1, <3>2, StatusesAre
  <2> HIDE DEF bar, paid, noShows
  <2>5. Total(paid \cup noShows, Taken) = Total(paid, Taken) + Total(noShows, Taken)
    <3>1. IsFiniteSet(paid) /\ IsFiniteSet(noShows) /\ \A v \in paid \cup noShows : Taken[v] \in Nat
      BY <1>0, MoneyIs
    <3> QED BY <1>0, <3>1, TotalOfTwo
  <2> QED BY <2>3, <2>4, <2>5
<1>2. \A v : v \in paid <=> v \in Visits /\ visit[v].status \in Earning /\ OperationalDay(StartOf[v]) = d
  BY StatusesAre
<1> HIDE DEF paid
<1>3. Concerned("daily_revenue", w) = {v \in Visits : visit[v].status \in Earning}
  <2>1. \A v : Concerns("daily_revenue", v, w) <=> visit[v].status \in Earning /\ In(StartOf[v], w)
    BY DEF Concerns, Revenue
  <2>2. \A v \in Visits : In(StartOf[v], w)
    BY UnitsAre DEF In
  <2> QED BY <2>1, <2>2 DEF Concerned
<1>4. (\A v : RowKey("daily_revenue", v) = OperationalDay(StartOf[v])) /\ Always("daily_revenue") = {}
      /\ "daily_revenue" \in Revenue
  BY DEF RowKey, Always, Revenue
<1>5. \A x \in rows : x.bookings = Cardinality(paid) /\ x.revenue = Total(paid, PriceOf) /\ paid # {}
  <2> SUFFICES ASSUME NEW x \in rows PROVE x.bookings = Cardinality(paid) /\ x.revenue = Total(paid, PriceOf) /\ paid # {}
    OBVIOUS
  <2> HIDE DEF w
  <2>1. x \in ReportRows("daily_revenue", w) /\ x.key = d
    OBVIOUS
  <2>2. x.bookings = Cardinality({v \in Concerned("daily_revenue", w) : RowKey("daily_revenue", v) = x.key})
        /\ x.revenue = Total({v \in Concerned("daily_revenue", w) : RowKey("daily_revenue", v) = x.key}, PriceOf)
    BY <2>1, <1>4, RowsAre
  <2>3. x.key \in {RowKey("daily_revenue", v) : v \in Concerned("daily_revenue", w)} \cup Always("daily_revenue")
    BY <2>1, RowsAre
  <2>4. {v \in Concerned("daily_revenue", w) : RowKey("daily_revenue", v) = x.key} = paid
    BY <2>1, <1>2, <1>3, <1>4
  <2>5. \E v \in Concerned("daily_revenue", w) : RowKey("daily_revenue", v) = d
    BY <2>1, <2>3, <1>4
  <2>6. paid # {}
    BY <2>1, <2>4, <2>5
  <2> QED BY <2>2, <2>4, <2>6
<1>6. ASSUME NEW v \in paid PROVE \E x \in rows : TRUE
  <2> HIDE DEF w
  <2>1. v \in Concerned("daily_revenue", w) /\ RowKey("daily_revenue", v) = d
    BY <1>2, <1>3, <1>4
  <2>2. \E x \in ReportRows("daily_revenue", w) : x.key = RowKey("daily_revenue", v)
    BY <2>1, RowsAre
  <2> QED BY <2>1, <2>2
<1>7. Cardinality(paid) = 0 <=> paid = {}
  BY <1>0, FS_EmptySet, MoneyIs
<1> HIDE DEF w, rows, bar, noShows
<1>8. /\ Total(paid, Taken) + Total(paid, Short) = Total(paid, PriceOf) + Total(paid, Surplus)
      /\ Total(paid, Taken) \in Nat /\ Total(paid, Short) \in Nat /\ Total(paid, PriceOf) \in Nat /\ Total(paid, Surplus) \in Nat
      /\ Total(noShows, Taken) \in Nat
  BY <1>0, ShortsTell
<1>9. \A x \in rows : bar + Total(paid, Short) = x.revenue + Total(paid, Surplus) + Total(noShows, Taken)
  BY <1>1, <1>5, <1>8
<1>10. CASE paid = {}
  <2>1. rows = {}
    BY <1>5, <1>10
  <2>2. {x.bookings : x \in rows} = {}
    BY <2>1
  <2>3. bar = Total(noShows, Taken)
    BY <1>1, <1>8, <1>10, TotalEmpty
  <2> QED BY <1>7, <1>9, <1>10, <2>2, <2>3
<1>11. CASE paid # {}
  <2>1. PICK x \in rows : TRUE
    BY <1>6, <1>11
  <2>2. {y.bookings : y \in rows} = {Cardinality(paid)}
    BY <1>5, <2>1
  <2> QED BY <1>7, <1>9, <1>11, <2>1, <2>2
<1> QED BY <1>10, <1>11

\* The customers' page has every booking and all that is on file, while it has room.
LEMMA ListTells ==
    ASSUME ReportsTyped, MemberCount <= ListCap, NEW list \in Customers
    PROVE  /\ CustomerTotals(list).bookings = Figures(LiveRows).bookings
           /\ CustomerTotals(list).revenue =
                 Collected(LiveRows) + Total(With(LiveRows, Verified), [v \in Visits |-> visit[v].filed - visit[v].taken])
<1> DEFINE of(m)  == {v \in LiveRows : MemberOf[v] = m}
           row(m) == [key |-> m, place |-> -Cardinality(With(of(m), Booked)), spent |-> Total(With(of(m), Verified), Filed)]
           rows   == {row(m) : m \in 1 .. MemberCount}
           W      == With(LiveRows, Verified)
           gap    == [v \in Visits |-> visit[v].filed - visit[v].taken]
<1>1. list \in Cuts(rows, ListCap) /\ ListCap \in Nat
  BY OverviewAssumption DEF Customers
<1>2. \A m : row(m).key = m /\ row(m).spent = Total({v \in W : MemberOf[v] = m}, Filed)
  <2>1. \A m : With(of(m), Verified) = {v \in W : MemberOf[v] = m}
    BY DEF With
  <2> QED BY <2>1
<1>3. LiveRows \subseteq Visits /\ W \in SUBSET Visits /\ \A v \in LiveRows : MemberOf[v] \in 1 .. MemberCount
  BY UnitsAre DEF With, LiveRows
<1> HIDE DEF row
<1>4. /\ \A x \in rows : x.key \in 1 .. MemberCount /\ x.spent = Total({v \in W : MemberOf[v] = x.key}, Filed)
      /\ \A x, y \in rows : x.key = y.key => x = y
  BY <1>2
<1>5. \A m \in 1 .. MemberCount : row(m) \in rows
  OBVIOUS
<1> HIDE DEF rows
<1>6. list = rows /\ IsFiniteSet(rows)
  <2>1. /\ IsFiniteSet(rows) /\ Cardinality(rows) \in Nat /\ Cardinality(rows) <= MemberCount
        /\ Cardinality(rows) <= ListCap => list = rows
    BY <1>1, <1>4, CutsAre
  <2>2. Cardinality(rows) <= ListCap
    BY <1>1, <2>1, UnitsAre
  <2> QED BY <2>1, <2>2
<1>7. {v \in LiveRows : \E x \in list : x.key = MemberOf[v]} = LiveRows
  BY <1>2, <1>3, <1>5, <1>6
<1>8. CustomerTotals(list).bookings = Figures(LiveRows).bookings
  <2>1. CustomerTotals(list).bookings = With({v \in LiveRows : \E x \in list : x.key = MemberOf[v]}, Booked)
    BY DEF CustomerTotals
  <2> QED BY <1>7, <2>1, StatusesAre
<1> HIDE DEF W
<1>9. CustomerTotals(list).revenue = Total(W, Filed)
  <2> DEFINE to == [v \in W |-> row(MemberOf[v])]
  <2>1. \A v \in W : to[v] \in rows /\ to[v].key = MemberOf[v]
    <3>1. \A v \in W : v \in LiveRows
      BY StatusesAre DEF W
    <3> QED BY <1>2, <1>3, <1>5, <3>1
  <2> HIDE DEF to
  <2>2. IsFiniteSet(W) /\ \A v \in W : Filed[v] \in Nat
    BY <1>3, MoneyIs
  <2>3. Total(W, Filed) = Total(rows, [x \in rows |-> Total({v \in W : to[v] = x}, Filed)])
    BY <1>6, <2>1, <2>2, TotalBySlice
  <2>4. \A x \in rows : {v \in W : to[v] = x} = {v \in W : MemberOf[v] = x.key}
    BY <1>4, <2>1
  <2>5. \A x \in rows : Total({v \in W : to[v] = x}, Filed) = x.spent
    BY <1>4, <2>4
  <2>6. [x \in rows |-> Total({v \in W : to[v] = x}, Filed)] = [x \in rows |-> x.spent]
    BY <2>5
  <2>7. CustomerTotals(list).revenue = Total(list, [x \in list |-> x.spent])
    BY DEF CustomerTotals
  <2> QED BY <1>6, <2>3, <2>6, <2>7
<1>10. Total(W, Filed) = Total(W, Taken) + Total(W, gap)
  <2>1. \A v \in Visits : gap[v] \in Nat /\ Filed[v] = Taken[v] + gap[v]
    <3>1. \A v \in Visits : gap[v] = visit[v].filed - visit[v].taken
      OBVIOUS
    <3> HIDE DEF gap
    <3> QED BY <3>1, MoneyIs
  <2>2. gap \in [Visits -> Nat]
    BY <2>1
  <2> HIDE DEF gap
  <2>3. Filed = [v \in Visits |-> Taken[v] + gap[v]]
    BY <2>1, MoneyIs
  <2> QED BY <1>3, <2>2, <2>3, MoneyIs, UnitsAre, TotalOfSums
<1>11. Collected(LiveRows) = Total(W, Taken)
  BY DEF Collected, W
<1> QED BY <1>8, <1>9, <1>10, <1>11 DEF W

\* Customers are new or returning, registered in the month they are shown in,
\* and all on the customers' page while it has room.
LEMMA CustomersTell == ReportsTyped => CustomersAgree
<1> SUFFICES ASSUME ReportsTyped PROVE CustomersAgree
  OBVIOUS
<1>0. now \in Int
  BY MoneyIs
<1>1. ASSUME NEW n \in Ranges
      PROVE  /\ {MemberOf[v] : v \in With(Recent(n), Booked)} \subseteq NewCustomers(n) \cup ReturningCustomers(n)
             /\ ReturningCustomers(n) \subseteq Headline(n).members
             /\ \A c \in ReturningCustomers(n) : \E v \in Recent(n) : MemberOf[v] = c /\ JoinedAt[c] < StartOf[v]
  <2>1. Headline(n).members = {MemberOf[v] : v \in Recent(n)}
    BY DEF Headline
  <2>2. \A v \in With(Recent(n), Booked) : v \in Recent(n) /\ v \in Visits
    BY StatusesAre DEF Recent, LiveRows
  <2>3. ASSUME NEW c \in ReturningCustomers(n) PROVE \E v \in Recent(n) : MemberOf[v] = c /\ JoinedAt[c] < StartOf[v]
    <3>1. PICK v \in With(Recent(n), Booked) : c = MemberOf[v] /\ c \notin NewCustomers(n)
      BY DEF ReturningCustomers
    <3>2. StartOf[v] \in Int /\ c \in 1 .. MemberCount /\ v \in Recent(n)
      BY <2>2, <3>1, UnitsAre
    <3>3. JoinedAt[c] \in Int
      BY <3>2, OverviewAssumption
    <3>4. PICK first \in Int : first = now - n * UnitsPerDay
      BY <1>0, OverviewAssumption, UnitsAre
    <3>5. ~(JoinedAt[c] >= first) /\ StartOf[v] >= first
      BY <3>1, <3>2, <3>4 DEF NewCustomers, Recent
    <3> QED BY <3>1, <3>2, <3>3, <3>4, <3>5
  <2> QED BY <2>1, <2>2, <2>3 DEF ReturningCustomers
<1>2. ASSUME NEW c \in 1 .. MemberCount, NEW m, m = MonthOf(CalendarDay(JoinedAt[c])), m \in FirstMonth .. LastMonth
      PROVE  c \in CustomerGrowth[m] \/ (m = FirstMonth /\ (JoinedAt[c] + Ahead) % UnitsPerDay < Ahead)
  <2>1. /\ JoinedAt[c] \in Int /\ UnitsPerDay \in Nat \ {0} /\ DaysPerMonth \in Nat \ {0}
        /\ Ahead \in Int /\ 0 <= Ahead /\ Ahead < UnitsPerDay
    BY OverviewAssumption, UnitsAre
  <2>2. PICK t \in Int : t = JoinedAt[c] + Ahead
    BY <2>1
  <2>3. PICK d \in Int, r \in 0 .. UnitsPerDay - 1 : d = t \div UnitsPerDay /\ t = UnitsPerDay * d + r /\ r = t % UnitsPerDay
    BY <2>1, <2>2, Divides
  <2>4. m = MonthOf(d)
    BY <1>2, <2>2, <2>3 DEF CalendarDay
  <2>5. m \in Int /\ m * DaysPerMonth <= d
    BY <2>4, MonthIs
  <2>6. PICK first \in Int : first = FirstMonth /\ first <= m
    BY <1>0, <1>2, <2>5, TrendIs
  <2>7. PICK days \in Int : days = first * DaysPerMonth /\ days <= d
    <3>1. first * DaysPerMonth <= d /\ first * DaysPerMonth \in Int
      BY <1>0, <2>4, <2>6, TrendIs
    <3> QED BY <3>1
  <2>8. PICK start \in Int : start = days * UnitsPerDay
    BY <2>1
  <2>9. InTrend(JoinedAt[c]) <=> JoinedAt[c] >= start
    BY <2>6, <2>7, <2>8 DEF InTrend
  <2>10. CASE JoinedAt[c] >= start
    BY <1>2, <2>9, <2>10 DEF CustomerGrowth
  <2>11. CASE ~(JoinedAt[c] >= start)
    <3>1. t < start + UnitsPerDay /\ t < start + Ahead
      BY <2>1, <2>2, <2>8, <2>11
    <3>2. d = days
      <4>1. UnitsPerDay * d = d * UnitsPerDay /\ d * UnitsPerDay \in Int /\ (days + 1) * UnitsPerDay = start + UnitsPerDay
        BY <2>1, <2>8
      <4>2. d * UnitsPerDay < (days + 1) * UnitsPerDay
        BY <2>1, <2>3, <2>8, <3>1, <4>1
      <4>3. d < days + 1
        BY <2>1, <4>2, Cancels
      <4> QED BY <2>7, <4>3
    <3>3. r < Ahead
      <4>1. UnitsPerDay * d = start
        BY <2>1, <2>8, <3>2
      <4> QED BY <2>1, <2>3, <2>8, <3>1, <4>1
    <3>4. m = first
      <4>1. m * DaysPerMonth < (first + 1) * DaysPerMonth
        <5>1. (first + 1) * DaysPerMonth = days + DaysPerMonth
          BY <2>1, <2>6, <2>7
        <5>2. m * DaysPerMonth \in Int
          BY <2>1, <2>5
        <5> QED BY <2>1, <2>5, <2>7, <3>2, <5>1, <5>2
      <4>2. m < first + 1
        BY <2>1, <2>5, <4>1, Cancels
      <4> QED BY <2>5, <2>6, <4>2
    <3> QED BY <2>2, <2>3, <2>6, <3>3, <3>4
  <2> QED BY <2>10, <2>11
<1> QED BY <1>0, <1>1, <1>2, ListTells DEF CustomersAgree

\* The whole analytics screen.
LEMMA OverviewTells == ReportsTyped => OverviewIsTrue
BY ChartsTell, BarsTell, CustomersTell, PeriodsTell, MoneyIs DEF OverviewIsTrue

\* Papers, reports and screen, from the invariant.
LEMMA ReportsTell == ReportsInv => PapersAreTrue /\ ReportsAgree /\ OverviewIsTrue
BY PapersTell, PeriodsHold, OverviewTells DEF ReportsInv, ReportsAgree

\* A document that is handed over is that of its request, unless the club moved on
\* since it was built; the reports of one window agree in what they count and in
\* the prices they add up; the charts of the analytics screen add up to its
\* headline, of what was collected; and a bar of it is the report's row of the day
\* but for what is named: what is still owed of the prices, what was collected
\* above them, and what the no-shows left; for any bookings, prices and receipts.
THEOREM ReportsHold ==
    ReportsInit /\ [][ReportsNext]_reportVars => [](PapersAreTrue /\ ReportsAgree /\ OverviewIsTrue)
<1>1. ReportsInit /\ [][ReportsNext]_reportVars => []ReportsInv
  BY ReportsInvStart, ReportsInvStep, PTL
<1> QED BY <1>1, ReportsTell, PTL

-----------------------------------------------------------------------------
(* What a member is told, and the sheet's rows *)

CMail == <<"confirmed", "mail">>
CText == <<"confirmed", "whatsapp">>

Unheard(k, seq)   == \A i \in DOMAIN seq : seq[i] # k
HeardOnce(k, seq) == \A i, j \in DOMAIN seq : seq[i] = k /\ seq[j] = k => i = j

\* One more message is the last one, and changes nothing of the others.
LEMMA OneMoreHeard ==
    ASSUME NEW S, NEW seq \in Seq(S), NEW x \in S
    PROVE  LET more == Append(seq, x)
           IN  /\ more \in Seq(S) /\ more # <<>> /\ more[Len(more)] = x
               /\ \A k : /\ Unheard(k, seq) /\ x # k => Unheard(k, more)
                         /\ Unheard(k, seq) => HeardOnce(k, more)
                         /\ HeardOnce(k, seq) /\ x # k => HeardOnce(k, more)
<1> DEFINE more == Append(seq, x)
<1>1. /\ more \in Seq(S) /\ Len(more) = Len(seq) + 1 /\ Len(seq) \in Nat /\ more[Len(more)] = x
      /\ DOMAIN more = 1 .. Len(seq) + 1 /\ DOMAIN seq = 1 .. Len(seq)
      /\ \A i \in DOMAIN seq : more[i] = seq[i]
  OBVIOUS
<1>2. more # <<>>
  BY <1>1
<1> HIDE DEF more
<1>3. \A i \in DOMAIN more : (more[i] = x /\ i = Len(seq) + 1) \/ (i \in DOMAIN seq /\ more[i] = seq[i])
  BY <1>1
<1>4. ASSUME NEW k, Unheard(k, seq) PROVE (x # k => Unheard(k, more)) /\ HeardOnce(k, more)
  BY <1>3, <1>4 DEF Unheard, HeardOnce
<1>5. ASSUME NEW k, HeardOnce(k, seq), x # k PROVE HeardOnce(k, more)
  BY <1>3, <1>5 DEF HeardOnce
<1> QED BY <1>1, <1>2, <1>4, <1>5 DEF more

\* A booking that is not decided has no message under way; none has a message
\* of an approval in the member's WhatsApp before the mail is settled.
Messaging(b) ==
    /\ fate[b] = "none" => /\ \A s \in LedgerStatuses : syncing[b][s] = "idle"
                           /\ \A m \in Messages : sending[b][m] = Idle
    /\ fate[b] # "none" => syncing[b]["PENDING_APPROVAL"] # "idle"
    /\ fate[b] # "cancelled" => \A c \in Channels : /\ sending[b][<<"cancelled", c>>] \in {Idle, Over}
                                                    /\ Unheard("cancelled", told[b][c])
    /\ fate[b] \in {"none", "pending"} => \A c \in Channels : /\ sending[b][<<"confirmed", c>>] \in {Idle, Over}
                                                              /\ Unheard("confirmed", told[b][c])
    /\ Attempted(b, CMail) => sending[b][CText] \in {Idle, Over} /\ Unheard("confirmed", told[b]["whatsapp"])
    /\ noted[b] = "sent" => told[b]["whatsapp"] # <<>>
    /\ noted[b] = "failed" => mishaps[b] \cap {"lost", "failed"} # {}

\* Without a lost answer, a message is heard once and not before its attempts.
HeardRight(b) ==
    "lost" \notin mishaps[b] => \A m \in Messages :
        /\ HeardOnce(m[1], told[b][m[2]])
        /\ Attempted(b, m) => Unheard(m[1], told[b][m[2]])

\* Without a crash an approval mails, then messages, then syncs.
InOrder(b) ==
    ~({"failed", "unsynced"} \subseteq mishaps[b]) =>
        /\ fate[b] \in {"none", "pending"} => sending[b][CMail] = Idle
        /\ sending[b][CMail] # Over => sending[b][CText] = Idle
        /\ sending[b][CMail] = Over => sending[b][CText] # Idle
        /\ sending[b][CText] = Over <=> syncing[b]["CONFIRMED"] # "idle"
        /\ syncing[b]["CONFIRMED"] # "idle" => noted[b] # ""

\* Of a cancellation that crossed nothing, the message that is settled was heard
\* last.
Parting(b) ==
    fate[b] = "cancelled" /\ mishaps[b] \cap {"late", "failed"} = {} =>
        /\ \A c \in Channels : sending[b][<<"confirmed", c>>] \in {Idle, Over}
        /\ \A c \in Channels :
              /\ sending[b][<<"cancelled", c>>] # Idle
              /\ sending[b][<<"cancelled", c>>] = Over =>
                    told[b][c] # <<>> /\ told[b][c][Len(told[b][c])] = "cancelled"

\* The creation's sync appends the row, the approval's finds and rewrites it.
OneRow(b, s) == \E i \in DOMAIN sheet : RowsOf(b) = {i} /\ sheet[i] = NewRow(b, s)
RowRight(b) ==
    LET creation == syncing[b]["PENDING_APPROVAL"]
        approval == syncing[b]["CONFIRMED"]
    IN  mishaps[b] \cap {"overlap", "unsynced"} = {} =>
        /\ creation # "over" => /\ RowsOf(b) = {} /\ creation # "update"
                                /\ approval \in {"idle", "read"}
        /\ creation = "over" =>
              /\ approval # "append"
              /\ approval = "over" => OneRow(b, "CONFIRMED")
              /\ approval # "over" => OneRow(b, "PENDING_APPROVAL")

\* An update was decided on over a row, and rows are never deleted.
UpdateFound(b) == \A s \in LedgerStatuses : syncing[b][s] = "update" => Found(b)

NoticeInv(b) == Messaging(b) /\ HeardRight(b) /\ InOrder(b) /\ Parting(b) /\ RowRight(b) /\ UpdateFound(b)
NoticesInv   == NoticesTypeOK /\ \A b \in Reservations : NoticeInv(b)

\* Nothing has been heard or written at first.
LEMMA NothingYet == ASSUME NEW S PROVE <<>> \in Seq(S) /\ DOMAIN <<>> = {}
OBVIOUS

\* Nothing is under way at first.
LEMMA NoticesStart == NoticesInit => NoticesInv
<1> SUFFICES ASSUME NoticesInit PROVE NoticesInv
  OBVIOUS
<1>0. MaxTries \in Nat /\ MaxTries > 0 /\ Over # Idle /\ Idle \in Idle .. Over
  BY MaxTriesAssumption DEF Over, Idle
<1>1. NoticesTypeOK
  <2>1. <<>> \in Seq({"confirmed", "cancelled"}) /\ <<>> \in Seq(SheetRow)
    BY NothingYet
  <2> QED BY <1>0, <2>1, Zenon DEF NoticesInit, NoticesTypeOK, Phases
<1>2. ASSUME NEW b \in Reservations PROVE NoticeInv(b)
  <2>1. /\ fate[b] = "none" /\ sheet = <<>> /\ noted[b] = "" /\ mishaps[b] = {}
        /\ \A s \in LedgerStatuses : syncing[b][s] = "idle"
        /\ \A m \in Messages : sending[b][m] = Idle
        /\ \A c \in Channels : told[b][c] = <<>>
    BY Zenon DEF NoticesInit
  <2>2. CMail \in Messages /\ CText \in Messages /\ \A k \in {"confirmed", "cancelled"}, c \in Channels : <<k, c>> \in Messages
    BY DEF CMail, CText, Messages, Channels
  <2>3. \A k, c : c \in Channels => Unheard(k, told[b][c]) /\ HeardOnce(k, told[b][c])
    BY <2>1, NothingYet, Zenon DEF Unheard, HeardOnce
  <2>4. Idle \notin 1 .. MaxTries
    BY DEF Idle
  <2>5. Messaging(b)
    BY <2>1, <2>2, <2>3, <2>4, Zenon DEF Messaging, Attempted
  <2>6. HeardRight(b)
    BY <2>1, <2>3, <2>4, Zenon DEF HeardRight, Attempted, Messages
  <2>7. InOrder(b)
    BY <1>0, <2>1, <2>2, Zenon DEF InOrder, LedgerStatuses
  <2>8. Parting(b)
    BY <2>1, Zenon DEF Parting
  <2>9. RowRight(b) /\ UpdateFound(b)
    <3>1. RowsOf(b) = {}
      BY <2>1, NothingYet, Zenon DEF RowsOf
    <3> QED BY <2>1, <3>1, Zenon DEF RowRight, UpdateFound, LedgerStatuses
  <2> QED BY <2>5, <2>6, <2>7, <2>8, <2>9 DEF NoticeInv
<1> QED BY <1>1, <1>2 DEF NoticesInv

\* What happens to one booking leaves the others' records and rows alone.
LEMMA OthersKeep ==
    ASSUME NoticesInv, NEW b \in Reservations,
           \A a \in Reservations \ {b} :
               /\ fate'[a] = fate[a] /\ syncing'[a] = syncing[a] /\ sending'[a] = sending[a]
               /\ told'[a] = told[a] /\ noted'[a] = noted[a] /\ mishaps'[a] = mishaps[a]
               /\ RowsOf(a)' = RowsOf(a) /\ \A i \in RowsOf(a) : i \in DOMAIN sheet' /\ sheet'[i] = sheet[i],
           NoticesTypeOK', NoticeInv(b)'
    PROVE  NoticesInv'
<1> SUFFICES ASSUME NEW a \in Reservations \ {b} PROVE NoticeInv(a)'
  BY DEF NoticesInv
<1>0. NoticeInv(a)
  BY DEF NoticesInv
<1>1. Messaging(a)' /\ HeardRight(a)' /\ InOrder(a)' /\ Parting(a)'
  <2>1. Messaging(a)'
    BY <1>0 DEF NoticeInv, Messaging, Attempted
  <2>2. HeardRight(a)'
    BY <1>0 DEF NoticeInv, HeardRight, Attempted
  <2>3. InOrder(a)' /\ Parting(a)'
    BY <1>0, ZenonT(30) DEF NoticeInv, InOrder, Parting
  <2> QED BY <2>1, <2>2, <2>3
<1>2. RowRight(a)'
  <2>1. \A s : NewRow(a, s)' = NewRow(a, s)
    BY Zenon DEF NewRow
  <2>2. \A i \in DOMAIN sheet : RowsOf(a) = {i} => i \in DOMAIN sheet' /\ sheet'[i] = sheet[i] /\ RowsOf(a)' = {i}
    OBVIOUS
  <2>3. \A s : OneRow(a, s) => OneRow(a, s)'
    BY <2>1, <2>2 DEF OneRow
  <2> QED BY <1>0, <2>3 DEF NoticeInv, RowRight
<1>3. UpdateFound(a)'
  <2>1. Found(a) <=> RowsOf(a) # {}
    BY DEF Found, RowsOf
  <2>2. Found(a)' <=> RowsOf(a)' # {}
    BY DEF Found, RowsOf
  <2> QED BY <1>0, <2>1, <2>2 DEF NoticeInv, UpdateFound
<1> QED BY <1>1, <1>2, <1>3 DEF NoticeInv

\* The phases and counters, as they are used below.
LEMMA NoticeTerms ==
    /\ MaxTries \in Nat /\ MaxTries > 0 /\ Over = MaxTries + 1 /\ Idle = 0
    /\ Idle \in Idle .. Over /\ Over \in Idle .. Over /\ 1 \in Idle .. Over /\ 1 \in 1 .. MaxTries
    /\ Idle \notin 1 .. MaxTries /\ Over \notin 1 .. MaxTries /\ Over # Idle /\ 1 # Over /\ 1 # Idle
    /\ CMail \in Messages /\ CText \in Messages /\ CMail # CText
    /\ \A c \in Channels : /\ <<"confirmed", c>> \in Messages /\ <<"cancelled", c>> \in Messages
                           /\ <<"cancelled", c>> # CMail /\ <<"cancelled", c>> # CText
                           /\ <<"confirmed", c>> \in {CMail, CText}
    /\ "mail" \in Channels /\ "whatsapp" \in Channels
    /\ "PENDING_APPROVAL" \in LedgerStatuses /\ "CONFIRMED" \in LedgerStatuses
BY MaxTriesAssumption DEF Over, Idle, CMail, CText, Messages, Channels, LedgerStatuses

\* One booking's messages, syncs and what its member heard.
LEMMA NoticeRecords ==
    ASSUME NoticesTypeOK, NEW b \in Reservations
    PROVE  /\ \A n \in Messages : sending[b][n] \in Idle .. Over
           /\ \A s \in LedgerStatuses : syncing[b][s] \in Phases
           /\ \A c \in Channels : told[b][c] \in Seq({"confirmed", "cancelled"})
<1>1. /\ sending[b] \in [Messages -> Idle .. Over] /\ told[b] \in [Channels -> Seq({"confirmed", "cancelled"})]
      /\ syncing[b] \in [LedgerStatuses -> Phases]
  BY Zenon DEF NoticesTypeOK
<1> QED BY <1>1

\* The creation starts its sync and nothing else.
LEMMA CreateStep == ASSUME NoticesInv, NEW b \in Reservations, Create(b) PROVE NoticesInv'
<1>1. /\ fate[b] = "none" /\ fate' = [fate EXCEPT ![b] = "pending"]
      /\ syncing' = [syncing EXCEPT ![b]["PENDING_APPROVAL"] = "read"]
      /\ UNCHANGED <<sheet, sending, told, noted, mishaps>>
  BY DEF Create
<1>2. NoticeInv(b) /\ NoticesTypeOK
  BY DEF NoticesInv
<1>3. NoticesTypeOK'
  BY <1>1, <1>2, NoticeTerms, Zenon DEF NoticesTypeOK, Phases
<1>4. /\ fate'[b] = "pending" /\ syncing'[b]["PENDING_APPROVAL"] = "read"
      /\ syncing'[b]["CONFIRMED"] = syncing[b]["CONFIRMED"]
      /\ \A s \in LedgerStatuses : syncing[b][s] = "idle"
      /\ \A m \in Messages : sending[b][m] = Idle
  BY <1>1, <1>2, ZenonT(30) DEF NoticesTypeOK, LedgerStatuses, NoticeInv, Messaging
<1>5. Messaging(b)'
  BY <1>1, <1>2, <1>4, NoticeTerms DEF NoticeInv, Messaging, Attempted
<1>6. HeardRight(b)'
  BY <1>1, <1>2 DEF NoticeInv, HeardRight, Attempted
<1>7. InOrder(b)' /\ Parting(b)'
  BY <1>1, <1>2, <1>4, NoticeTerms, Zenon DEF NoticeInv, InOrder, Parting
<1>8. RowRight(b)' /\ UpdateFound(b)'
  BY <1>1, <1>2, <1>4, NoticeTerms DEF NoticeInv, RowRight, RowsOf, UpdateFound, LedgerStatuses
<1>9. NoticeInv(b)'
  BY <1>5, <1>6, <1>7, <1>8 DEF NoticeInv
<1>10. \A a \in Reservations \ {b} :
         /\ fate'[a] = fate[a] /\ syncing'[a] = syncing[a]
         /\ RowsOf(a)' = RowsOf(a) /\ \A i \in RowsOf(a) : i \in DOMAIN sheet'
  BY <1>1, <1>2, Zenon DEF NoticesTypeOK, RowsOf
<1> QED BY <1>1, <1>3, <1>9, <1>10, OthersKeep

\* The approval starts its mail, of which nothing was heard.
LEMMA ApproveStep == ASSUME NoticesInv, NEW b \in Reservations, ApproveBooking(b) PROVE NoticesInv'
<1>1. /\ fate[b] = "pending" /\ fate' = [fate EXCEPT ![b] = "approved"]
      /\ sending' = [sending EXCEPT ![b][CMail] = 1]
      /\ UNCHANGED <<sheet, syncing, told, noted, mishaps>>
  BY DEF ApproveBooking, CMail
<1>2. NoticeInv(b) /\ NoticesTypeOK
  BY DEF NoticesInv
<1>3. NoticesTypeOK'
  BY <1>1, <1>2, NoticeTerms, Zenon DEF NoticesTypeOK
<1>4. /\ fate'[b] = "approved" /\ sending'[b][CMail] = 1
      /\ \A m \in Messages : m # CMail => sending'[b][m] = sending[b][m]
  BY <1>1, <1>2, NoticeTerms, Zenon DEF NoticesTypeOK
<1>5. /\ \A c \in Channels : Unheard("confirmed", told[b][c]) /\ Unheard("cancelled", told[b][c])
      /\ sending[b][CText] \in {Idle, Over}
  BY <1>1, <1>2, NoticeTerms DEF NoticeInv, Messaging, CText
<1>6. Messaging(b)'
  BY <1>1, <1>2, <1>4, <1>5, NoticeTerms DEF NoticeInv, Messaging, Attempted
<1>7. HeardRight(b)'
  <2>1. CMail[1] = "confirmed" /\ CMail[2] = "mail"
    BY DEF CMail
  <2> QED BY <1>1, <1>2, <1>4, <1>5, <2>1, NoticeTerms DEF NoticeInv, HeardRight, Attempted
<1>8. InOrder(b)' /\ Parting(b)'
  BY <1>1, <1>2, <1>4, <1>5, NoticeTerms, Zenon DEF NoticeInv, InOrder, Parting
<1>9. RowRight(b)' /\ UpdateFound(b)'
  BY <1>1, <1>2, Zenon DEF NoticeInv, RowRight, OneRow, RowsOf, NewRow, UpdateFound, Found
<1>10. NoticeInv(b)'
  BY <1>6, <1>7, <1>8, <1>9 DEF NoticeInv
<1>11. \A a \in Reservations \ {b} :
         /\ fate'[a] = fate[a] /\ sending'[a] = sending[a]
         /\ RowsOf(a)' = RowsOf(a) /\ \A i \in RowsOf(a) : i \in DOMAIN sheet'
  BY <1>1, <1>2, Zenon DEF NoticesTypeOK, RowsOf
<1> QED BY <1>1, <1>3, <1>10, <1>11, OthersKeep

\* The cancellation starts both messages, of which nothing was heard.
LEMMA CancelStep == ASSUME NoticesInv, NEW b \in Reservations, CancelBooking(b) PROVE NoticesInv'
<1> DEFINE CancelMail == <<"cancelled", "mail">>
           CancelText == <<"cancelled", "whatsapp">>
           w == IF fate[b] = "approved" /\ \E c \in Channels : sending[b][<<"confirmed", c>>] # Over THEN {"late"} ELSE {}
<1>1. /\ fate[b] \in {"pending", "approved"} /\ fate' = [fate EXCEPT ![b] = "cancelled"]
      /\ sending' = [sending EXCEPT ![b][CancelMail] = 1, ![b][CancelText] = 1]
      /\ mishaps' = [mishaps EXCEPT ![b] = @ \cup w]
      /\ UNCHANGED <<sheet, syncing, told, noted>>
  BY DEF CancelBooking, Went
<1>2. NoticeInv(b) /\ NoticesTypeOK
  BY DEF NoticesInv
<1>0. /\ CancelMail \in Messages /\ CancelText \in Messages
      /\ CancelMail # CancelText /\ w \subseteq {"late"}
      /\ \A c \in Channels : <<"cancelled", c>> \in {CancelMail, CancelText}
      /\ CancelMail # CMail /\ CancelMail # CText /\ CancelText # CMail /\ CancelText # CText
      /\ \A m \in Messages : m \in {CMail, CText, CancelMail, CancelText}
      /\ CancelMail[1] = "cancelled" /\ CancelText[1] = "cancelled"
      /\ CancelMail[2] \in Channels /\ CancelText[2] \in Channels
  BY DEF Messages, Channels, CMail, CText
<1>w. fate[b] = "approved" /\ "late" \notin w => \A c \in Channels : sending[b][<<"confirmed", c>>] = Over
  BY Zenon
<1> HIDE DEF CancelMail, CancelText, w
<1>3. NoticesTypeOK'
  BY <1>0, <1>1, <1>2, NoticeTerms, Zenon DEF NoticesTypeOK
<1>4. /\ fate'[b] = "cancelled" /\ mishaps'[b] = mishaps[b] \cup w
      /\ sending'[b][CancelMail] = 1 /\ sending'[b][CancelText] = 1
      /\ \A m \in Messages : m \notin {CancelMail, CancelText} => sending'[b][m] = sending[b][m]
  BY <1>0, <1>1, <1>2, Zenon DEF NoticesTypeOK
<1>5. \A c \in Channels : /\ Unheard("cancelled", told[b][c])
                          /\ sending'[b][<<"cancelled", c>>] = 1
                          /\ sending'[b][<<"confirmed", c>>] = sending[b][<<"confirmed", c>>]
  BY <1>0, <1>1, <1>2, <1>4, NoticeTerms, ZenonT(30) DEF NoticeInv, Messaging
<1>6. Messaging(b)'
  <2>1. sending'[b][CMail] = sending[b][CMail] /\ sending'[b][CText] = sending[b][CText]
    BY <1>0, <1>4, NoticeTerms
  <2> QED BY <1>1, <1>2, <1>4, <2>1 DEF NoticeInv, Messaging, Attempted
<1>7. HeardRight(b)'
  <2>1. "lost" \notin mishaps'[b] => "lost" \notin mishaps[b]
    BY <1>4
  <2>2. ASSUME NEW m \in Messages, "lost" \notin mishaps'[b]
        PROVE  HeardOnce(m[1], told[b][m[2]]) /\ (sending'[b][m] \in 1 .. MaxTries => Unheard(m[1], told[b][m[2]]))
    <3>1. CASE m \in {CancelMail, CancelText}
      BY <1>0, <1>2, <1>5, <2>1, <2>2, <3>1, ZenonT(30) DEF NoticeInv, HeardRight
    <3>2. CASE m \notin {CancelMail, CancelText}
      BY <1>2, <1>4, <2>1, <2>2, <3>2 DEF NoticeInv, HeardRight, Attempted
    <3> QED BY <3>1, <3>2
  <2> QED BY <1>1, <2>2 DEF HeardRight, Attempted
<1>8. InOrder(b)'
  <2>1. sending'[b][CMail] = sending[b][CMail] /\ sending'[b][CText] = sending[b][CText]
    BY <1>0, <1>4, NoticeTerms
  <2>2. ({"failed", "unsynced"} \subseteq mishaps'[b]) <=> ({"failed", "unsynced"} \subseteq mishaps[b])
    BY <1>0, <1>4
  <2> QED BY <1>1, <1>2, <1>4, <2>1, <2>2, Zenon DEF NoticeInv, InOrder
<1>9. Parting(b)'
  <2> SUFFICES ASSUME mishaps'[b] \cap {"late", "failed"} = {}
               PROVE  \A c \in Channels : sending[b][<<"confirmed", c>>] \in {Idle, Over}
    BY <1>5, NoticeTerms DEF Parting
  <2>1. CASE fate[b] = "pending"
    BY <1>2, <2>1, Zenon DEF NoticeInv, Messaging
  <2>2. CASE fate[b] = "approved"
    BY <1>4, <1>w, <2>2, Zenon
  <2> QED BY <1>1, <2>1, <2>2, Zenon
<1>10. RowRight(b)' /\ UpdateFound(b)'
  <2>1. mishaps'[b] \cap {"overlap", "unsynced"} = {} => mishaps[b] \cap {"overlap", "unsynced"} = {}
    BY <1>4
  <2>2. RowRight(b)'
    BY <1>1, <1>2, <2>1, ZenonT(30) DEF NoticeInv, RowRight, OneRow, RowsOf, NewRow
  <2> QED BY <1>1, <1>2, <2>2 DEF NoticeInv, UpdateFound, Found
<1>11. NoticeInv(b)'
  BY <1>6, <1>7, <1>8, <1>9, <1>10 DEF NoticeInv
<1>12. \A a \in Reservations \ {b} :
         /\ fate'[a] = fate[a] /\ sending'[a] = sending[a] /\ mishaps'[a] = mishaps[a]
         /\ RowsOf(a)' = RowsOf(a) /\ \A i \in RowsOf(a) : i \in DOMAIN sheet'
  BY <1>1, <1>2, Zenon DEF NoticesTypeOK, RowsOf
<1> QED BY <1>1, <1>3, <1>11, <1>12, OthersKeep

\* An attempt at a message may be heard, and is tried again or settled; settling
\* the mail of an approval starts its message, and settling that its sync.
LEMMA AttemptStep ==
    ASSUME NoticesInv, NEW b \in Reservations, NEW m \in Messages, Attempted(b, m),
           NEW heard \in BOOLEAN, NEW outcome \in {"sent", "failed"}, NEW w \in SUBSET {"lost", "failed"},
           UNCHANGED <<fate, sheet>>,
           mishaps' = [mishaps EXCEPT ![b] = @ \cup w],
           heard => Arrives(b, m), ~heard => told' = told,
           \/ /\ sending[b][m] < MaxTries /\ sending' = [sending EXCEPT ![b][m] = @ + 1]
              /\ UNCHANGED <<noted, syncing>>
              /\ heard => "lost" \in w
           \/ /\ Settled(b, m, outcome)
              /\ ~heard => "failed" \in w
              /\ IF outcome = "sent" THEN heard ELSE w # {}
    PROVE  NoticesInv'
<1> DEFINE k == m[1]
           c == m[2]
           Again == /\ sending[b][m] < MaxTries /\ sending' = [sending EXCEPT ![b][m] = @ + 1]
                    /\ UNCHANGED <<noted, syncing>>
                    /\ heard => "lost" \in w
           Done0 == /\ Settled(b, m, outcome)
                    /\ ~heard => "failed" \in w
                    /\ IF outcome = "sent" THEN heard ELSE w # {}
<1>0. Again \/ Done0
  OBVIOUS
<1>k. k \in {"confirmed", "cancelled"} /\ c \in Channels /\ m = <<k, c>>
  BY DEF Messages
<1>2. NoticeInv(b) /\ NoticesTypeOK
  BY DEF NoticesInv
<1>at. sending[b][m] \in 1 .. MaxTries /\ sending[b][m] # Over /\ sending[b][m] # Idle
  BY NoticeTerms DEF Attempted
<1> HIDE DEF Again, Done0, k, c
\* What is sent: the message itself, and what follows it.
<1>3. /\ sending' \in [Reservations -> [Messages -> Idle .. Over]]
      /\ \A a \in Reservations \ {b} : sending'[a] = sending[a]
      /\ \A n \in Messages : n # m /\ ~(n = CText /\ m = CMail /\ Done0) => sending'[b][n] = sending[b][n]
      /\ Again => sending'[b][m] \in 1 .. MaxTries
      /\ Done0 => sending'[b][m] = Over /\ (m = CMail => sending'[b][CText] = 1)
  <2>1. CASE Again
    <3>1. sending' = [sending EXCEPT ![b][m] = @ + 1] /\ sending[b][m] + 1 \in 1 .. MaxTries
          /\ sending[b][m] + 1 \in Idle .. Over
      BY <1>at, <2>1, NoticeTerms DEF Again
    <3>2. ~(m = CMail /\ Done0) \/ Done0
      OBVIOUS
    <3>3. Done0 => FALSE
      <4>1. Done0 => sending'[b][m] = Over
        <5> SUFFICES ASSUME Done0 PROVE sending'[b][m] = Over
          OBVIOUS
        <5>1. sending' = [sending EXCEPT ![b] = [n \in Messages |-> IF n = m THEN Over
                                                           ELSE IF Follows(n, m) THEN 1 ELSE @[n]]]
          BY DEF Done0, Settled
        <5> QED BY <1>2, <5>1, Zenon DEF NoticesTypeOK
      <4>2. sending'[b][m] = sending[b][m] + 1
        BY <1>2, <3>1, Zenon DEF NoticesTypeOK
      <4> QED BY <3>1, <4>1, <4>2, NoticeTerms
    <3> QED BY <1>2, <3>1, <3>3, Zenon DEF NoticesTypeOK
  <2>2. CASE ~Again
    <3>1. Done0
      BY <1>0, <2>2
    <3>2. sending' = [sending EXCEPT ![b] = [n \in Messages |-> IF n = m THEN Over
                                                       ELSE IF n = CText /\ m = CMail THEN 1 ELSE sending[b][n]]]
      <4>1. sending' = [sending EXCEPT ![b] = [n \in Messages |-> IF n = m THEN Over
                                                       ELSE IF Follows(n, m) THEN 1 ELSE @[n]]]
        BY <3>1 DEF Done0, Settled
      <4>2. \A n \in Messages : Follows(n, m) <=> (n = CText /\ m = CMail)
        BY DEF Follows, CMail, CText
      <4> QED BY <1>2, <4>1, <4>2, Zenon DEF NoticesTypeOK
    <3>3. [n \in Messages |-> IF n = m THEN Over ELSE IF n = CText /\ m = CMail THEN 1 ELSE sending[b][n]]
            \in [Messages -> Idle .. Over]
      <4>1. \A n \in Messages : sending[b][n] \in Idle .. Over
        BY <1>2, NoticeRecords
      <4> QED BY <4>1, NoticeTerms
    <3> QED BY <1>2, <2>2, <3>1, <3>2, <3>3, NoticeTerms, Zenon DEF NoticesTypeOK
  <2> QED BY <2>1, <2>2
\* What is noted: the outcome of the approval's WhatsApp message.
<1>4. /\ noted' \in [Reservations -> {"", "sent", "failed"}] /\ syncing' \in [Reservations -> [LedgerStatuses -> Phases]]
      /\ \A a \in Reservations \ {b} : noted'[a] = noted[a] /\ syncing'[a] = syncing[a]
      /\ syncing'[b]["PENDING_APPROVAL"] = syncing[b]["PENDING_APPROVAL"]
      /\ ~(Done0 /\ m = CText) => UNCHANGED <<noted, syncing>>
      /\ Done0 /\ m = CText => noted'[b] = outcome /\ syncing'[b]["CONFIRMED"] = "read"
  <2>1. CASE Done0 /\ m = CText
    <3>1. noted' = [noted EXCEPT ![b] = outcome] /\ syncing' = [syncing EXCEPT ![b]["CONFIRMED"] = "read"]
      BY <2>1 DEF Done0, Settled, Closes, CText
    <3> QED BY <1>2, <2>1, <3>1, NoticeTerms, Zenon DEF NoticesTypeOK, Phases
  <2>2. CASE ~(Done0 /\ m = CText)
    <3>1. UNCHANGED <<noted, syncing>>
      BY <1>0, <2>2 DEF Done0, Again, Settled, Closes, CText
    <3> QED BY <1>2, <2>2, <3>1, Zenon DEF NoticesTypeOK
  <2> QED BY <2>1, <2>2, Zenon
\* What is heard.
<1>5. /\ told' \in [Reservations -> [Channels -> Seq({"confirmed", "cancelled"})]]
      /\ \A a \in Reservations \ {b} : told'[a] = told[a]
      /\ \A d \in Channels : d # c => told'[b][d] = told[b][d]
      /\ ~heard => told' = told
      /\ heard => /\ told'[b][c] # <<>> /\ told'[b][c][Len(told'[b][c])] = k
                  /\ Unheard(k, told[b][c]) => HeardOnce(k, told'[b][c])
      /\ \A x : x # k => /\ Unheard(x, told[b][c]) => Unheard(x, told'[b][c])
                         /\ HeardOnce(x, told[b][c]) => HeardOnce(x, told'[b][c])
  <2>1. CASE heard
    <3>1. told' = [told EXCEPT ![b][c] = Append(@, k)]
      BY <2>1 DEF Arrives, k, c
    <3>2. told[b][c] \in Seq({"confirmed", "cancelled"})
      BY <1>2, <1>k, NoticeRecords
    <3> DEFINE more == Append(told[b][c], k)
    <3>3. /\ more \in Seq({"confirmed", "cancelled"}) /\ more # <<>> /\ more[Len(more)] = k
          /\ \A x : /\ Unheard(x, told[b][c]) /\ k # x => Unheard(x, more)
                    /\ Unheard(x, told[b][c]) => HeardOnce(x, more)
                    /\ HeardOnce(x, told[b][c]) /\ k # x => HeardOnce(x, more)
      BY <1>k, <3>2, OneMoreHeard
    <3> HIDE DEF more
    <3>4. told' = [told EXCEPT ![b][c] = more]
      BY <3>1 DEF more
    <3>5. told'[b][c] = more
      BY <1>2, <1>k, <3>4, ZenonT(30) DEF NoticesTypeOK
    <3> QED BY <1>2, <1>k, <2>1, <3>3, <3>4, <3>5, Zenon DEF NoticesTypeOK
  <2>2. CASE ~heard
    BY <1>2, <2>2, Zenon DEF NoticesTypeOK
  <2> QED BY <2>1, <2>2
<1>6. /\ mishaps'[b] = mishaps[b] \cup w
      /\ \A a \in Reservations \ {b} : mishaps'[a] = mishaps[a]
      /\ mishaps' \in [Reservations -> SUBSET {"overlap", "lost", "failed", "unsynced", "late"}]
  BY <1>2, Zenon DEF NoticesTypeOK
<1>7. NoticesTypeOK'
  BY <1>2, <1>3, <1>4, <1>5, <1>6, Zenon DEF NoticesTypeOK
<1>d. /\ Done0 => (~heard => "failed" \in w) /\ (outcome = "sent" => heard) /\ (outcome = "failed" => w # {})
      /\ Again /\ heard => "lost" \in w
  BY DEF Done0, Again
<1>f. fate'[b] = fate[b] /\ fate[b] \in {"none", "pending", "approved", "cancelled"}
  BY <1>2, Zenon DEF NoticesTypeOK
<1>r. fate[b] # "none"
  BY <1>2, <1>at DEF NoticeInv, Messaging
<1>c. k = "cancelled" => fate[b] = "cancelled" /\ m # CMail /\ m # CText
  BY <1>2, <1>k, <1>at, NoticeTerms DEF NoticeInv, Messaging
<1>e. k = "confirmed" => fate[b] \in {"approved", "cancelled"} /\ m \in {CMail, CText}
  BY <1>2, <1>f, <1>k, <1>at, NoticeTerms DEF NoticeInv, Messaging
<1>m. (m = CMail => c = "mail" /\ k = "confirmed") /\ (m = CText => c = "whatsapp" /\ k = "confirmed")
  BY DEF CMail, CText, k, c
<1>8. Messaging(b)'
  <2>1. fate'[b] # "none" => syncing'[b]["PENDING_APPROVAL"] # "idle"
    BY <1>2, <1>4, <1>f, Zenon DEF NoticeInv, Messaging
  <2>2. ASSUME fate'[b] # "cancelled", NEW d \in Channels
        PROVE  sending'[b][<<"cancelled", d>>] \in {Idle, Over} /\ Unheard("cancelled", told'[b][d])
    <3>1. k = "confirmed"
      BY <1>c, <1>f, <1>k, <2>2
    <3>2. sending'[b][<<"cancelled", d>>] = sending[b][<<"cancelled", d>>]
      BY <1>3, <1>e, <3>1, NoticeTerms
    <3>3. Unheard("cancelled", told[b][d]) => Unheard("cancelled", told'[b][d])
      BY <1>5, <3>1
    <3> QED BY <1>2, <1>f, <2>2, <3>2, <3>3 DEF NoticeInv, Messaging
  <2>3. fate'[b] \notin {"none", "pending"}
    BY <1>c, <1>e, <1>f, <1>k
  <2>4. ASSUME sending'[b][CMail] \in 1 .. MaxTries
        PROVE  sending'[b][CText] \in {Idle, Over} /\ Unheard("confirmed", told'[b]["whatsapp"])
    <3>1. sending[b][CMail] \in 1 .. MaxTries /\ ~(m = CMail /\ Done0)
      BY <1>3, <1>at, <2>4, NoticeTerms
    <3>2. sending[b][CText] \in {Idle, Over} /\ Unheard("confirmed", told[b]["whatsapp"])
      BY <1>2, <3>1 DEF NoticeInv, Messaging, Attempted
    <3>3. m # CText
      BY <1>at, <3>2
    <3>4. sending'[b][CText] = sending[b][CText]
      BY <1>3, <3>1, <3>3, NoticeTerms
    <3>5. Unheard("confirmed", told'[b]["whatsapp"])
      <4>1. CASE k = "confirmed"
        BY <1>5, <1>e, <1>m, <3>2, <3>3, <4>1, NoticeTerms
      <4>2. CASE k = "cancelled"
        BY <1>5, <3>2, <4>2, NoticeTerms
      <4> QED BY <1>k, <4>1, <4>2
    <3> QED BY <3>2, <3>4, <3>5
  <2>5. noted'[b] = "sent" => told'[b]["whatsapp"] # <<>>
    <3>1. told[b]["whatsapp"] # <<>> => told'[b]["whatsapp"] # <<>>
      BY <1>5, NoticeTerms
    <3>2. CASE Done0 /\ m = CText
      BY <1>4, <1>5, <1>d, <1>m, <3>2, Zenon
    <3>3. CASE ~(Done0 /\ m = CText)
      BY <1>2, <1>4, <3>1, <3>3, Zenon DEF NoticeInv, Messaging
    <3> QED BY <3>2, <3>3
  <2>6. noted'[b] = "failed" => mishaps'[b] \cap {"lost", "failed"} # {}
    <3>1. CASE Done0 /\ m = CText
      BY <1>4, <1>6, <1>d, <3>1, Zenon
    <3>2. CASE ~(Done0 /\ m = CText)
      BY <1>2, <1>4, <1>6, <3>2, Zenon DEF NoticeInv, Messaging
    <3> QED BY <3>1, <3>2
  <2> QED BY <1>r, <1>f, <2>1, <2>2, <2>3, <2>4, <2>5, <2>6 DEF Messaging, Attempted
<1>9. HeardRight(b)'
  <2> SUFFICES ASSUME "lost" \notin mishaps'[b], NEW n \in Messages
               PROVE  /\ HeardOnce(n[1], told'[b][n[2]])
                      /\ sending'[b][n] \in 1 .. MaxTries => Unheard(n[1], told'[b][n[2]])
    BY DEF HeardRight, Attempted
  <2>1. \A x \in Messages : /\ HeardOnce(x[1], told[b][x[2]])
                            /\ sending[b][x] \in 1 .. MaxTries => Unheard(x[1], told[b][x[2]])
    BY <1>2, <1>6 DEF NoticeInv, HeardRight, Attempted
  <2>2. heard => Done0
    BY <1>0, <1>6, <1>d
  <2>3. Unheard(k, told[b][c])
    BY <1>at, <2>1 DEF k, c
  <2>4. CASE n = m
    <3>1. n[1] = k /\ n[2] = c
      BY <2>4 DEF k, c
    <3>2. CASE heard
      BY <1>3, <1>5, <2>2, <2>3, <2>4, <3>1, <3>2, NoticeTerms
    <3>3. CASE ~heard
      BY <1>5, <2>1, <2>3, <3>1, <3>3
    <3> QED BY <3>2, <3>3
  <2>5. CASE n # m
    <3>1. n[1] \in {"confirmed", "cancelled"} /\ n[2] \in Channels /\ n = <<n[1], n[2]>>
      BY DEF Messages
    <3>2. n[2] # c \/ n[1] # k
      BY <1>k, <2>5, <3>1
    <3>3. /\ HeardOnce(n[1], told[b][n[2]]) => HeardOnce(n[1], told'[b][n[2]])
          /\ Unheard(n[1], told[b][n[2]]) => Unheard(n[1], told'[b][n[2]])
      BY <1>5, <3>1, <3>2
    <3>4. CASE n = CText /\ m = CMail /\ Done0
      <4>1. Unheard("confirmed", told[b]["whatsapp"])
        BY <1>2, <1>at, <3>4 DEF NoticeInv, Messaging, Attempted
      <4>2. n[1] = "confirmed" /\ n[2] = "whatsapp"
        BY <3>4 DEF CText
      <4> QED BY <2>1, <3>3, <4>1, <4>2
    <3>5. CASE ~(n = CText /\ m = CMail /\ Done0)
      BY <1>3, <2>1, <2>5, <3>3, <3>5
    <3> QED BY <3>4, <3>5
  <2> QED BY <2>4, <2>5
<1>10. InOrder(b)'
  <2> SUFFICES ASSUME ~({"failed", "unsynced"} \subseteq mishaps'[b])
               PROVE  /\ fate'[b] \in {"none", "pending"} => sending'[b][CMail] = Idle
                      /\ sending'[b][CMail] # Over => sending'[b][CText] = Idle
                      /\ sending'[b][CMail] = Over => sending'[b][CText] # Idle
                      /\ sending'[b][CText] = Over <=> syncing'[b]["CONFIRMED"] # "idle"
                      /\ syncing'[b]["CONFIRMED"] # "idle" => noted'[b] # ""
    BY Zenon DEF InOrder
  <2>1. /\ sending[b][CMail] # Over => sending[b][CText] = Idle
        /\ sending[b][CMail] = Over => sending[b][CText] # Idle
        /\ sending[b][CText] = Over <=> syncing[b]["CONFIRMED"] # "idle"
        /\ syncing[b]["CONFIRMED"] # "idle" => noted[b] # ""
    BY <1>2, <1>6, Zenon DEF NoticeInv, InOrder
  <2>0. fate'[b] \notin {"none", "pending"}
    BY <1>c, <1>e, <1>f, <1>k
  <2>2. CASE m = CMail /\ Done0
    <3>1. sending'[b][CMail] = Over /\ sending'[b][CText] = 1 /\ sending[b][CText] = Idle
      BY <1>3, <1>at, <2>1, <2>2, Zenon
    <3> QED BY <1>4, <2>0, <2>1, <2>2, <3>1, NoticeTerms, Zenon
  <2>3. CASE m = CMail /\ ~Done0
    <3>1. sending'[b][CMail] \in 1 .. MaxTries /\ sending'[b][CText] = sending[b][CText] /\ sending[b][CText] = Idle
      BY <1>0, <1>3, <1>at, <2>1, <2>3, NoticeTerms, Zenon
    <3> QED BY <1>4, <2>0, <2>1, <2>3, <3>1, NoticeTerms, Zenon
  <2>4. CASE m = CText /\ Done0
    <3>1. sending'[b][CText] = Over /\ sending'[b][CMail] = sending[b][CMail] /\ sending[b][CMail] = Over
      BY <1>3, <1>at, <2>1, <2>4, NoticeTerms, Zenon
    <3>2. syncing'[b]["CONFIRMED"] = "read" /\ noted'[b] = outcome
      BY <1>4, <2>4, Zenon
    <3> QED BY <2>0, <3>1, <3>2, NoticeTerms, Zenon
  <2>5. CASE m = CText /\ ~Done0
    <3>1. sending'[b][CText] \in 1 .. MaxTries /\ sending'[b][CMail] = sending[b][CMail] /\ sending[b][CMail] = Over
      BY <1>0, <1>3, <1>at, <2>1, <2>5, NoticeTerms, Zenon
    <3> QED BY <1>4, <1>at, <2>0, <2>1, <2>5, <3>1, NoticeTerms, Zenon
  <2>6. CASE m \notin {CMail, CText}
    <3>1. sending'[b][CText] = sending[b][CText] /\ sending'[b][CMail] = sending[b][CMail]
      BY <1>3, <2>6, NoticeTerms
    <3> QED BY <1>4, <2>0, <2>1, <2>6, <3>1, Zenon
  <2> QED BY <2>2, <2>3, <2>4, <2>5, <2>6, Zenon
<1>11. Parting(b)'
  <2> SUFFICES ASSUME fate[b] = "cancelled", mishaps'[b] \cap {"late", "failed"} = {}
               PROVE  /\ \A d \in Channels : sending'[b][<<"confirmed", d>>] \in {Idle, Over}
                      /\ \A d \in Channels :
                            /\ sending'[b][<<"cancelled", d>>] # Idle
                            /\ sending'[b][<<"cancelled", d>>] = Over =>
                                  told'[b][d] # <<>> /\ told'[b][d][Len(told'[b][d])] = "cancelled"
    BY <1>f DEF Parting
  <2>1. /\ \A d \in Channels : sending[b][<<"confirmed", d>>] \in {Idle, Over}
        /\ \A d \in Channels :
              /\ sending[b][<<"cancelled", d>>] # Idle
              /\ sending[b][<<"cancelled", d>>] = Over =>
                    told[b][d] # <<>> /\ told[b][d][Len(told[b][d])] = "cancelled"
    BY <1>2, <1>6 DEF NoticeInv, Parting
  <2>2. k = "cancelled" /\ m # CMail /\ m # CText
    BY <1>c, <1>k, <1>at, <2>1
  <2>3. ASSUME NEW d \in Channels PROVE sending'[b][<<"confirmed", d>>] \in {Idle, Over}
    BY <1>3, <2>1, <2>2, <2>3, NoticeTerms, ZenonT(30)
  <2>4. ASSUME NEW d \in Channels, d # c
        PROVE  sending'[b][<<"cancelled", d>>] = sending[b][<<"cancelled", d>>] /\ told'[b][d] = told[b][d]
    <3>1. <<"cancelled", d>> # m
      BY <1>k, <2>4
    <3> QED BY <1>3, <1>5, <2>2, <2>4, <3>1, NoticeTerms
  <2>5. <<"cancelled", c>> = m /\ sending'[b][m] # Idle
    BY <1>0, <1>3, <1>k, <2>2, NoticeTerms
  <2>6. ASSUME sending'[b][m] = Over PROVE told'[b][c] # <<>> /\ told'[b][c][Len(told'[b][c])] = "cancelled"
    <3>1. Done0
      BY <1>0, <1>3, <2>6, NoticeTerms
    <3>2. heard
      BY <1>6, <1>d, <3>1
    <3> QED BY <1>5, <2>2, <3>2
  <2> QED BY <2>1, <2>3, <2>4, <2>5, <2>6
<1>12. RowRight(b)'
  <2>1. mishaps'[b] \cap {"overlap", "unsynced"} = {} => mishaps[b] \cap {"overlap", "unsynced"} = {}
    BY <1>6
  <2>2. CASE ~(Done0 /\ m = CText)
    BY <1>2, <1>4, <2>1, <2>2, ZenonT(30) DEF NoticeInv, RowRight, OneRow, RowsOf, NewRow
  <2>3. CASE Done0 /\ m = CText
    <3>1. mishaps[b] \cap {"overlap", "unsynced"} = {} => syncing[b]["CONFIRMED"] = "idle"
      BY <1>2, <1>at, <2>3, Zenon DEF NoticeInv, InOrder
    <3>2. syncing'[b]["CONFIRMED"] = "read" /\ syncing'[b]["PENDING_APPROVAL"] = syncing[b]["PENDING_APPROVAL"]
      BY <1>4, <2>3, Zenon
    <3>3. OneRow(b, "PENDING_APPROVAL")' <=> OneRow(b, "PENDING_APPROVAL")
      BY DEF OneRow, NewRow, RowsOf
    <3>4. RowsOf(b)' = RowsOf(b)
      BY DEF RowsOf
    <3> QED BY <1>2, <2>1, <3>1, <3>2, <3>3, <3>4 DEF NoticeInv, RowRight
  <2> QED BY <2>2, <2>3
<1>13. UpdateFound(b)'
  <2>1. ASSUME NEW s \in LedgerStatuses, syncing'[b][s] = "update" PROVE syncing[b][s] = "update"
    BY <1>4, <2>1, NoticeTerms, Zenon DEF LedgerStatuses
  <2> QED BY <1>2, <2>1 DEF NoticeInv, UpdateFound, Found
<1>14. NoticeInv(b)'
  BY <1>8, <1>9, <1>10, <1>11, <1>12, <1>13 DEF NoticeInv
<1>15. \A a \in Reservations \ {b} : /\ fate'[a] = fate[a] /\ RowsOf(a)' = RowsOf(a)
                                     /\ \A i \in RowsOf(a) : i \in DOMAIN sheet' /\ sheet'[i] = sheet[i]
  BY DEF RowsOf
<1> QED BY <1>3, <1>4, <1>5, <1>6, <1>7, <1>14, <1>15, OthersKeep, ZenonT(30)

\* An update goes to the first row of the booking, where there is one.
LEMMA FirstIs ==
    ASSUME NoticesTypeOK, NEW b, Found(b)
    PROVE  FirstOf(b) \in DOMAIN sheet /\ sheet[FirstOf(b)].ref = b
<1> DEFINE S == RowsOf(b)
<1>1. S \subseteq Nat /\ S # {} /\ DOMAIN sheet = 1 .. Len(sheet) /\ Len(sheet) \in Nat
  <2>0. sheet \in Seq(SheetRow)
    BY Zenon DEF NoticesTypeOK
  <2>1. DOMAIN sheet = 1 .. Len(sheet) /\ Len(sheet) \in Nat
    BY <2>0
  <2>2. S # {}
    BY DEF Found, RowsOf
  <2> QED BY <2>1, <2>2 DEF RowsOf
<1>2. PICK t \in S : \A u \in S : ~(<<u, t>> \in OpToRel(<, Nat))
  BY <1>1, NatLessThanWellFounded, WFMin, Zenon
<1>3. \A j \in 1 .. t - 1 : j \notin S
  <2> SUFFICES ASSUME NEW j \in 1 .. t - 1, j \in S PROVE FALSE
    OBVIOUS
  <2>1. j \in Nat /\ t \in Nat /\ j < t
    BY <1>1
  <2> QED BY <1>2, <2>1 DEF OpToRel
<1>4. t \in DOMAIN sheet /\ sheet[t].ref = b /\ \A j \in 1 .. t - 1 : sheet[j].ref # b
  <2>1. t \in DOMAIN sheet /\ sheet[t].ref = b
    BY <1>2, Zenon DEF RowsOf
  <2>2. \A j \in 1 .. t - 1 : j \in DOMAIN sheet
    BY <1>1, <2>1
  <2> QED BY <1>3, <2>1, <2>2 DEF RowsOf
<1> QED BY <1>4 DEF FirstOf

\* A sync that reads the sheet decides by what is there; one that fails is over.
LEMMA SyncMoves ==
    ASSUME NoticesInv, NEW b \in Reservations, NEW s \in LedgerStatuses, Under(b, s),
           NEW next \in {"update", "append", "over"}, NEW w \in SUBSET {"overlap", "unsynced"},
           syncing' = [syncing EXCEPT ![b][s] = next],
           mishaps' = [mishaps EXCEPT ![b] = @ \cup w],
           UNCHANGED <<fate, sheet, sending, told, noted>>,
           RowRight(b)', next = "update" => Found(b)
    PROVE  NoticesInv'
<1>2. NoticeInv(b) /\ NoticesTypeOK
  BY DEF NoticesInv
<1>3. NoticesTypeOK'
  BY <1>2, Zenon DEF NoticesTypeOK, Phases
<1>4. /\ mishaps'[b] = mishaps[b] \cup w /\ syncing'[b][s] = next
      /\ \A r \in LedgerStatuses : r # s => syncing'[b][r] = syncing[b][r]
      /\ \A a \in Reservations \ {b} : mishaps'[a] = mishaps[a] /\ syncing'[a] = syncing[a]
  BY <1>2, Zenon DEF NoticesTypeOK
<1>5. /\ fate[b] # "none" /\ syncing[b][s] # "idle" /\ syncing'[b][s] # "idle"
      /\ \A r \in LedgerStatuses : syncing'[b][r] = "idle" <=> syncing[b][r] = "idle"
  BY <1>2, <1>4 DEF Under, NoticeInv, Messaging
<1>6. Messaging(b)'
  <2>1. mishaps[b] \cap {"lost", "failed"} # {} => mishaps'[b] \cap {"lost", "failed"} # {}
    BY <1>4
  <2> QED BY <1>2, <1>5, <2>1, NoticeTerms DEF NoticeInv, Messaging, Attempted
<1>7. HeardRight(b)'
  BY <1>2, <1>4 DEF NoticeInv, HeardRight, Attempted
<1>8. InOrder(b)'
  <2>1. ~({"failed", "unsynced"} \subseteq mishaps'[b]) => ~({"failed", "unsynced"} \subseteq mishaps[b])
    BY <1>4
  <2> QED BY <1>2, <1>5, <2>1, NoticeTerms, Zenon DEF NoticeInv, InOrder
<1>9. Parting(b)'
  <2>1. mishaps'[b] \cap {"late", "failed"} = {} => mishaps[b] \cap {"late", "failed"} = {}
    BY <1>4
  <2> QED BY <1>2, <2>1 DEF NoticeInv, Parting
<1>10. UpdateFound(b)'
  BY <1>2, <1>4 DEF NoticeInv, UpdateFound, Found
<1>11. NoticeInv(b)'
  BY <1>6, <1>7, <1>8, <1>9, <1>10 DEF NoticeInv
<1>12. \A a \in Reservations \ {b} : /\ RowsOf(a)' = RowsOf(a)
                                     /\ \A i \in RowsOf(a) : i \in DOMAIN sheet'
  BY DEF RowsOf
<1> QED BY <1>3, <1>4, <1>11, <1>12, OthersKeep

\* The creation's sync finds no row; the approval's finds it, unless they met.
LEMMA SheetReadStep ==
    ASSUME NoticesInv, NEW b \in Reservations, NEW s \in LedgerStatuses, SheetRead(b, s) PROVE NoticesInv'
<1> DEFINE next == IF Found(b) THEN "update" ELSE "append"
           w == IF \E o \in LedgerStatuses \ {s} : Under(b, o) THEN {"overlap"} ELSE {}
<1>1. /\ syncing[b][s] = "read" /\ syncing' = [syncing EXCEPT ![b][s] = next]
      /\ mishaps' = [mishaps EXCEPT ![b] = @ \cup w]
      /\ UNCHANGED <<fate, sheet, sending, told, noted>>
  BY DEF SheetRead, Went
<1>2. NoticeInv(b) /\ NoticesTypeOK
  BY DEF NoticesInv
<1>3. /\ next \in {"update", "append", "over"} /\ w \in SUBSET {"overlap", "unsynced"} /\ (next = "update" <=> Found(b))
      /\ next \in {"update", "append"}
      /\ "overlap" \notin w => \A o \in LedgerStatuses : o # s => ~Under(b, o)
  OBVIOUS
<1> HIDE DEF next, w
<1>4. /\ mishaps'[b] = mishaps[b] \cup w /\ syncing'[b][s] = next
      /\ \A r \in LedgerStatuses : r # s => syncing'[b][r] = syncing[b][r]
  BY <1>1, <1>2, Zenon DEF NoticesTypeOK
<1>5. /\ RowsOf(b)' = RowsOf(b) /\ (RowsOf(b) # {} <=> Found(b))
      /\ \A r : OneRow(b, r)' <=> OneRow(b, r)
  BY <1>1 DEF RowsOf, Found, OneRow, NewRow
<1>6. RowRight(b)'
  <2> SUFFICES ASSUME mishaps'[b] \cap {"overlap", "unsynced"} = {} PROVE RowRight(b)'
    BY DEF RowRight
  <2>1. mishaps[b] \cap {"overlap", "unsynced"} = {} /\ "overlap" \notin w
    BY <1>4
  <2>2. fate[b] # "none" /\ syncing[b]["PENDING_APPROVAL"] # "idle"
    BY <1>1, <1>2 DEF NoticeInv, Messaging
  <2>3. \A o \in LedgerStatuses : o # s => syncing[b][o] \in {"idle", "over"}
    BY <1>2, <1>3, <2>1, NoticeRecords DEF Under, Phases
  <2>4. CASE s = "PENDING_APPROVAL"
    <3>1. RowsOf(b) = {} /\ syncing[b]["CONFIRMED"] \in {"idle", "read"}
      BY <1>1, <1>2, <2>1, <2>4 DEF NoticeInv, RowRight
    <3>2. next = "append" /\ syncing'[b]["CONFIRMED"] = syncing[b]["CONFIRMED"]
      BY <1>3, <1>4, <1>5, <2>4, <3>1, NoticeTerms
    <3> QED BY <1>4, <1>5, <2>4, <3>1, <3>2 DEF RowRight
  <2>5. CASE s = "CONFIRMED"
    <3>1. syncing[b]["PENDING_APPROVAL"] = "over"
      BY <2>2, <2>3, <2>5, NoticeTerms
    <3>2. OneRow(b, "PENDING_APPROVAL")
      BY <1>1, <1>2, <2>1, <2>5, <3>1 DEF NoticeInv, RowRight
    <3>3. next = "update" /\ syncing'[b]["PENDING_APPROVAL"] = "over" /\ syncing'[b]["CONFIRMED"] = "update"
      BY <1>3, <1>4, <1>5, <2>5, <3>1, <3>2, NoticeTerms DEF OneRow
    <3> QED BY <1>5, <3>2, <3>3 DEF RowRight
  <2> QED BY <2>4, <2>5 DEF LedgerStatuses
<1>7. Under(b, s)
  BY <1>1 DEF Under
<1> QED BY <1>1, <1>3, <1>6, <1>7, SyncMoves

\* A sync that fails leaves the rows and says so.
LEMMA SheetFailsStep ==
    ASSUME NoticesInv, NEW b \in Reservations, NEW s \in LedgerStatuses, SheetFails(b, s) PROVE NoticesInv'
<1>1. /\ Under(b, s) /\ syncing' = [syncing EXCEPT ![b][s] = "over"]
      /\ mishaps' = [mishaps EXCEPT ![b] = @ \cup {"unsynced"}]
      /\ UNCHANGED <<fate, sheet, sending, told, noted>>
  BY DEF SheetFails, Went
<1>2. "unsynced" \in mishaps'[b]
  BY <1>1, Zenon DEF NoticesInv, NoticesTypeOK
<1>3. RowRight(b)'
  BY <1>2 DEF RowRight
<1> QED BY <1>1, <1>3, SyncMoves

\* A row that is written is the booking's: the first there was, or a new one.
LEMMA UpsertStep ==
    ASSUME NoticesInv, NEW b \in Reservations, NEW s \in LedgerStatuses, UpsertByRef(b, s) PROVE NoticesInv'
<1> DEFINE row == NewRow(b, s)
<1>1. /\ \/ syncing[b][s] = "update" /\ sheet' = [sheet EXCEPT ![FirstOf(b)] = row]
         \/ syncing[b][s] = "append" /\ sheet' = Append(sheet, row)
      /\ syncing' = [syncing EXCEPT ![b][s] = "over"]
      /\ UNCHANGED <<fate, sending, told, noted, mishaps>>
  BY DEF UpsertByRef
<1>2. NoticeInv(b) /\ NoticesTypeOK
  BY DEF NoticesInv
<1>3. row \in SheetRow /\ row.ref = b
  BY <1>2, Zenon DEF NewRow, SheetRow, NoticesTypeOK
<1>4. sheet \in Seq(SheetRow) /\ Len(sheet) \in Nat /\ DOMAIN sheet = 1 .. Len(sheet)
  <2>1. sheet \in Seq(SheetRow)
    BY <1>2, Zenon DEF NoticesTypeOK
  <2> QED BY <2>1
<1> HIDE DEF row
<1>5. PICK i \in Nat : /\ DOMAIN sheet' = DOMAIN sheet \cup {i} /\ sheet'[i] = row /\ sheet' \in Seq(SheetRow)
                       /\ \A j \in DOMAIN sheet : j # i => sheet'[j] = sheet[j]
                       /\ syncing[b][s] = "update" => i \in RowsOf(b)
                       /\ syncing[b][s] = "append" => i \notin DOMAIN sheet
                       /\ i \in DOMAIN sheet => i \in RowsOf(b)
  <2>1. CASE syncing[b][s] = "update" /\ sheet' = [sheet EXCEPT ![FirstOf(b)] = row]
    <3>1. Found(b)
      BY <1>2, <2>1 DEF NoticeInv, UpdateFound
    <3>2. FirstOf(b) \in DOMAIN sheet /\ sheet[FirstOf(b)].ref = b
      BY <1>2, <3>1, FirstIs
    <3> WITNESS FirstOf(b) \in Nat
    <3> QED BY <1>3, <1>4, <2>1, <3>2 DEF RowsOf
  <2>2. CASE syncing[b][s] = "append" /\ sheet' = Append(sheet, row)
    <3> WITNESS Len(sheet) + 1 \in Nat
    <3>1. /\ Append(sheet, row) \in Seq(SheetRow) /\ DOMAIN Append(sheet, row) = 1 .. Len(sheet) + 1
          /\ Append(sheet, row)[Len(sheet) + 1] = row
          /\ \A j \in 1 .. Len(sheet) : Append(sheet, row)[j] = sheet[j]
      BY <1>3, <1>4
    <3> QED BY <1>4, <2>2, <3>1
  <2> QED BY <1>1, <2>1, <2>2
<1>6. /\ RowsOf(b)' = RowsOf(b) \cup {i}
      /\ \A a \in Reservations \ {b} : RowsOf(a)' = RowsOf(a) /\ \A j \in RowsOf(a) : j \in DOMAIN sheet' /\ sheet'[j] = sheet[j]
  <2>1. RowsOf(b)' = RowsOf(b) \cup {i}
    <3>1. \A j \in RowsOf(b) : j \in DOMAIN sheet' /\ sheet'[j].ref = b
      BY <1>3, <1>5 DEF RowsOf
    <3>2. i \in DOMAIN sheet' /\ sheet'[i].ref = b
      BY <1>3, <1>5
    <3>3. \A j \in DOMAIN sheet' : sheet'[j].ref = b => j = i \/ j \in RowsOf(b)
      BY <1>5 DEF RowsOf
    <3> QED BY <3>1, <3>2, <3>3 DEF RowsOf
  <2>2. ASSUME NEW a \in Reservations \ {b}
        PROVE  RowsOf(a)' = RowsOf(a) /\ \A j \in RowsOf(a) : j \in DOMAIN sheet' /\ sheet'[j] = sheet[j]
    <3>1. \A j \in RowsOf(a) : j # i /\ j \in DOMAIN sheet' /\ sheet'[j] = sheet[j]
      BY <1>5 DEF RowsOf
    <3>2. \A j \in DOMAIN sheet' : sheet'[j].ref = a => j # i /\ j \in DOMAIN sheet /\ sheet'[j] = sheet[j]
      BY <1>3, <1>5
    <3> QED BY <3>1, <3>2 DEF RowsOf
  <2> QED BY <2>1, <2>2
<1>7. NoticesTypeOK'
  BY <1>1, <1>2, <1>5, Zenon DEF NoticesTypeOK, Phases
<1>8. /\ syncing'[b][s] = "over" /\ \A r \in LedgerStatuses : r # s => syncing'[b][r] = syncing[b][r]
      /\ \A a \in Reservations \ {b} : syncing'[a] = syncing[a]
  BY <1>1, <1>2, Zenon DEF NoticesTypeOK
<1>9. /\ fate[b] # "none" /\ syncing[b][s] # "idle"
      /\ \A r \in LedgerStatuses : syncing'[b][r] = "idle" <=> syncing[b][r] = "idle"
  BY <1>1, <1>2, <1>8 DEF NoticeInv, Messaging
<1>10. Messaging(b)' /\ HeardRight(b)' /\ InOrder(b)' /\ Parting(b)'
  <2>1. Messaging(b)'
    BY <1>1, <1>2, <1>9, NoticeTerms DEF NoticeInv, Messaging, Attempted
  <2>2. HeardRight(b)'
    BY <1>1, <1>2 DEF NoticeInv, HeardRight, Attempted
  <2>3. InOrder(b)' /\ Parting(b)'
    BY <1>1, <1>2, <1>9, NoticeTerms, Zenon DEF NoticeInv, InOrder, Parting
  <2> QED BY <2>1, <2>2, <2>3
<1>11. UpdateFound(b)'
  <2>1. Found(b)'
    BY <1>3, <1>5 DEF Found
  <2> QED BY <2>1 DEF UpdateFound
<1>12. RowRight(b)'
  <2> SUFFICES ASSUME mishaps[b] \cap {"overlap", "unsynced"} = {} PROVE RowRight(b)'
    BY <1>1 DEF RowRight
  <2>1. NewRow(b, s)' = NewRow(b, s)
    BY <1>1 DEF NewRow
  <2>2. RowsOf(b) \subseteq {i} => OneRow(b, s)'
    <3> SUFFICES ASSUME RowsOf(b) \subseteq {i} PROVE OneRow(b, s)'
      OBVIOUS
    <3>1. RowsOf(b)' = {i} /\ i \in DOMAIN sheet' /\ sheet'[i] = NewRow(b, s)
      BY <1>5, <1>6 DEF row
    <3> QED BY <2>1, <3>1 DEF OneRow
  <2>3. CASE s = "PENDING_APPROVAL"
    <3>1. RowsOf(b) = {} /\ syncing[b]["CONFIRMED"] \in {"idle", "read"}
      BY <1>1, <1>2, <2>3 DEF NoticeInv, RowRight
    <3>2. syncing'[b]["PENDING_APPROVAL"] = "over" /\ syncing'[b]["CONFIRMED"] = syncing[b]["CONFIRMED"]
      BY <1>8, <2>3, NoticeTerms
    <3> QED BY <2>2, <2>3, <3>1, <3>2 DEF RowRight
  <2>4. CASE s = "CONFIRMED"
    <3>1. syncing[b]["PENDING_APPROVAL"] = "over"
      BY <1>1, <1>2, <2>4 DEF NoticeInv, RowRight
    <3>2. syncing[b]["CONFIRMED"] = "update" /\ OneRow(b, "PENDING_APPROVAL")
      BY <1>1, <1>2, <2>4, <3>1 DEF NoticeInv, RowRight
    <3>3. RowsOf(b) \subseteq {i}
      BY <1>5, <2>4, <3>2 DEF OneRow
    <3>4. syncing'[b]["PENDING_APPROVAL"] = "over" /\ syncing'[b]["CONFIRMED"] = "over"
      BY <1>8, <2>4, <3>1, NoticeTerms
    <3> QED BY <2>2, <2>4, <3>3, <3>4 DEF RowRight
  <2> QED BY <2>3, <2>4 DEF LedgerStatuses
<1>13. NoticeInv(b)'
  BY <1>10, <1>11, <1>12 DEF NoticeInv
<1> QED BY <1>1, <1>6, <1>7, <1>8, <1>13, OthersKeep

\* A crash leaves nothing under way, and says so.
LEMMA NoticesLostStep == ASSUME NoticesInv, NEW b \in Reservations, NoticesLost(b) PROVE NoticesInv'
<1>1. /\ \/ \E s \in LedgerStatuses : Under(b, s)
         \/ \E m \in Messages : Attempted(b, m)
      /\ syncing' = [syncing EXCEPT ![b] = [s \in LedgerStatuses |-> "over"]]
      /\ sending' = [sending EXCEPT ![b] = [m \in Messages |-> Over]]
      /\ mishaps' = [mishaps EXCEPT ![b] = @ \cup {"failed", "unsynced"}]
      /\ UNCHANGED <<fate, sheet, told, noted>>
  BY DEF NoticesLost, Went
<1>2. NoticeInv(b) /\ NoticesTypeOK
  BY DEF NoticesInv
<1>3. NoticesTypeOK'
  <2>1. /\ [s \in LedgerStatuses |-> "over"] \in [LedgerStatuses -> Phases]
        /\ [m \in Messages |-> Over] \in [Messages -> Idle .. Over]
    BY NoticeTerms DEF Phases
  <2> QED BY <1>1, <1>2, <2>1, Zenon DEF NoticesTypeOK
<1>4. /\ mishaps'[b] = mishaps[b] \cup {"failed", "unsynced"}
      /\ \A r \in LedgerStatuses : syncing'[b][r] = "over"
      /\ \A m \in Messages : sending'[b][m] = Over
      /\ \A a \in Reservations \ {b} : mishaps'[a] = mishaps[a] /\ syncing'[a] = syncing[a] /\ sending'[a] = sending[a]
  BY <1>1, <1>2, Zenon DEF NoticesTypeOK
<1>5. fate[b] # "none"
  BY <1>1, <1>2, NoticeTerms DEF NoticeInv, Messaging, Under, Attempted
<1>6. Messaging(b)'
  BY <1>1, <1>2, <1>4, <1>5, NoticeTerms DEF NoticeInv, Messaging, Attempted
<1>7. HeardRight(b)'
  BY <1>1, <1>2, <1>4, NoticeTerms DEF NoticeInv, HeardRight, Attempted
<1>8. InOrder(b)' /\ Parting(b)' /\ RowRight(b)' /\ UpdateFound(b)'
  BY <1>4, NoticeTerms DEF InOrder, Parting, RowRight, UpdateFound
<1>9. NoticeInv(b)'
  BY <1>6, <1>7, <1>8 DEF NoticeInv
<1>10. \A a \in Reservations \ {b} : /\ RowsOf(a)' = RowsOf(a)
                                     /\ \A i \in RowsOf(a) : i \in DOMAIN sheet'
  BY <1>1 DEF RowsOf
<1> QED BY <1>1, <1>3, <1>4, <1>9, <1>10, OthersKeep

\* What becomes of an attempt is one of the ways above.
LEMMA MessageStep ==
    ASSUME NoticesInv, NEW b \in Reservations, NEW m \in Messages,
           Delivered(b, m) \/ SendRefused(b, m) \/ SendUnanswered(b, m)
    PROVE  NoticesInv'
<1>1. CASE Delivered(b, m)
  <2>1. mishaps' = [mishaps EXCEPT ![b] = @ \cup {}]
    BY <1>1, Zenon DEF Delivered, NoticesInv, NoticesTypeOK
  <2>2. Attempted(b, m) /\ Arrives(b, m) /\ Settled(b, m, "sent") /\ UNCHANGED <<fate, sheet>>
    BY <1>1 DEF Delivered
  <2> QED BY <2>1, <2>2, AttemptStep
<1>2. CASE SendRefused(b, m)
  <2>1. /\ Attempted(b, m) /\ UNCHANGED <<fate, sheet, told>>
        /\ \/ sending[b][m] < MaxTries /\ sending' = [sending EXCEPT ![b][m] = @ + 1] /\ UNCHANGED <<noted, syncing>>
              /\ mishaps' = [mishaps EXCEPT ![b] = @ \cup {}]
           \/ Settled(b, m, "failed") /\ mishaps' = [mishaps EXCEPT ![b] = @ \cup {"failed"}]
    BY <1>2 DEF SendRefused, Tries, Retried, Went
  <2>2. CASE /\ sending[b][m] < MaxTries /\ sending' = [sending EXCEPT ![b][m] = @ + 1] /\ UNCHANGED <<noted, syncing>>
             /\ mishaps' = [mishaps EXCEPT ![b] = @ \cup {}]
    BY <2>1, <2>2, AttemptStep
  <2>3. CASE Settled(b, m, "failed") /\ mishaps' = [mishaps EXCEPT ![b] = @ \cup {"failed"}]
    <3>1. PICK w \in SUBSET {"lost", "failed"} :
              "failed" \in w /\ w # {} /\ mishaps' = [mishaps EXCEPT ![b] = @ \cup w]
      <4> WITNESS {"failed"} \in SUBSET {"lost", "failed"}
      <4> QED BY <2>3
    <3> QED BY <2>1, <2>3, <3>1, AttemptStep
  <2> QED BY <2>1, <2>2, <2>3
<1>3. CASE SendUnanswered(b, m)
  <2>1. /\ Attempted(b, m) /\ Arrives(b, m) /\ UNCHANGED <<fate, sheet>>
        /\ mishaps' = [mishaps EXCEPT ![b] = @ \cup {"lost"}]
        /\ \/ sending[b][m] < MaxTries /\ sending' = [sending EXCEPT ![b][m] = @ + 1] /\ UNCHANGED <<noted, syncing>>
           \/ Settled(b, m, "failed")
    BY <1>3 DEF SendUnanswered, Tries, Retried, Went
  <2>2. PICK w \in SUBSET {"lost", "failed"} :
            "lost" \in w /\ w # {} /\ mishaps' = [mishaps EXCEPT ![b] = @ \cup w]
    <3> WITNESS {"lost"} \in SUBSET {"lost", "failed"}
    <3> QED BY <2>1
  <2>0. PICK heard \in BOOLEAN : heard
    OBVIOUS
  <2>3. CASE sending[b][m] < MaxTries /\ sending' = [sending EXCEPT ![b][m] = @ + 1] /\ UNCHANGED <<noted, syncing>>
    BY <2>0, <2>1, <2>2, <2>3, AttemptStep
  <2>4. CASE Settled(b, m, "failed")
    BY <2>0, <2>1, <2>2, <2>4, AttemptStep
  <2> QED BY <2>1, <2>3, <2>4
<1> QED BY <1>1, <1>2, <1>3

\* Every commit, answer, sync and crash keeps the invariant.
LEMMA NoticesStep == NoticesInv /\ [NoticesNext]_noticeVars => NoticesInv'
<1> SUFFICES ASSUME NoticesInv, [NoticesNext]_noticeVars PROVE NoticesInv'
  OBVIOUS
<1>1. CASE UNCHANGED noticeVars
  <2>1. NoticesTypeOK'
    BY <1>1, Zenon DEF noticeVars, NoticesInv, NoticesTypeOK
  <2>2. ASSUME NEW b \in Reservations PROVE NoticeInv(b)'
    <3>1. NoticeInv(b)
      BY DEF NoticesInv
    <3>2. Messaging(b)' /\ HeardRight(b)'
      BY <1>1, <3>1 DEF noticeVars, NoticeInv, Messaging, HeardRight, Attempted
    <3>3. InOrder(b)' /\ Parting(b)'
      BY <1>1, <3>1, Zenon DEF noticeVars, NoticeInv, InOrder, Parting
    <3>4. RowRight(b)' /\ UpdateFound(b)'
      BY <1>1, <3>1, Zenon DEF noticeVars, NoticeInv, RowRight, OneRow, RowsOf, NewRow, UpdateFound, Found
    <3> QED BY <3>2, <3>3, <3>4 DEF NoticeInv
  <2> QED BY <2>1, <2>2 DEF NoticesInv
<1> QED BY <1>1, CreateStep, ApproveStep, CancelStep, NoticesLostStep, MessageStep, SheetReadStep, UpsertStep,
          SheetFailsStep DEF NoticesNext

\* What was heard at one place at most counts at most once.
LEMMA OnceCounted == ASSUME NEW S, NEW seq \in Seq(S), NEW k, HeardOnce(k, seq) PROVE Count(k, seq) <= 1
<1> DEFINE heard == {i \in DOMAIN seq : seq[i] = k}
<1>1. CASE heard = {}
  <2>1. Cardinality(heard) = 0
    BY <1>1, FS_EmptySet
  <2> QED BY <2>1 DEF Count
<1>2. ASSUME NEW i \in heard PROVE Cardinality(heard) = 1
  <2>1. heard = {i}
    BY DEF HeardOnce
  <2> QED BY <2>1, FS_Singleton
<1> QED BY <1>1, <1>2 DEF Count

\* A booking's one row says what its sync wrote.
LEMMA RowSays ==
    ASSUME NEW b, NEW s, OneRow(b, s)
    PROVE  \E i \in DOMAIN sheet : /\ RowsOf(b) = {i} /\ sheet[i].status = s
                                   /\ s # "CONFIRMED" => sheet[i].channel # "sent"
                                   /\ s = "CONFIRMED" => sheet[i].channel = noted[b]
<1>1. NewRow(b, s).status = s
  BY DEF NewRow
<1>2. s # "CONFIRMED" => NewRow(b, s).channel # "sent"
  <2>1. s # "CONFIRMED" => NewRow(b, s).channel = ""
    BY Zenon DEF NewRow
  <2>2. "" # "sent"
    BY Zenon
  <2> QED BY <2>1, <2>2, Zenon
<1>3. s = "CONFIRMED" => NewRow(b, s).channel = noted[b]
  BY DEF NewRow
<1> QED BY <1>1, <1>2, <1>3 DEF OneRow

\* When nothing is under way, what the invariant says of the ends is left.
LEMMA NoticesTell == NoticesInv => NoticesAreTrue
<1> SUFFICES ASSUME NoticesInv PROVE NoticesAreTrue
  OBVIOUS
<1>1. SheetIsTrue
  <2> SUFFICES ASSUME NEW b \in Reservations, Quiet(b), mishaps[b] \cap {"overlap", "unsynced"} = {}
               PROVE  /\ Cardinality(RowsOf(b)) = IF fate[b] = "none" THEN 0 ELSE 1
                      /\ \A i \in RowsOf(b) :
                            /\ sheet[i].status = "CONFIRMED" <=> syncing[b]["CONFIRMED"] = "over"
                            /\ sheet[i].channel = "sent" => told[b]["whatsapp"] # <<>>
                            /\ sheet[i].status = "CONFIRMED" /\ sheet[i].channel # "sent" => mishaps[b] \cap {"lost", "failed"} # {}
    BY DEF SheetIsTrue
  <2>1. NoticeInv(b) /\ NoticesTypeOK
    BY DEF NoticesInv
  <2>2. \A s \in LedgerStatuses : syncing[b][s] \in {"idle", "over"}
    BY <2>1, NoticeRecords DEF Quiet, Under, Phases
  <2>3. CASE fate[b] = "none"
    <3>1. RowsOf(b) = {}
      BY <2>1, <2>3, NoticeTerms DEF NoticeInv, Messaging, RowRight
    <3> QED BY <2>3, <3>1, FS_EmptySet
  <2>4. CASE fate[b] # "none"
    <3>1. syncing[b]["PENDING_APPROVAL"] = "over" /\ syncing[b]["CONFIRMED"] \in {"idle", "over"}
      BY <2>1, <2>2, <2>4, NoticeTerms DEF NoticeInv, Messaging
    <3>2. CASE syncing[b]["CONFIRMED"] = "over"
      <4>1. OneRow(b, "CONFIRMED")
        BY <2>1, <3>1, <3>2 DEF NoticeInv, RowRight
      <4>2. PICK i \in DOMAIN sheet : RowsOf(b) = {i} /\ sheet[i] = NewRow(b, "CONFIRMED")
        BY <4>1 DEF OneRow
      <4>3. sheet[i].status = "CONFIRMED" /\ sheet[i].channel = noted[b]
        BY <4>2 DEF NewRow
      <4>4. noted[b] \in {"sent", "failed"}
        BY <2>1, <3>2, Zenon DEF NoticeInv, InOrder, NoticesTypeOK
      <4>5. Cardinality(RowsOf(b)) = 1
        BY <4>2, FS_Singleton
      <4> QED BY <2>1, <2>4, <3>2, <4>2, <4>3, <4>4, <4>5 DEF NoticeInv, Messaging
    <3>3. CASE syncing[b]["CONFIRMED"] = "idle"
      <4>1. OneRow(b, "PENDING_APPROVAL")
        BY <2>1, <3>1, <3>3 DEF NoticeInv, RowRight
      <4>2. PICK i \in DOMAIN sheet : RowsOf(b) = {i} /\ sheet[i].status = "PENDING_APPROVAL" /\ sheet[i].channel # "sent"
        <5>1. "PENDING_APPROVAL" # "CONFIRMED"
          OBVIOUS
        <5> QED BY <4>1, <5>1, RowSays
      <4>5. Cardinality(RowsOf(b)) = 1
        BY <4>2, FS_Singleton
      <4> QED BY <2>4, <3>3, <4>2, <4>5
    <3> QED BY <3>1, <3>2, <3>3
  <2> QED BY <2>3, <2>4
<1>2. LastWordHolds
  <2> SUFFICES ASSUME NEW b \in Reservations, NEW c \in Channels
               PROVE  /\ fate[b] = "cancelled" /\ Quiet(b) /\ mishaps[b] \cap {"late", "failed"} = {} =>
                            told[b][c] # <<>> /\ told[b][c][Len(told[b][c])] = "cancelled"
                      /\ "lost" \notin mishaps[b] => \A m \in {"confirmed", "cancelled"} : Count(m, told[b][c]) <= 1
    BY DEF LastWordHolds
  <2>1. NoticeInv(b) /\ NoticesTypeOK
    BY DEF NoticesInv
  <2>2. ASSUME fate[b] = "cancelled", Quiet(b), mishaps[b] \cap {"late", "failed"} = {}
        PROVE  told[b][c] # <<>> /\ told[b][c][Len(told[b][c])] = "cancelled"
    <3>1. sending[b][<<"cancelled", c>>] \in Idle .. Over
      BY <2>1, NoticeRecords, NoticeTerms
    <3>2. sending[b][<<"cancelled", c>>] \notin 1 .. MaxTries
      BY <2>2, NoticeTerms DEF Quiet, Attempted
    <3>3. sending[b][<<"cancelled", c>>] # Idle
      BY <2>1, <2>2 DEF NoticeInv, Parting
    <3>4. sending[b][<<"cancelled", c>>] = Over
      BY <3>1, <3>2, <3>3, NoticeTerms
    <3> QED BY <2>1, <2>2, <3>4 DEF NoticeInv, Parting
  <2>3. ASSUME "lost" \notin mishaps[b], NEW k \in {"confirmed", "cancelled"} PROVE Count(k, told[b][c]) <= 1
    <3>1. told[b][c] \in Seq({"confirmed", "cancelled"})
      BY <2>1, NoticeRecords
    <3>2. <<k, c>> \in Messages
      BY DEF Messages
    <3>3. HeardOnce(k, told[b][c])
      BY <2>1, <2>3, <3>2 DEF NoticeInv, HeardRight
    <3> QED BY <3>1, <3>3, OnceCounted
  <2> QED BY <2>2, <2>3
<1> QED BY <1>1, <1>2 DEF NoticesAreTrue

\* Once nothing of a booking is under way, the sheet has its row in the state it
\* was left in, and the last a member hears of a cancelled booking is that it is,
\* unless a message or a sync failed or two crossed.
THEOREM NoticesHold == NoticesInit /\ [][NoticesNext]_noticeVars => []NoticesAreTrue
<1>1. NoticesInit /\ [][NoticesNext]_noticeVars => []NoticesInv
  BY NoticesStart, NoticesStep, PTL
<1> QED BY <1>1, NoticesTell, PTL
==============================================================================
