----------------------------- MODULE TotalProofs -----------------------------
(***************************************************************************)
(* What Total computes, for every finite set and every function to the     *)
(* naturals on it.  The library defines the fold by recursion over the     *)
(* subsets of the set; that a function satisfying the recursion exists, is *)
(* the only one, and does not depend on the order in which the elements    *)
(* are chosen is proved here, by induction on the number of elements.      *)
(***************************************************************************)
EXTENDS Totals, Integers, FiniteSetTheorems, WellFoundedInduction, TLAPS

\* Induction, as a fact about a set of numbers.
LEMMA EveryNumber ==
    ASSUME NEW G, 0 \in G, \A n \in Nat : n \in G => n + 1 \in G
    PROVE  Nat \subseteq G
<1> SUFFICES ASSUME Nat \ G # {} PROVE FALSE
  OBVIOUS
<1>1. PICK m \in Nat \ G : \A k \in Nat \ G : ~(<<k, m>> \in OpToRel(<, Nat))
  BY NatLessThanWellFounded, WFMin
<1>2. m - 1 \in Nat /\ m - 1 < m
  OBVIOUS
<1>3. m - 1 \in G
  <2>1. <<m - 1, m>> \in OpToRel(<, Nat)
    BY <1>2 DEF OpToRel
  <2>2. QED
    BY <1>1, <1>2, <2>1
<1>4. QED
  BY <1>2, <1>3

-----------------------------------------------------------------------------
(* The recursion *)

AnyOf(s) == CHOOSE x \in s : TRUE

\* g adds f up over every subset of S, one chosen element after another.
SumStep(f, g, s) == IF s = {} THEN 0 ELSE f[AnyOf(s)] + g[s \ {AnyOf(s)}]
Adds(f, S, g) == g = [s \in SUBSET S |-> SumStep(f, g, s)]

LEMMA ChosenTotal ==
    ASSUME NEW S, NEW f
    PROVE  Total(S, f) = (CHOOSE g : Adds(f, S, g))[S]
BY DEF Total, MapThenSumSet, MapThenFoldSet, Adds, SumStep, AnyOf

LEMMA AnyIs == ASSUME NEW s, s # {} PROVE AnyOf(s) \in s
BY DEF AnyOf

\* One element less.
LEMMA OneLess ==
    ASSUME NEW s, IsFiniteSet(s), NEW x \in s
    PROVE  /\ IsFiniteSet(s \ {x}) /\ Cardinality(s) \in Nat /\ Cardinality(s) > 0
           /\ Cardinality(s \ {x}) = Cardinality(s) - 1
<1>1. /\ IsFiniteSet(s \ {x}) /\ Cardinality(s \ {x}) = Cardinality(s) - 1
  BY FS_RemoveElement
<1>2. Cardinality(s) \in Nat /\ Cardinality(s \ {x}) \in Nat
  BY <1>1, FS_CardinalityType
<1>3. QED
  BY <1>1, <1>2

\* Such a g exists: it is built for ever larger subsets.
LEMMA AddsExists ==
    ASSUME NEW S, IsFiniteSet(S), NEW f
    PROVE  \E g : Adds(f, S, g)
<1> DEFINE Upto(n, g) == \A s \in SUBSET S : Cardinality(s) <= n => g[s] = SumStep(f, g, s)
           G == {n \in Nat : \E g : Upto(n, g)}
<1>0. \A s \in SUBSET S : IsFiniteSet(s) /\ Cardinality(s) \in Nat /\ (Cardinality(s) = 0 <=> s = {})
  BY FS_Subset, FS_CardinalityType, FS_EmptySet
<1>1. 0 \in G
  <2>1. \A s \in SUBSET S : Cardinality(s) <= 0 => s = {}
    BY <1>0
  <2>2. Upto(0, [s \in SUBSET S |-> 0])
    BY <2>1 DEF SumStep
  <2>3. QED
    BY <2>2
<1>2. ASSUME NEW n \in Nat, n \in G PROVE n + 1 \in G
  <2>1. PICK g : Upto(n, g)
    BY <1>2
  <2> DEFINE h == [s \in SUBSET S |-> IF Cardinality(s) <= n THEN g[s] ELSE SumStep(f, g, s)]
  <2>2. ASSUME NEW s \in SUBSET S, Cardinality(s) <= n + 1
        PROVE  h[s] = SumStep(f, h, s)
    <3>1. CASE s = {}
      <4>1. Cardinality(s) <= n
        BY <1>0, <3>1
      <4>2. h[s] = g[s] /\ g[s] = SumStep(f, g, s)
        BY <2>1, <4>1
      <4>3. QED
        BY <3>1, <4>2 DEF SumStep
    <3>2. CASE s # {}
      <4> DEFINE t == s \ {AnyOf(s)}
      <4>1. AnyOf(s) \in s /\ t \in SUBSET S
        BY <3>2, AnyIs
      <4>2. Cardinality(t) = Cardinality(s) - 1 /\ Cardinality(s) \in Nat
        BY <1>0, <4>1, OneLess
      <4>3. h[t] = g[t]
        BY <2>2, <4>1, <4>2
      <4>4. SumStep(f, h, s) = SumStep(f, g, s)
        BY <3>2, <4>3 DEF SumStep
      <4>5. h[s] = SumStep(f, g, s)
        BY <2>1
      <4>6. QED
        BY <4>4, <4>5
    <3>3. QED
      BY <3>1, <3>2
  <2>3. Upto(n + 1, h)
    BY <2>2
  <2> HIDE DEF h, Upto
  <2>4. \E a : Upto(n + 1, a)
    BY <2>3
  <2>5. QED
    BY <2>4
<1>3. Cardinality(S) \in G
  <2> HIDE DEF G
  <2>1. Nat \subseteq G
    BY <1>1, <1>2, EveryNumber
  <2>2. QED
    BY <1>0, <2>1
<1>4. PICK g : Upto(Cardinality(S), g)
  BY <1>3
<1>5. \A s \in SUBSET S : g[s] = SumStep(f, g, s)
  BY <1>0, <1>4, FS_Subset
<1> DEFINE h == [s \in SUBSET S |-> g[s]]
<1>6. \A s \in SUBSET S : h[s] = SumStep(f, h, s)
  BY <1>5, AnyIs DEF SumStep
<1>7. Adds(f, S, h)
  BY <1>6 DEF Adds
<1>8. QED
  BY <1>7

\* And it is the only one, on every subset that two of them share.
LEMMA AddsOnce ==
    ASSUME NEW S, IsFiniteSet(S), NEW T \in SUBSET S, NEW f, NEW g, NEW h, Adds(f, S, g), Adds(f, T, h)
    PROVE  \A s \in SUBSET T : g[s] = h[s]
<1> DEFINE G == {n \in Nat : \A s \in SUBSET T : Cardinality(s) = n => g[s] = h[s]}
<1>0. \A s \in SUBSET T : /\ IsFiniteSet(s) /\ Cardinality(s) \in Nat /\ (Cardinality(s) = 0 <=> s = {})
                          /\ g[s] = SumStep(f, g, s) /\ h[s] = SumStep(f, h, s)
  <2>1. \A s \in SUBSET T : IsFiniteSet(s) /\ Cardinality(s) \in Nat /\ (Cardinality(s) = 0 <=> s = {})
    BY FS_Subset, FS_CardinalityType, FS_EmptySet
  <2>2. g = [s \in SUBSET S |-> SumStep(f, g, s)] /\ h = [s \in SUBSET T |-> SumStep(f, h, s)]
    BY DEF Adds
  <2>3. \A s \in SUBSET T : g[s] = SumStep(f, g, s) /\ h[s] = SumStep(f, h, s)
    BY <2>2
  <2>4. QED
    BY <2>1, <2>3
<1>1. 0 \in G
  BY <1>0 DEF SumStep
<1>2. ASSUME NEW n \in Nat, n \in G PROVE n + 1 \in G
  <2> SUFFICES ASSUME NEW s \in SUBSET T, Cardinality(s) = n + 1
               PROVE  g[s] = h[s]
    OBVIOUS
  <2>1. s # {}
    BY <1>0
  <2>2. s \ {AnyOf(s)} \in SUBSET T /\ Cardinality(s \ {AnyOf(s)}) = n
    BY <1>0, <2>1, AnyIs, OneLess
  <2>3. g[s \ {AnyOf(s)}] = h[s \ {AnyOf(s)}]
    BY <1>2, <2>2
  <2>4. QED
    BY <1>0, <2>1, <2>3 DEF SumStep
<1>3. Nat \subseteq G
  <2> HIDE DEF G
  <2>1. QED
    BY <1>1, <1>2, EveryNumber
<1>4. QED
  BY <1>0, <1>3

-----------------------------------------------------------------------------
(* Total *)

LEMMA TotalEmpty == ASSUME NEW f PROVE Total({}, f) = 0
<1>1. \E g : Adds(f, {}, g)
  BY AddsExists, FS_EmptySet
<1>2. Adds(f, {}, CHOOSE g : Adds(f, {}, g))
  BY <1>1
<1>3. QED
  BY <1>2, ChosenTotal DEF Adds, SumStep

\* The chosen element and the rest.
LEMMA TotalChosen ==
    ASSUME NEW S, IsFiniteSet(S), S # {}, NEW f
    PROVE  Total(S, f) = f[AnyOf(S)] + Total(S \ {AnyOf(S)}, f)
<1> DEFINE T == S \ {AnyOf(S)}
           g == CHOOSE a : Adds(f, S, a)
           h == CHOOSE a : Adds(f, T, a)
<1>1. T \in SUBSET S /\ IsFiniteSet(T) /\ S # {}
  BY FS_Subset
<1>2. Adds(f, S, g)
  <2>1. \E a : Adds(f, S, a)
    BY AddsExists
  <2>2. QED
    BY <2>1
<1>3. Adds(f, T, h)
  <2> HIDE DEF T
  <2>1. \E a : Adds(f, T, a)
    BY <1>1, AddsExists
  <2>2. QED
    BY <2>1
<1>4. g[T] = h[T]
  <2> HIDE DEF T, g, h
  <2>1. QED
    BY <1>1, <1>2, <1>3, AddsOnce
<1>5. Total(S, f) = g[S] /\ Total(T, f) = h[T]
  BY ChosenTotal
<1>6. g[S] = f[AnyOf(S)] + g[T]
  <2>1. g = [s \in SUBSET S |-> SumStep(f, g, s)]
    BY <1>2 DEF Adds
  <2> HIDE DEF g
  <2>2. g[S] = SumStep(f, g, S)
    BY <2>1
  <2>3. QED
    BY <2>2 DEF SumStep
<1>7. QED
  BY <1>4, <1>5, <1>6

\* Induction over the subsets of a finite set, as a fact about a set of them.
LEMMA EverySubset ==
    ASSUME NEW S, IsFiniteSet(S), NEW G, {} \in G,
           \A T \in SUBSET S : T # {} /\ (\A y \in T : T \ {y} \in G) => T \in G
    PROVE  SUBSET S \subseteq G
<1> DEFINE N == {n \in Nat : \A T \in SUBSET S : Cardinality(T) = n => T \in G}
<1>0. \A T \in SUBSET S : IsFiniteSet(T) /\ Cardinality(T) \in Nat /\ (Cardinality(T) = 0 <=> T = {})
  BY FS_Subset, FS_CardinalityType, FS_EmptySet
<1>1. 0 \in N
  BY <1>0
<1>2. ASSUME NEW n \in Nat, n \in N PROVE n + 1 \in N
  <2> SUFFICES ASSUME NEW T \in SUBSET S, Cardinality(T) = n + 1
               PROVE  T \in G
    OBVIOUS
  <2>1. \A y \in T : T \ {y} \in SUBSET S /\ Cardinality(T \ {y}) = n
    BY <1>0, OneLess
  <2>2. T # {}
    BY <1>0
  <2>3. QED
    BY <1>2, <2>1, <2>2
<1>3. Nat \subseteq N
  <2> HIDE DEF N
  <2>1. QED
    BY <1>1, <1>2, EveryNumber
<1>4. QED
  BY <1>0, <1>3

\* Any element and the rest: the order of adding does not matter.
LEMMA TotalTakes ==
    ASSUME NEW S, IsFiniteSet(S), NEW f \in [S -> Nat]
    PROVE  \A T \in SUBSET S :
               Total(T, f) \in Nat /\ \A y \in T : Total(T, f) = f[y] + Total(T \ {y}, f)
<1>0. \A T \in SUBSET S : IsFiniteSet(T)
  BY FS_Subset
<1>1. \A T \in SUBSET S : T # {} => AnyOf(T) \in T /\ Total(T, f) = f[AnyOf(T)] + Total(T \ {AnyOf(T)}, f)
  BY <1>0, AnyIs, TotalChosen
<1>2. \A T \in SUBSET S : Total(T, f) \in Nat
  <2> DEFINE G == {T \in SUBSET S : Total(T, f) \in Nat}
  <2>1. {} \in G
    BY TotalEmpty
  <2>2. ASSUME NEW T \in SUBSET S, T # {}, \A y \in T : T \ {y} \in G PROVE T \in G
    <3>1. AnyOf(T) \in T /\ Total(T, f) = f[AnyOf(T)] + Total(T \ {AnyOf(T)}, f)
      BY <1>1, <2>2
    <3>2. f[AnyOf(T)] \in Nat /\ Total(T \ {AnyOf(T)}, f) \in Nat
      BY <2>2, <3>1
    <3>3. QED
      BY <3>1, <3>2
  <2> HIDE DEF G
  <2>3. SUBSET S \subseteq G
    BY <2>1, <2>2, EverySubset
  <2>4. QED
    BY <2>3 DEF G
<1>3. \A T \in SUBSET S : \A y \in T : Total(T, f) = f[y] + Total(T \ {y}, f)
  <2> DEFINE G == {T \in SUBSET S : \A y \in T : Total(T, f) = f[y] + Total(T \ {y}, f)}
  <2>1. {} \in G
    OBVIOUS
  <2>2. ASSUME NEW T \in SUBSET S, T # {}, \A y \in T : T \ {y} \in G PROVE T \in G
    <3> SUFFICES ASSUME NEW y \in T PROVE Total(T, f) = f[y] + Total(T \ {y}, f)
      OBVIOUS
    <3> DEFINE c == AnyOf(T)
               U == (T \ {c}) \ {y}
    <3>1. c \in T /\ Total(T, f) = f[c] + Total(T \ {c}, f)
      BY <1>1, <2>2
    <3> HIDE DEF c
    <3>2. CASE y = c
      BY <3>1, <3>2
    <3>3. CASE y # c
      <4>1. Total(T \ {c}, f) = f[y] + Total(U, f)
        BY <2>2, <3>1, <3>3
      <4>2. Total(T \ {y}, f) = f[c] + Total((T \ {y}) \ {c}, f)
        BY <2>2, <3>1, <3>3
      <4>3. (T \ {y}) \ {c} = U
        OBVIOUS
      <4>4. f[c] \in Nat /\ f[y] \in Nat /\ Total(U, f) \in Nat
        BY <1>2, <3>1
      <4> HIDE DEF U
      <4>5. Total(T \ {y}, f) = f[c] + Total(U, f)
        BY <4>2, <4>3
      <4>6. QED
        BY <3>1, <4>1, <4>4, <4>5
    <3>4. QED
      BY <3>2, <3>3
  <2> HIDE DEF G
  <2>3. SUBSET S \subseteq G
    BY <2>1, <2>2, EverySubset
  <2>4. QED
    BY <2>3 DEF G
<1>4. QED
  BY <1>2, <1>3

LEMMA TotalType ==
    ASSUME NEW S, IsFiniteSet(S), NEW f \in [S -> Nat], NEW T \in SUBSET S
    PROVE  Total(T, f) \in Nat
BY TotalTakes

\* One element more.
LEMMA TotalAdds ==
    ASSUME NEW S, IsFiniteSet(S), NEW f \in [S -> Nat], NEW T \in SUBSET S, NEW x \in S \ T
    PROVE  Total(T \cup {x}, f) = Total(T, f) + f[x]
<1>1. /\ T \cup {x} \in SUBSET S /\ x \in T \cup {x} /\ (T \cup {x}) \ {x} = T
      /\ f[x] \in Nat
  OBVIOUS
<1> DEFINE U == T \cup {x}
<1>2. Total(T, f) \in Nat /\ Total(U, f) = f[x] + Total(U \ {x}, f)
  BY <1>1, TotalTakes
<1>3. Total(U \ {x}, f) = Total(T, f)
  BY <1>1
<1> HIDE DEF U
<1>4. Total(U, f) = Total(T, f) + f[x]
  BY <1>1, <1>2, <1>3
<1>5. QED
  BY <1>4 DEF U

\* Only the values on the set count.
LEMMA TotalSame ==
    ASSUME NEW S, IsFiniteSet(S), NEW f, NEW g, \A x \in S : f[x] = g[x]
    PROVE  Total(S, f) = Total(S, g)
<1> DEFINE G == {T \in SUBSET S : Total(T, f) = Total(T, g)}
<1>1. {} \in G
  BY TotalEmpty
<1>2. ASSUME NEW T \in SUBSET S, T # {}, \A y \in T : T \ {y} \in G PROVE T \in G
  <2>1. IsFiniteSet(T) /\ AnyOf(T) \in T
    BY <1>2, FS_Subset, AnyIs
  <2>2. /\ Total(T, f) = f[AnyOf(T)] + Total(T \ {AnyOf(T)}, f)
        /\ Total(T, g) = g[AnyOf(T)] + Total(T \ {AnyOf(T)}, g)
    BY <1>2, <2>1, TotalChosen
  <2>3. QED
    BY <1>2, <2>1, <2>2
<1> HIDE DEF G
<1>3. SUBSET S \subseteq G
  BY <1>1, <1>2, EverySubset
<1>4. QED
  BY <1>3 DEF G

\* A sum of sums is the sum of the sums.
LEMMA TotalOfSums ==
    ASSUME NEW S, IsFiniteSet(S), NEW f \in [S -> Nat], NEW g \in [S -> Nat]
    PROVE  \A T \in SUBSET S : Total(T, [x \in S |-> f[x] + g[x]]) = Total(T, f) + Total(T, g)
<1> DEFINE h == [x \in S |-> f[x] + g[x]]
           G == {T \in SUBSET S : Total(T, h) = Total(T, f) + Total(T, g)}
<1>0. h \in [S -> Nat]
  OBVIOUS
<1>1. {} \in G
  BY TotalEmpty
<1>2. ASSUME NEW T \in SUBSET S, T # {}, \A y \in T : T \ {y} \in G PROVE T \in G
  <2>1. PICK y \in T : TRUE
    BY <1>2
  <2>2. h[y] = f[y] + g[y]
    OBVIOUS
  <2>3. f[y] \in Nat /\ g[y] \in Nat
    OBVIOUS
  <2>4. Total(T \ {y}, h) = Total(T \ {y}, f) + Total(T \ {y}, g)
    BY <1>2
  <2> HIDE DEF h
  <2>5. /\ Total(T, h) = h[y] + Total(T \ {y}, h) /\ Total(T, f) = f[y] + Total(T \ {y}, f)
        /\ Total(T, g) = g[y] + Total(T \ {y}, g)
        /\ Total(T \ {y}, f) \in Nat /\ Total(T \ {y}, g) \in Nat
    BY <1>0, TotalTakes
  <2>6. QED
    BY <2>2, <2>3, <2>4, <2>5
<1> HIDE DEF G
<1>3. SUBSET S \subseteq G
  BY <1>1, <1>2, EverySubset
<1>4. QED
  BY <1>3 DEF G

\* Larger terms, larger sum.
LEMMA TotalGrows ==
    ASSUME NEW S, IsFiniteSet(S), NEW f \in [S -> Nat], NEW g \in [S -> Nat],
           \A x \in S : f[x] <= g[x]
    PROVE  \A T \in SUBSET S : Total(T, f) <= Total(T, g)
<1> DEFINE G == {T \in SUBSET S : Total(T, f) <= Total(T, g)}
<1>1. {} \in G
  BY TotalEmpty
<1>2. ASSUME NEW T \in SUBSET S, T # {}, \A y \in T : T \ {y} \in G PROVE T \in G
  <2>1. PICK y \in T : TRUE
    BY <1>2
  <2>2. /\ Total(T, f) = f[y] + Total(T \ {y}, f) /\ Total(T, g) = g[y] + Total(T \ {y}, g)
        /\ Total(T \ {y}, f) \in Nat /\ Total(T \ {y}, g) \in Nat
    BY TotalTakes
  <2>3. f[y] \in Nat /\ g[y] \in Nat /\ f[y] <= g[y] /\ Total(T \ {y}, f) <= Total(T \ {y}, g)
    BY <1>2
  <2>4. QED
    BY <2>2, <2>3
<1> HIDE DEF G
<1>3. SUBSET S \subseteq G
  BY <1>1, <1>2, EverySubset
<1>4. QED
  BY <1>3 DEF G

\* Where one term differs, the sums differ by as much.
LEMMA TotalChanges ==
    ASSUME NEW S, IsFiniteSet(S), NEW f \in [S -> Nat], NEW g \in [S -> Nat], NEW c \in S,
           \A x \in S \ {c} : f[x] = g[x]
    PROVE  Total(S, f) + g[c] = Total(S, g) + f[c]
<1>1. /\ Total(S, f) = f[c] + Total(S \ {c}, f) /\ Total(S \ {c}, f) \in Nat
      /\ Total(S, g) = g[c] + Total(S \ {c}, g) /\ Total(S \ {c}, g) \in Nat
  BY TotalTakes
<1>2. Total(S \ {c}, f) = Total(S \ {c}, g)
  BY FS_Subset, TotalSame
<1>3. f[c] \in Nat /\ g[c] \in Nat
  OBVIOUS
<1>4. QED
  BY <1>1, <1>2, <1>3

\* A sum may be taken group by group.
LEMMA TotalByGroup ==
    ASSUME NEW S, IsFiniteSet(S), NEW f \in [S -> Nat], NEW C, IsFiniteSet(C), NEW of \in [S -> C]
    PROVE  \A T \in SUBSET S : Total(T, f) = Total(C, [c \in C |-> Total({x \in T : of[x] = c}, f)])
<1> DEFINE by(T) == [c \in C |-> Total({x \in T : of[x] = c}, f)]
           G == {T \in SUBSET S : Total(T, f) = Total(C, by(T))}
<1>0. \A T \in SUBSET S : by(T) \in [C -> Nat]
  BY TotalType
<1>1. {} \in G
  <2>1. \A c \in C : {x \in {} : of[x] = c} = {}
    OBVIOUS
  <2>2. by({}) = [c \in C |-> 0]
    BY <2>1, TotalEmpty
  <2>3. Total(C, [c \in C |-> 0]) = 0
    <3> DEFINE z == [c \in C |-> 0]
               Z == {D \in SUBSET C : Total(D, z) = 0}
    <3>1. {} \in Z
      BY TotalEmpty
    <3>2. ASSUME NEW D \in SUBSET C, D # {}, \A y \in D : D \ {y} \in Z PROVE D \in Z
      <4>1. PICK y \in D : TRUE
        BY <3>2
      <4>2. z \in [C -> Nat] /\ z[y] = 0 /\ Total(D \ {y}, z) = 0
        BY <3>2
      <4> HIDE DEF z
      <4>3. Total(D, z) = z[y] + Total(D \ {y}, z)
        BY <4>2, TotalTakes
      <4>4. QED
        BY <4>2, <4>3
    <3> HIDE DEF Z
    <3>3. SUBSET C \subseteq Z
      BY <3>1, <3>2, EverySubset
    <3>4. QED
      BY <3>3 DEF Z
  <2>4. QED
    BY <2>2, <2>3, TotalEmpty
<1>2. ASSUME NEW T \in SUBSET S, T # {}, \A y \in T : T \ {y} \in G PROVE T \in G
  <2>1. PICK y \in T : TRUE
    BY <1>2
  <2> DEFINE U == T \ {y}
             k == of[y]
  <2>2. U \in SUBSET S /\ k \in C /\ f[y] \in Nat /\ y \in S \ U
    OBVIOUS
  <2>3. /\ Total(T, f) = f[y] + Total(U, f) /\ Total(U, f) \in Nat
        /\ Total(U, f) = Total(C, by(U))
    BY <1>2, TotalTakes
  <2>4. \A c \in C \ {k} : by(T)[c] = by(U)[c]
    <3>1. \A c \in C \ {k} : {x \in T : of[x] = c} = {x \in U : of[x] = c}
      OBVIOUS
    <3>2. QED
      BY <3>1
  <2>5. by(T)[k] = by(U)[k] + f[y]
    <3> DEFINE V == {x \in U : of[x] = k}
    <3>1. {x \in T : of[x] = k} = V \cup {y} /\ V \in SUBSET S /\ y \notin V
      OBVIOUS
    <3>2. by(T)[k] = Total({x \in T : of[x] = k}, f) /\ by(U)[k] = Total(V, f)
      BY <2>2
    <3> HIDE DEF V
    <3>3. Total(V \cup {y}, f) = Total(V, f) + f[y]
      BY <2>2, <3>1, TotalAdds
    <3>4. QED
      BY <3>1, <3>2, <3>3
  <2>6. by(T) \in [C -> Nat] /\ by(U) \in [C -> Nat]
    BY <1>0, <2>2
  <2> HIDE DEF by, k, U
  <2>7. Total(C, by(T)) + by(U)[k] = Total(C, by(U)) + by(T)[k]
    BY <2>2, <2>4, <2>6, TotalChanges
  <2>8. by(U)[k] \in Nat /\ Total(C, by(T)) \in Nat
    BY <2>2, <2>6, TotalType
  <2>9. Total(T, f) = Total(C, by(T))
    BY <2>2, <2>3, <2>5, <2>7, <2>8
  <2>10. QED
    BY <2>9
<1> HIDE DEF G
<1>3. SUBSET S \subseteq G
  BY <1>1, <1>2, EverySubset
<1>4. QED
  BY <1>3 DEF G

\* Amounts that are zero outside of a part add up to the part's.
LEMMA TotalOfPart ==
    ASSUME NEW S, IsFiniteSet(S), NEW T \in SUBSET S, NEW f \in [S -> Nat], NEW g \in [S -> Nat],
           \A x \in T : f[x] = g[x], \A x \in S \ T : g[x] = 0
    PROVE  Total(T, f) = Total(S, g)
<1> DEFINE G == {U \in SUBSET S : Total(U, g) = Total(U \cap T, g)}
<1>1. {} \in G
  OBVIOUS
<1>2. ASSUME NEW U \in SUBSET S, U # {}, \A y \in U : U \ {y} \in G PROVE U \in G
  <2>1. PICK y \in U : TRUE
    BY <1>2
  <2>2. Total(U, g) = g[y] + Total(U \ {y}, g) /\ Total(U \ {y}, g) \in Nat
    BY TotalTakes
  <2>3. Total(U \ {y}, g) = Total((U \ {y}) \cap T, g)
    BY <1>2
  <2>4. CASE y \in T
    <3>1. U \cap T \in SUBSET S /\ y \in U \cap T /\ (U \cap T) \ {y} = (U \ {y}) \cap T
      BY <2>4
    <3>2. Total(U \cap T, g) = g[y] + Total((U \cap T) \ {y}, g)
      BY <3>1, TotalTakes
    <3>3. Total(U \cap T, g) = Total(U, g)
      BY <2>2, <2>3, <3>1, <3>2
    <3>4. QED
      BY <3>3
  <2>5. CASE y \notin T
    <3>1. (U \ {y}) \cap T = U \cap T /\ g[y] = 0
      BY <2>5
    <3>2. Total(U, g) = Total(U \cap T, g)
      BY <2>2, <2>3, <3>1
    <3>3. QED
      BY <3>2
  <2>6. QED
    BY <2>4, <2>5
<1>3. SUBSET S \subseteq G
  <2> HIDE DEF G
  <2>1. QED
    BY <1>1, <1>2, EverySubset
<1>4. Total(S, g) = Total(T, g)
  <2>1. S \in G /\ S \cap T = T
    BY <1>3
  <2>2. QED
    BY <2>1
<1>5. Total(T, f) = Total(T, g)
  BY FS_Subset, TotalSame
<1>6. QED
  BY <1>4, <1>5
\* The same of any function whose values on the set are numbers.
LEMMA TotalNumber ==
    ASSUME NEW T, IsFiniteSet(T), NEW f, \A x \in T : f[x] \in Nat
    PROVE  Total(T, f) \in Nat
<1> DEFINE g == [x \in T |-> f[x]]
<1>1. g \in [T -> Nat] /\ \A x \in T : f[x] = g[x]
  OBVIOUS
<1> HIDE DEF g
<1>2. Total(T, f) = Total(T, g)
  BY <1>1, TotalSame
<1>3. Total(T, g) \in Nat
  BY <1>1, TotalType
<1>4. QED
  BY <1>2, <1>3

\* A sum over a set whose elements fall under the labels of C, label by label.
LEMMA TotalBySlice ==
    ASSUME NEW T, IsFiniteSet(T), NEW f, \A x \in T : f[x] \in Nat,
           NEW C, IsFiniteSet(C), NEW of, \A x \in T : of[x] \in C
    PROVE  Total(T, f) = Total(C, [c \in C |-> Total({x \in T : of[x] = c}, f)])
<1> DEFINE g == [x \in T |-> f[x]]
           o == [x \in T |-> of[x]]
<1>1. g \in [T -> Nat] /\ \A x \in T : f[x] = g[x]
  OBVIOUS
<1>2. o \in [T -> C] /\ \A x \in T : o[x] = of[x]
  OBVIOUS
<1> HIDE DEF g, o
<1>3. Total(T, g) = Total(C, [c \in C |-> Total({x \in T : o[x] = c}, g)])
  BY <1>1, <1>2, TotalByGroup
<1>4. Total(T, f) = Total(T, g)
  BY <1>1, TotalSame
<1>5. ASSUME NEW c \in C PROVE Total({x \in T : o[x] = c}, g) = Total({x \in T : of[x] = c}, f)
  <2> DEFINE P == {x \in T : of[x] = c}
  <2>1. {x \in T : o[x] = c} = P /\ P \in SUBSET T
    BY <1>2
  <2> HIDE DEF P
  <2>2. IsFiniteSet(P) /\ \A x \in P : f[x] = g[x]
    BY <1>1, <2>1, FS_Subset
  <2>3. Total(P, f) = Total(P, g)
    BY <2>2, TotalSame
  <2>4. QED
    BY <2>1, <2>3 DEF P
<1>6. [c \in C |-> Total({x \in T : o[x] = c}, g)] = [c \in C |-> Total({x \in T : of[x] = c}, f)]
  BY <1>5
<1>7. QED
  BY <1>3, <1>4, <1>6

\* A sum over two sets that share nothing.
LEMMA TotalOfTwo ==
    ASSUME NEW T, NEW U, IsFiniteSet(T), IsFiniteSet(U), T \cap U = {}, NEW f, \A x \in T \cup U : f[x] \in Nat
    PROVE  Total(T \cup U, f) = Total(T, f) + Total(U, f)
<1> DEFINE C  == {1, 2}
           of == [x \in T \cup U |-> IF x \in T THEN 1 ELSE 2]
           h  == [c \in C |-> Total({x \in T \cup U : of[x] = c}, f)]
<1>1. IsFiniteSet(T \cup U) /\ IsFiniteSet({1}) /\ IsFiniteSet({2})
  BY FS_Union, FS_Singleton
<1>2. IsFiniteSet(C)
  <2>1. C = {1} \cup {2}
    OBVIOUS
  <2> HIDE DEF C
  <2>2. QED
    BY <1>1, <2>1, FS_Union
<1>3. \A x \in T \cup U : of[x] \in C
  OBVIOUS
<1>4. {x \in T \cup U : of[x] = 1} = T /\ {x \in T \cup U : of[x] = 2} = U
  OBVIOUS
<1>5. h[1] = Total(T, f) /\ h[2] = Total(U, f)
  BY <1>4
<1>6. Total(T, f) \in Nat /\ Total(U, f) \in Nat
  BY TotalNumber
<1>7. h \in [C -> Nat]
  BY <1>5, <1>6
<1> HIDE DEF of
<1>8. Total(T \cup U, f) = Total(C, h)
  <2> HIDE DEF C
  <2>1. QED
    BY <1>1, <1>2, <1>3, TotalBySlice
<1> HIDE DEF h
<1>9. Total(C, h) = h[1] + h[2]
  <2>1. C \in SUBSET C /\ C \ {1} = {2} /\ {2} \in SUBSET C /\ 1 \in C /\ 2 \in {2} /\ {2} \ {2} = {}
    OBVIOUS
  <2> HIDE DEF C
  <2>2. Total(C, h) = h[1] + Total(C \ {1}, h) /\ Total({2}, h) = h[2] + Total({2} \ {2}, h)
    BY <1>2, <1>7, <2>1, TotalTakes
  <2>3. Total({2} \ {2}, h) = 0
    BY <2>1, TotalEmpty
  <2>4. h[2] \in Nat
    BY <1>5, <1>6
  <2>5. QED
    BY <2>1, <2>2, <2>3, <2>4
<1>10. QED
  BY <1>5, <1>8, <1>9
===============================================================================
