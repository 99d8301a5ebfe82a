------------------------------ MODULE DataLemmas ------------------------------
(***************************************************************************)
(* Facts about numbers, finite sets and sequences that the proofs of       *)
(* several components need.                                                *)
(*                                                                         *)
(* Induction is stated about sets, so that a fact P is proved for every    *)
(* number from the set of the numbers for which P holds.                   *)
(***************************************************************************)
EXTENDS Integers, FiniteSetsExt, SequencesExt, FiniteSetTheorems, SequenceTheorems, TLAPS

-----------------------------------------------------------------------------
(* Numbers                                                                 *)

\* Every set of natural numbers that is not empty has a least element.
LEMMA LeastElement ==
    ASSUME NEW T \in SUBSET Nat, T # {}
    PROVE  \E m \in T : \A n \in T : m <= n
<1> DEFINE Less == {ss \in Nat \X Nat : ss[1] < ss[2]}
<1>1. IsWellFoundedOn(Less, Nat)
  BY NatLessThanWellFounded, Zenon DEF OpToRel
<1>2. \A m, n \in Nat : n < m => <<n, m>> \in Less
  OBVIOUS
<1> HIDE DEF Less
<1>3. PICK m \in T : \A n \in T : ~ (<<n, m>> \in Less)
  BY <1>1, WFMin
<1>4. ASSUME NEW n \in T PROVE m <= n
  <2>1. m \in Nat /\ n \in Nat /\ ~ (<<n, m>> \in Less)
    BY <1>3
  <2> QED BY <1>2, <2>1
<1> QED BY <1>4

\* A set of natural numbers that holds 0 and the successor of each of its
\* elements holds all of them.
LEMMA SetInduction ==
    ASSUME NEW T \in SUBSET Nat, 0 \in T, \A n \in T : n + 1 \in T
    PROVE  T = Nat
<1> DEFINE U == Nat \ T
<1>1. SUFFICES ASSUME U # {} PROVE FALSE
  OBVIOUS
<1>2. PICK m \in U : \A n \in U : m <= n
  BY <1>1, LeastElement
<1>3. m # 0 /\ m - 1 \in Nat /\ m - 1 \notin U
  BY <1>2
<1> QED BY <1>2, <1>3

\* The minimum of a set of natural numbers.
LEMMA MinOfNaturals ==
    ASSUME NEW S \in SUBSET Nat, S # {}
    PROVE  Min(S) \in S /\ \A n \in S : Min(S) <= n
<1>1. \E m \in S : \A n \in S : m <= n
  BY LeastElement
<1> QED BY <1>1 DEF Min

\* The maximum of a bounded one.
LEMMA MaxOfNaturals ==
    ASSUME NEW b \in Nat, NEW S \in SUBSET (0 .. b), S # {}
    PROVE  Max(S) \in S /\ \A n \in S : Max(S) >= n
<1> DEFINE T == {b - n : n \in S}
<1>1. T \in SUBSET Nat /\ T # {}
  <2>1. \A n \in S : b - n \in Nat
    OBVIOUS
  <2> QED BY <2>1
<1>2. PICK m \in T : \A n \in T : m <= n
  BY <1>1, LeastElement
<1>3. PICK s \in S : m = b - s
  OBVIOUS
<1>4. ASSUME NEW n \in S PROVE s >= n
  <2>1. b - s <= b - n
    BY <1>2, <1>3
  <2> QED BY <2>1
<1> QED BY <1>4 DEF Max

\* Both, of two numbers.
LEMMA MinMaxOfTwo ==
    ASSUME NEW a \in Int, NEW b \in Int
    PROVE  /\ Min({a, b}) = IF a <= b THEN a ELSE b
           /\ Max({a, b}) = IF a <= b THEN b ELSE a
<1>1. \A m \in {a, b} : (\A n \in {a, b} : m <= n) <=> m = IF a <= b THEN a ELSE b
  OBVIOUS
<1>2. \A m \in {a, b} : (\A n \in {a, b} : m >= n) <=> m = IF a <= b THEN b ELSE a
  OBVIOUS
<1> QED BY <1>1, <1>2 DEF Min, Max

-----------------------------------------------------------------------------
(* Recursion                                                               *)

\* f starts with a, and g makes each of its values of the one before and its place.
IsRecursion(f, S, a, g) ==
    /\ f \in [Nat -> S]
    /\ f[0] = a
    /\ \A n \in Nat : f[n+1] = g[<<f[n], n>>]

\* A recursion over the numbers defines a function.
LEMMA Recursion ==
    ASSUME NEW S, NEW a \in S, NEW g \in [S \X Nat -> S]
    PROVE  \E f : IsRecursion(f, S, a, g)
<1> DEFINE Upto(h, n) == h[0] = a /\ \A i \in 0 .. n - 1 : h[i+1] = g[<<h[i], i>>]
<1>1. \A n \in Nat : \E h \in [0 .. n -> S] : Upto(h, n)
  <2> DEFINE T == {n \in Nat : \E h \in [0 .. n -> S] : Upto(h, n)}
  <2>1. 0 \in T
    <3>1. [i \in 0 .. 0 |-> a] \in [0 .. 0 -> S] /\ Upto([i \in 0 .. 0 |-> a], 0)
      OBVIOUS
    <3> QED BY <3>1
  <2>2. ASSUME NEW n \in T PROVE n + 1 \in T
    <3>1. PICK h \in [0 .. n -> S] : Upto(h, n)
      OBVIOUS
    <3> DEFINE k == [i \in 0 .. n + 1 |-> IF i = n + 1 THEN g[<<h[n], n>>] ELSE h[i]]
    <3>2. g[<<h[n], n>>] \in S
      OBVIOUS
    <3>3. k \in [0 .. n + 1 -> S]
      BY <3>2
    <3>4. k[n+1] = g[<<h[n], n>>] /\ \A i \in 0 .. n : k[i] = h[i]
      OBVIOUS
    <3> HIDE DEF k
    <3>5. k[0] = a
      BY <3>1, <3>4
    <3>6. ASSUME NEW i \in 0 .. n PROVE k[i+1] = g[<<k[i], i>>]
      <4>1. CASE i = n
        BY <3>4, <4>1
      <4>2. CASE i # n
        <5>1. i \in 0 .. n - 1 /\ i + 1 \in 0 .. n
          BY <4>2
        <5> QED BY <3>1, <3>4, <5>1
      <4> QED BY <4>1, <4>2
    <3>7. Upto(k, n + 1)
      <4>1. \A i \in 0 .. n : k[i+1] = g[<<k[i], i>>]
        BY <3>6
      <4>2. 0 .. (n + 1) - 1 = 0 .. n
        OBVIOUS
      <4> QED BY <3>5, <4>1, <4>2, Zenon
    <3> HIDE DEF Upto
    <3>8. n + 1 \in Nat /\ \E h2 \in [0 .. n + 1 -> S] : Upto(h2, n + 1)
      BY <3>3, <3>7
    <3> QED BY <3>8, Zenon
  <2> HIDE DEF T
  <2>3. T = Nat
    BY <2>1, <2>2, SetInduction DEF T
  <2> QED BY <2>3 DEF T
<1>2. ASSUME NEW m \in Nat, NEW n \in Nat, NEW h, NEW k, Upto(h, m), Upto(k, n)
      PROVE  \A i \in Nat : i <= m /\ i <= n => h[i] = k[i]
  <2> DEFINE T == {i \in Nat : i <= m /\ i <= n => h[i] = k[i]}
  <2>1. 0 \in T
    BY <1>2
  <2>2. ASSUME NEW i \in T PROVE i + 1 \in T
    <3>1. CASE i + 1 <= m /\ i + 1 <= n
      <4>1. h[i] = k[i] /\ i \in 0 .. m - 1 /\ i \in 0 .. n - 1
        BY <3>1
      <4>2. h[i+1] = g[<<h[i], i>>]
        BY <1>2, <4>1
      <4>3. k[i+1] = g[<<k[i], i>>]
        BY <1>2, <4>1
      <4> QED BY <4>1, <4>2, <4>3
    <3> QED BY <3>1
  <2> HIDE DEF T
  <2>3. T = Nat
    BY <2>1, <2>2, SetInduction DEF T
  <2> QED BY <2>3 DEF T
<1> DEFINE Part(n) == CHOOSE h \in [0 .. n -> S] : Upto(h, n)
           f == [n \in Nat |-> Part(n)[n]]
<1>3. \A n \in Nat : Part(n) \in [0 .. n -> S] /\ Upto(Part(n), n)
  BY <1>1
<1> HIDE DEF Part
<1>4. f \in [Nat -> S]
  BY <1>3
<1>5. f[0] = a
  BY <1>3
<1>6. ASSUME NEW n \in Nat PROVE f[n+1] = g[<<f[n], n>>]
  <2>1. Upto(Part(n), n) /\ Upto(Part(n+1), n+1)
    BY <1>3
  <2> HIDE DEF Upto
  <2>2. Part(n+1)[n] = Part(n)[n]
    BY <1>2, <2>1
  <2>3. Part(n+1)[n+1] = g[<<Part(n+1)[n], n>>]
    BY <2>1 DEF Upto
  <2> QED BY <2>2, <2>3
<1> QED BY <1>4, <1>5, <1>6 DEF IsRecursion

-----------------------------------------------------------------------------
(* Sums                                                                    *)

\* w counts something for every element of S: a unit for each count, and in all.
Units(w, S) == {u \in S \X Nat : 1 <= u[2] /\ u[2] <= w[u[1]]}
Total(w, S) == Cardinality(Units(w, S))

LEMMA UnitsAdd ==
    ASSUME NEW w, NEW S, NEW x, x \notin S, w[x] \in Nat, IsFiniteSet(Units(w, S))
    PROVE  /\ IsFiniteSet(Units(w, S \cup {x}))
           /\ Total(w, S \cup {x}) = Total(w, S) + w[x]
<1> DEFINE own == {x} \X (1 .. w[x])
<1>1. Units(w, S \cup {x}) = Units(w, S) \cup own
  BY DEF Units
<1>2. Units(w, S) \cap own = {}
  BY DEF Units
<1>3. IsFiniteSet(own) /\ Cardinality(own) = w[x]
  <2>1. IsFiniteSet(1 .. w[x]) /\ Cardinality(1 .. w[x]) = w[x]
    <3>1. PICK m \in Nat : m = w[x]
      OBVIOUS
    <3>2. /\ IsFiniteSet(1 .. m)
          /\ Cardinality(1 .. m) = IF 1 > m THEN 0 ELSE m - 1 + 1
      <4>1. 1 \in Int /\ m \in Int
        OBVIOUS
      <4> QED BY <4>1, FS_Interval, Zenon
    <3>3. Cardinality(1 .. m) = m
      BY <3>2
    <3> QED BY <3>1, <3>2, <3>3, Zenon
  <2>2. IsFiniteSet({x}) /\ Cardinality({x}) = 1
    BY FS_Singleton
  <2>3. IsFiniteSet(own) /\ Cardinality(own) = Cardinality({x}) * Cardinality(1 .. w[x])
    BY <2>1, <2>2, FS_Product, Zenon
  <2> QED BY <2>1, <2>2, <2>3
<1> HIDE DEF own
<1>4. PICK units : units = Units(w, S)
  OBVIOUS
<1>5. /\ IsFiniteSet(units \cup own)
      /\ Cardinality(units \cup own) =
            Cardinality(units) + Cardinality(own) - Cardinality(units \cap own)
  BY <1>3, <1>4, FS_Union
<1>6. Cardinality(units) \in Nat /\ Cardinality(units \cap own) = 0
  BY <1>2, <1>4, FS_CardinalityType, FS_EmptySet
<1>7. Cardinality(units \cup own) = Cardinality(units) + w[x]
  BY <1>3, <1>5, <1>6
<1> QED BY <1>1, <1>4, <1>5, <1>7, Zenon DEF Total

LEMMA UnitsFinite ==
    ASSUME NEW w, NEW S, IsFiniteSet(S), \A x \in S : w[x] \in Nat
    PROVE  IsFiniteSet(Units(w, S)) /\ Total(w, S) \in Nat
<1> DEFINE T == {n \in Nat : \A R \in SUBSET S :
                    Cardinality(R) = n => IsFiniteSet(Units(w, R))}
<1>1. 0 \in T
  <2>1. ASSUME NEW R \in SUBSET S, Cardinality(R) = 0 PROVE IsFiniteSet(Units(w, R))
    <3>1. R = {}
      BY <2>1, FS_Subset, FS_EmptySet
    <3>2. Units(w, R) = {}
      BY <3>1 DEF Units
    <3> QED BY <3>2, FS_EmptySet
  <2> QED BY <2>1
<1>2. ASSUME NEW n \in T PROVE n + 1 \in T
  <2>1. ASSUME NEW R \in SUBSET S, Cardinality(R) = n + 1 PROVE IsFiniteSet(Units(w, R))
    <3>1. IsFiniteSet(R) /\ R # {}
      BY <2>1, FS_Subset, FS_EmptySet
    <3>2. PICK x \in R : TRUE
      BY <3>1
    <3>3. Cardinality(R \ {x}) = n /\ R \ {x} \in SUBSET S
      <4>1. Cardinality(R \ {x}) = Cardinality(R) - 1 /\ n \in Nat
        BY <3>1, <3>2, FS_RemoveElement
      <4> QED BY <2>1, <4>1
    <3>4. IsFiniteSet(Units(w, R \ {x}))
      BY <3>3
    <3>5. (R \ {x}) \cup {x} = R /\ x \notin R \ {x} /\ w[x] \in Nat
      BY <3>2
    <3> QED BY <3>4, <3>5, UnitsAdd
  <2> QED BY <2>1
<1> HIDE DEF T
<1>3. T = Nat
  BY <1>1, <1>2, SetInduction DEF T
<1>4. Cardinality(S) \in T
  BY <1>3, FS_CardinalityType
<1>5. IsFiniteSet(Units(w, S))
  BY <1>4 DEF T
<1> QED BY <1>5, FS_CardinalityType DEF Total

\* Who changes one count changes the total by as much.
LEMMA TotalChanged ==
    ASSUME NEW w, NEW v, NEW S, IsFiniteSet(S), \A x \in S : w[x] \in Nat /\ v[x] \in Nat,
           NEW x \in S, \A y \in S \ {x} : v[y] = w[y]
    PROVE  Total(v, S) + w[x] = Total(w, S) + v[x]
<1> DEFINE R == S \ {x}
<1>1. IsFiniteSet(R) /\ x \notin R /\ S = R \cup {x}
  BY FS_Subset
<1>2. Units(v, R) = Units(w, R)
  BY DEF Units
<1> HIDE DEF R
<1>3. IsFiniteSet(Units(w, R)) /\ Total(w, R) \in Nat
  BY <1>1, UnitsFinite
<1>4. Total(w, S) = Total(w, R) + w[x]
  BY <1>1, <1>3, UnitsAdd
<1>5. Total(v, S) = Total(v, R) + v[x]
  BY <1>1, <1>2, <1>3, UnitsAdd
<1>6. Total(v, R) = Total(w, R)
  BY <1>2 DEF Total
<1> QED BY <1>3, <1>4, <1>5, <1>6

LEMMA TotalKept ==
    ASSUME NEW w, NEW v, NEW S, \A x \in S : v[x] = w[x]
    PROVE  Total(v, S) = Total(w, S)
<1>1. Units(v, S) = Units(w, S)
  BY DEF Units
<1> QED BY <1>1 DEF Total

\* A recursion over the subsets of S that takes an element off at each step
\* computes the total, whatever element it takes.
LEMMA TotalUnfolds ==
    ASSUME NEW w, NEW S, IsFiniteSet(S), \A x \in S : w[x] \in Nat
    PROVE  /\ Total(w, {}) = 0
           /\ \A R \in SUBSET S, x \in S :
                 x \in R => Total(w, R) = w[x] + Total(w, R \ {x})
<1>1. Total(w, {}) = 0
  <2>1. Units(w, {}) = {}
    BY DEF Units
  <2> QED BY <2>1, FS_EmptySet DEF Total
<1>2. ASSUME NEW R \in SUBSET S, NEW x \in R PROVE Total(w, R) = w[x] + Total(w, R \ {x})
  <2>1. PICK rest : rest = R \ {x}
    OBVIOUS
  <2>2. IsFiniteSet(rest) /\ rest \subseteq S /\ x \notin rest /\ rest \cup {x} = R
    BY <2>1, FS_Subset
  <2>3. IsFiniteSet(Units(w, rest)) /\ Total(w, rest) \in Nat /\ w[x] \in Nat
    BY <2>2, UnitsFinite
  <2>4. Total(w, rest \cup {x}) = Total(w, rest) + w[x]
    BY <2>2, <2>3, UnitsAdd
  <2>5. Total(w, rest) + w[x] = w[x] + Total(w, rest)
    BY <2>3
  <2> QED BY <2>1, <2>2, <2>4, <2>5, Zenon
<1> QED BY <1>1, <1>2

-----------------------------------------------------------------------------
(* Sequences                                                               *)

LEMMA SubSeqAt ==
    ASSUME NEW S, NEW t \in Seq(S), NEW i \in Nat, NEW n \in Nat, i + n <= Len(t)
    PROVE  /\ SubSeq(t, i + 1, i + n) \in Seq(S)
           /\ Len(SubSeq(t, i + 1, i + n)) = n
           /\ \A m \in 1 .. n : SubSeq(t, i + 1, i + n)[m] = t[i + m]
  OBVIOUS

\* Two sequences that are the front and the back of a third make it.
LEMMA ConcatIs ==
    ASSUME NEW S, NEW s \in Seq(S), NEW t \in Seq(S), NEW u \in Seq(S),
           Len(u) = Len(s) + Len(t),
           \A m \in 1 .. Len(s) : s[m] = u[m],
           \A m \in 1 .. Len(t) : t[m] = u[Len(s) + m]
    PROVE  s \o t = u
<1>0. PICK a \in Nat, n \in Nat : a = Len(s) /\ n = Len(t)
  OBVIOUS
<1>1. s \o t \in Seq(S) /\ Len(s \o t) = a + n
  BY <1>0
<1>2. ASSUME NEW m \in 1 .. a PROVE (s \o t)[m] = u[m]
  BY <1>0
<1>3. ASSUME NEW m \in 1 .. n PROVE (s \o t)[a + m] = u[a + m]
  <2>1. (s \o t)[a + m] = t[m]
    BY a + m \in Nat, <1>0, ConcatProperties
  <2> QED BY <1>0, <2>1
<1> DEFINE whole == s \o t
<1> HIDE DEF whole
<1>4. ASSUME NEW m \in 1 .. Len(whole) PROVE whole[m] = u[m]
  <2>1. CASE m \in 1 .. a
    BY <1>2, <2>1 DEF whole
  <2>2. CASE m \notin 1 .. a
    <3>1. m - a \in 1 .. n /\ m = a + (m - a)
      BY <1>1, <2>2 DEF whole
    <3>2. PICK j \in 1 .. n : m = a + j
      BY <3>1
    <3> QED BY <1>3, <3>2 DEF whole
  <2> QED BY <2>1, <2>2
<1> QED BY <1>1, <1>4, SeqEqual DEF whole

\* A sequence and the part of another that continues it make a third.
Continues(S, s, t, u, i, n) ==
    /\ s \in Seq(S) /\ t \in Seq(S) /\ u \in Seq(S)
    /\ i \in Nat /\ n \in Nat /\ i + n <= Len(t) /\ Len(u) = Len(s) + n
    /\ \A m \in 1 .. Len(s) : s[m] = u[m]
    /\ \A m \in 1 .. n : t[i + m] = u[Len(s) + m]

LEMMA Continued ==
    ASSUME NEW S, NEW s, NEW t, NEW u, NEW i, NEW n, Continues(S, s, t, u, i, n)
    PROVE  s \o SubSeq(t, i + 1, i + n) = u
<1>1. /\ s \in Seq(S) /\ t \in Seq(S) /\ u \in Seq(S) /\ i \in Nat /\ n \in Nat
      /\ i + n <= Len(t) /\ Len(u) = Len(s) + n
      /\ \A m \in 1 .. Len(s) : s[m] = u[m]
      /\ \A m \in 1 .. n : t[i + m] = u[Len(s) + m]
  BY DEF Continues
<1>2. PICK back : back = SubSeq(t, i + 1, i + n)
  OBVIOUS
<1>3. back \in Seq(S) /\ Len(back) = n /\ \A m \in 1 .. n : back[m] = t[i + m]
  BY <1>1, <1>2, SubSeqAt
<1>4. \A m \in 1 .. Len(back) : back[m] = u[Len(s) + m]
  BY <1>1, <1>3
<1>5. s \o back = u
  BY <1>1, <1>3, <1>4, ConcatIs
<1> QED BY <1>2, <1>5

LEMMA SubSeqJoin ==
    ASSUME NEW S, NEW b \in Seq(S), NEW s \in Nat, NEW n \in Nat, s + n <= Len(b)
    PROVE  SubSeq(b, 1, s) \o SubSeq(b, s + 1, s + n) = SubSeq(b, 1, s + n)
  OBVIOUS

=============================================================================
