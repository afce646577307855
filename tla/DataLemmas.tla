----------------------------- MODULE DataLemmas -----------------------------
(***************************************************************************)
(* Facts on finite sets, natural numbers and sequences that the proofs     *)
(* share.  What is proved by induction elsewhere is proved here from a     *)
(* least counterexample: a set of counterexamples that is not empty has a  *)
(* smallest member, and that member is shown to be none.                   *)
(***************************************************************************)
EXTENDS FiniteSetTheorems, SequenceTheorems, TLAPS

(* Of some subsets of a finite set, one has none of the others within it.  *)
LEMMA SmallestSubset ==
    ASSUME NEW S, IsFiniteSet(S), NEW T, T # {}, \A U \in T : U \subseteq S
    PROVE  \E U \in T : \A V \in T : V \subseteq U => V = U
<1>1. IsWellFoundedOn(StrictSubsetOrdering(S), FiniteSubsetsOf(S))
  BY FS_StrictSubsetOrderingWellFounded
<1>2. T \subseteq FiniteSubsetsOf(S)
  BY FS_FiniteSubsetsOfFinite
<1>3. PICK U \in T : \A V \in T : <<V, U>> \notin StrictSubsetOrdering(S)
  BY <1>1, <1>2, WFMin
<1>4. \A V \in T : V \subseteq U => V = U
  BY <1>3 DEF StrictSubsetOrdering
<1>5. QED
  BY <1>4

(* A finite set of numbers has a greatest member.                          *)
LEMMA Greatest ==
    ASSUME NEW S \in SUBSET Int, IsFiniteSet(S), S # {}
    PROVE  \E m \in S : \A n \in S : n <= m
<1> DEFINE Up(x) == {y \in S : y >= x}
<1> DEFINE T == {Up(x) : x \in S}
<1>1. \A U \in T : U \subseteq S
  OBVIOUS
<1>2. T # {}
  OBVIOUS
<1>3. PICK U \in T : \A V \in T : V \subseteq U => V = U
  <2> HIDE DEF T
  <2> QED BY <1>1, <1>2, SmallestSubset
<1>4. PICK m \in S : U = Up(m)
  BY <1>3
<1>5. ASSUME NEW n \in S, n > m
      PROVE  FALSE
  <2>1. Up(n) \subseteq Up(m)
    <3>1. \A y \in S : y >= n => y >= m
      BY <1>5
    <3>2. QED
      BY <3>1
  <2>2. Up(n) = Up(m)
    BY <2>1, <1>3, <1>4
  <2>3. m \in Up(m) /\ m \notin Up(n)
    BY <1>5
  <2>4. QED
    BY <2>2, <2>3
<1>6. QED
  BY <1>5

(* A set of natural numbers has a least member.                            *)
LEMMA Least ==
    ASSUME NEW S \in SUBSET Nat, S # {}
    PROVE  \E m \in S : \A n \in S : m <= n
<1>1. PICK k \in S : TRUE
  OBVIOUS
<1> DEFINE T == {-n : n \in {n \in S : n <= k}}
<1>2. IsFiniteSet(-k .. 0)
  BY FS_Interval
<1>3. T \in SUBSET (-k .. 0) /\ T # {} /\ T \in SUBSET Int
  OBVIOUS
<1>4. IsFiniteSet(T)
  BY <1>2, <1>3, FS_Subset
<1>5. PICK m \in T : \A n \in T : n <= m
  <2> HIDE DEF T
  <2> QED BY <1>3, <1>4, Greatest
<1>6. PICK l \in S : l <= k /\ m = -l
  BY <1>5
<1>7. ASSUME NEW n \in S
      PROVE  l <= n
  <2>1. CASE n <= k
    <3>1. -n \in T
      BY <2>1
    <3>2. -n <= -l
      BY <3>1, <1>5, <1>6
    <3>3. QED
      BY <3>2
  <2>2. CASE n > k
    BY <2>2, <1>6
  <2>3. QED
    BY <2>1, <2>2
<1>8. QED
  BY <1>7

(* Induction over the natural numbers, stated of a set.                    *)
LEMMA InductiveSet ==
    ASSUME NEW S, 0 \in S, \A n \in Nat : n \in S => n + 1 \in S
    PROVE  Nat \subseteq S
<1> DEFINE C == {n \in Nat : n \notin S}
<1>1. C = {}
  <2> SUFFICES ASSUME C # {} PROVE FALSE
    OBVIOUS
  <2>1. C \in SUBSET Nat
    OBVIOUS
  <2>2. PICK m \in C : \A n \in C : m <= n
    <3> HIDE DEF C
    <3> QED BY <2>1, Least
  <2>3. m # 0 /\ m - 1 \in Nat /\ m - 1 \notin C
    BY <2>2
  <2>4. m - 1 \in S /\ (m - 1) + 1 = m
    BY <2>3
  <2>5. m \in S
    BY <2>3, <2>4
  <2>6. QED
    BY <2>5
<1>2. QED
  BY <1>1

(* The same with all smaller numbers for the hypothesis.                   *)
LEMMA StrongInductiveSet ==
    ASSUME NEW S, \A n \in Nat : (\A m \in 0 .. n - 1 : m \in S) => n \in S
    PROVE  Nat \subseteq S
<1> DEFINE C == {n \in Nat : n \notin S}
<1>1. C = {}
  <2> SUFFICES ASSUME C # {} PROVE FALSE
    OBVIOUS
  <2>1. C \in SUBSET Nat
    OBVIOUS
  <2>2. PICK m \in C : \A n \in C : m <= n
    <3> HIDE DEF C
    <3> QED BY <2>1, Least
  <2>3. \A n \in 0 .. m - 1 : n \in S
    BY <2>2
  <2>4. m \in S
    BY <2>3
  <2>5. QED
    BY <2>4
<1>2. QED
  BY <1>1

(* The members of a finite set of numbers can be put in ascending order.   *)
LEMMA AscendingExists ==
    ASSUME NEW S \in SUBSET Int, IsFiniteSet(S)
    PROVE  \E s \in [1 .. Cardinality(S) -> S] : \A i, j \in DOMAIN s : i < j => s[i] < s[j]
<1> DEFINE Sorted(U) == \E s \in [1 .. Cardinality(U) -> U] :
                            \A i, j \in 1 .. Cardinality(U) : i < j => s[i] < s[j]
           C == {U \in SUBSET S : ~Sorted(U)}
<1>1. C = {}
  <2> SUFFICES ASSUME C # {} PROVE FALSE
    OBVIOUS
  <2>1. \A U \in C : U \subseteq S
    OBVIOUS
  <2>2. PICK U \in C : \A V \in C : V \subseteq U => V = U
    <3> HIDE DEF C
    <3> QED BY <2>1, SmallestSubset
  <2>3. U \in SUBSET Int /\ U \in SUBSET S /\ IsFiniteSet(U) /\ ~Sorted(U)
    BY <2>2, FS_Subset
  <2>4. U # {}
    <3>1. SUFFICES ASSUME U = {} PROVE Sorted(U)
      BY <2>3
    <3>2. Cardinality(U) = 0
      BY <3>1, FS_EmptySet
    <3>3. [i \in 1 .. Cardinality(U) |-> 0] \in [1 .. Cardinality(U) -> U]
      BY <3>2
    <3>4. \A i \in 1 .. Cardinality(U) : FALSE
      BY <3>2
    <3>5. QED
      BY <3>3, <3>4
  <2>5. PICK m \in U : \A n \in U : n <= m
    <3> HIDE DEF Sorted, C
    <3> QED BY <2>3, <2>4, Greatest
  <2> DEFINE V == U \ {m}
             n == Cardinality(U)
  <2>6. V \in SUBSET S /\ V # U /\ V \subseteq U
    BY <2>3
  <2>7. Sorted(V)
    BY <2>2, <2>6
  <2>8. n \in Nat /\ n > 0 /\ Cardinality(V) = n - 1
    <3>1. Cardinality(V) = n - 1
      BY <2>3, FS_RemoveElement
    <3>2. n \in Nat /\ Cardinality(V) \in Nat
      BY <2>3, FS_RemoveElement, FS_CardinalityType
    <3> HIDE DEF n, V
    <3>3. QED
      BY <3>1, <3>2
  <2> HIDE DEF n
  <2>9. PICK s \in [1 .. n - 1 -> V] : \A i, j \in 1 .. n - 1 : i < j => s[i] < s[j]
    BY <2>7, <2>8
  <2> DEFINE t == [i \in 1 .. n |-> IF i = n THEN m ELSE s[i]]
  <2>10. t \in [1 .. n -> U]
    BY <2>8, <2>9
  <2>11. ASSUME NEW i \in 1 .. n, NEW j \in 1 .. n, i < j
         PROVE  t[i] < t[j]
    <3>1. i \in 1 .. n - 1 /\ t[i] = s[i]
      BY <2>8, <2>11
    <3>0. s[i] \in V /\ s[i] \in Int /\ m \in Int
      BY <2>3, <2>9, <3>1
    <3>2. CASE j = n
      <4>1. s[i] <= m /\ s[i] # m
        BY <3>0, <2>5
      <4>2. QED
        BY <3>1, <3>0, <3>2, <4>1
    <3>3. CASE j # n
      <4>1. j \in 1 .. n - 1 /\ t[j] = s[j]
        BY <3>3, <2>8
      <4>2. QED
        BY <3>1, <4>1, <2>9, <2>11
    <3>4. QED
      BY <3>2, <3>3
  <2>12. Sorted(U)
    <3> HIDE DEF t
    <3> QED BY <2>10, <2>11 DEF n
  <2>13. QED
    BY <2>3, <2>12
<1>2. Sorted(S)
  BY <1>1
<1>3. QED
  BY <1>2

(* A sequence without repetitions of as many members as S has has them all.*)
LEMMA AscendingCovers ==
    ASSUME NEW S \in SUBSET Int, IsFiniteSet(S), NEW s \in [1 .. Cardinality(S) -> S],
           \A i, j \in DOMAIN s : i < j => s[i] < s[j]
    PROVE  Range(s) = S
<1> DEFINE n == Cardinality(S)
<1>1. n \in Nat /\ IsFiniteSet(1 .. n) /\ Cardinality(1 .. n) = n
  BY FS_CardinalityType, FS_Interval
<1>2. s \in Injection(1 .. n, S)
  <2>1. ASSUME NEW i \in 1 .. n, NEW j \in 1 .. n, s[i] = s[j]
        PROVE  i = j
    <3>1. DOMAIN s = 1 .. n /\ s[i] \in Int
      OBVIOUS
    <3>2. ~(i < j) /\ ~(j < i)
      BY <2>1, <3>1
    <3>3. QED
      BY <3>2
  <2>2. QED
    BY <2>1 DEF Injection, IsInjective
<1>3. s \in Surjection(1 .. n, S)
  BY <1>1, <1>2, FS_Injection
<1>4. QED
  BY <1>3 DEF Surjection, Range

(* The values of a function of a finite domain are finitely many.          *)
LEMMA FiniteRange ==
    ASSUME NEW D, IsFiniteSet(D), NEW T, NEW f \in [D -> T]
    PROVE  Range(f) \in SUBSET T /\ IsFiniteSet(Range(f))
<1>1. Range(f) \subseteq T /\ f \in Surjection(D, Range(f))
  BY DEF Surjection, Range
<1>2. QED
  BY <1>1, FS_Surjection

(* And so are the members of a sequence.                                   *)
LEMMA FiniteSeqRange ==
    ASSUME NEW T, NEW q \in Seq(T)
    PROVE  Range(q) \in SUBSET T /\ IsFiniteSet(Range(q))
<1>1. Len(q) \in Nat /\ q \in [1 .. Len(q) -> T]
  BY LenProperties
<1>2. IsFiniteSet(1 .. Len(q))
  BY <1>1, FS_Interval
<1>3. QED
  BY <1>1, <1>2, FiniteRange

(* A function of 1 .. n is a sequence of length n.                         *)
LEMMA FunctionIsSeq ==
    ASSUME NEW T, NEW n \in Nat, NEW f \in [1 .. n -> T]
    PROVE  f \in Seq(T) /\ Len(f) = n /\ DOMAIN f = 1 .. n
<1>1. f \in Seq(T)
  BY SeqDef
<1>2. DOMAIN f = 1 .. n
  OBVIOUS
<1>3. Len(f) = n
  BY <1>1, <1>2, LenProperties
<1>4. QED
  BY <1>1, <1>2, <1>3
=============================================================================
