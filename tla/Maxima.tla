-------------------------------- MODULE Maxima --------------------------------
(***************************************************************************)
(* Least and largest elements of sets of naturals: the facts behind the    *)
(* counters, tickets and positions that are taken with Max or Min.         *)
(***************************************************************************)
EXTENDS Integers, FiniteSetsExt, FiniteSetTheorems, WellFoundedInduction, TLAPS

\* A non-empty set of naturals has a least element.
LEMMA Least ==
  ASSUME NEW T \in SUBSET Nat, T # {}
  PROVE  \E n \in T : \A m \in T : n <= m
<1> DEFINE R == OpToRel(<, Nat)
<1>1. IsWellFoundedOn(R, Nat)
  BY NatLessThanWellFounded
<1>2. \A x, y \in Nat : <<y, x>> \in R <=> y < x
  BY DEF OpToRel
<1> HIDE DEF R
<1>3. PICK x \in T : \A y \in T : ~ (<<y, x>> \in R)
  BY <1>1, WFMin
<1>4. \A y \in T : ~ (y < x)
  BY <1>2, <1>3
<1> QED
  BY <1>4

\* A function with natural values has a largest value on a non-empty set of
\* indexes up to N (by the least N for which it had none).
LEMMA LargestValue ==
  ASSUME NEW N \in Nat, NEW S, S \subseteq 1 .. N, S # {},
         NEW f, \A i \in S : f[i] \in Nat
  PROVE  \E i \in S : \A j \in S : f[j] <= f[i]
<1> DEFINE Up(n) == {i \in S : i <= n}
           Has(n) == \E i \in Up(n) : \A j \in Up(n) : f[j] <= f[i]
           Bad == {n \in Nat : Up(n) # {} /\ ~Has(n)}
<1>0. \A i \in S : i \in Nat /\ 1 <= i /\ i <= N
  OBVIOUS
<1>1. SUFFICES ASSUME Bad # {} PROVE FALSE
  <2>1. N \notin Bad
    BY <1>1
  <2>2. Up(N) = S
    BY <1>0
  <2> QED
    BY <2>1, <2>2
<1>2. PICK n \in Bad : \A m \in Bad : n <= m
  BY <1>1, Least
<1>3. n # 0
  <2>1. \A i \in S : ~ (i <= 0)
    BY <1>0
  <2>2. PICK i \in S : i <= n
    BY <1>2
  <2> QED
    BY <2>1, <2>2
<1>4. n - 1 \in Nat /\ n - 1 \notin Bad
  BY <1>2, <1>3
<1>5. n \in S
  <2> SUFFICES ASSUME n \notin S PROVE FALSE
    OBVIOUS
  <2>1. n \in Nat
    OBVIOUS
  <2>2. \A i \in S : i <= n <=> i <= n - 1
    BY <2>1, <1>0, <1>4
  <2>3. Up(n - 1) = Up(n)
    BY <2>2
  <2> QED
    BY <2>3, <1>2, <1>4
<1>6. CASE Up(n - 1) = {}
  <2>1. \A j \in Up(n) : j = n
    BY <1>0, <1>4, <1>6
  <2>2. n \in Up(n) /\ f[n] \in Nat
    BY <1>5
  <2> QED
    BY <2>1, <2>2, <1>2
<1>7. CASE Up(n - 1) # {}
  <2>1. PICK i \in Up(n - 1) : \A j \in Up(n - 1) : f[j] <= f[i]
    BY <1>7, <1>4
  <2>2. \A j \in Up(n) : f[j] \in Nat /\ (j = n \/ j \in Up(n - 1))
    BY <1>0, <1>4
  <2>3. i \in Up(n) /\ n \in Up(n) /\ f[i] \in Nat /\ f[n] \in Nat
    BY <1>0, <1>4, <1>5, <2>1
  <2>4. CASE f[n] <= f[i]
    BY <2>1, <2>2, <2>3, <2>4, <1>2
  <2>5. CASE f[i] <= f[n]
    <3>1. \A j \in Up(n) : f[j] <= f[n]
      BY <2>1, <2>2, <2>3, <2>5
    <3> QED
      BY <3>1, <2>3, <1>2
  <2> QED
    BY <2>3, <2>4, <2>5
<1> QED
  BY <1>6, <1>7

\* The maximum of a non-empty set of naturals that N bounds.
LEMMA MaxOfBounded ==
  ASSUME NEW N \in Nat, NEW S, S \subseteq 1 .. N, S # {}
  PROVE  Max(S) \in S /\ \A i \in S : i <= Max(S)
<1> DEFINE f == [i \in S |-> i]
<1>1. \A i \in S : f[i] \in Nat /\ f[i] = i
  OBVIOUS
<1>2. PICK m \in S : \A j \in S : f[j] <= f[m]
  <2> HIDE DEF f
  <2> QED
    BY <1>1, LargestValue
<1>3. m \in S /\ \A j \in S : m >= j
  BY <1>1, <1>2
<1> QED
  BY <1>3 DEF Max

\* The maximum of a non-empty finite set of naturals.
LEMMA MaxOfFinite ==
  ASSUME NEW S \in SUBSET Nat, S # {}, IsFiniteSet(S)
  PROVE  Max(S) \in S /\ \A i \in S : i <= Max(S)
<1>1. PICK n \in Nat : ExistsSurjection(1 .. n, S)
  BY FS_NatSurjection
<1>2. PICK f \in Surjection(1 .. n, S) : TRUE
  BY <1>1 DEF ExistsSurjection
<1>3. f \in [1 .. n -> S] /\ \A x \in S : \E i \in 1 .. n : f[i] = x
  BY <1>2 DEF Surjection
<1>4. 1 .. n # {} /\ \A i \in 1 .. n : f[i] \in Nat
  BY <1>3
<1>5. PICK m \in 1 .. n : \A j \in 1 .. n : f[j] <= f[m]
  BY <1>4, LargestValue
<1>6. f[m] \in S /\ \A j \in S : f[m] >= j
  BY <1>3, <1>4, <1>5
<1> QED
  BY <1>6 DEF Max

\* The largest of the values a function takes on a finite set, and 0.
LEMMA MaxOfValues ==
  ASSUME NEW S, IsFiniteSet(S), NEW f, \A i \in S : f[i] \in Nat
  PROVE  /\ Max({f[i] : i \in S} \cup {0}) \in Nat
         /\ \A i \in S : f[i] <= Max({f[j] : j \in S} \cup {0})
<1> DEFINE V == {f[i] : i \in S}
<1>1. IsFiniteSet(V)
  <2> DEFINE g == [i \in S |-> f[i]]
  <2>1. g \in Surjection(S, V)
    BY DEF Surjection
  <2> QED
    BY <2>1, FS_Surjection
<1>2. IsFiniteSet(V \cup {0}) /\ V \cup {0} \in SUBSET Nat /\ V \cup {0} # {}
  BY <1>1, FS_AddElement
<1> QED
  BY <1>2, MaxOfFinite
=============================================================================
