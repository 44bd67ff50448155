---------------------------- MODULE FiniteInduction ----------------------------
(***************************************************************************)
(* Induction over numbers and over the subsets of a finite set, for        *)
(* properties that are sets: an invariant of a fold or of a filter is the  *)
(* set of the arguments for which it holds.                                *)
(***************************************************************************)
EXTENDS Integers, FiniteSets, FiniteSetTheorems, WellFoundedInduction, TLAPS

\* A set of numbers has a least element.
LEMMA Smallest ==
    ASSUME NEW T \in SUBSET Nat, T # {}
    PROVE  \E n \in T : \A m \in T : n <= m
<1> DEFINE R == OpToRel(<, Nat)
<1>1. ASSUME NEW x \in Nat, NEW y \in Nat, y < x PROVE <<y, x>> \in R
  BY <1>1 DEF OpToRel
<1>2. IsWellFoundedOn(R, Nat)
  BY NatLessThanWellFounded
<1> HIDE DEF R
<1>3. PICK x \in T : \A y \in T : ~(<<y, x>> \in R)
  BY <1>2, WFMin
<1>4. ASSUME NEW y \in T, ~(x <= y) PROVE FALSE
  <2>1. x \in Nat /\ y \in Nat
    OBVIOUS
  <2>2. y < x
    BY <2>1, <1>4
  <2> QED
    BY <1>1, <1>3, <2>1, <2>2
<1> QED
  BY <1>4

\* A property of the numbers up to n that every number passes on holds for all of them.
LEMMA NumberInduction ==
    ASSUME NEW n \in Nat, NEW P \in SUBSET (0..n), 0 \in P,
           \A i \in 1..n : i - 1 \in P => i \in P
    PROVE  P = 0..n
<1> SUFFICES ASSUME P # 0..n PROVE FALSE
  OBVIOUS
<1> DEFINE T == (0..n) \ P
<1>1. T \in SUBSET Nat /\ T # {}
  <2>1. (\A i \in 0..n : i \in P) => P = 0..n
    OBVIOUS
  <2> QED
    BY <2>1
<1>2. PICK i \in T : \A m \in T : i <= m
  BY <1>1, Smallest
<1>3. i \in 1..n /\ i - 1 \in 0..n
  OBVIOUS
<1>4. i - 1 \notin T
  BY <1>2, <1>3
<1> QED
  BY <1>2, <1>3, <1>4

\* A property that a set has when all sets with one element less have it holds for every
\* subset of a finite set.
LEMMA SubsetInduction ==
    ASSUME NEW S, IsFiniteSet(S), NEW P \in SUBSET (SUBSET S),
           \A s \in SUBSET S : (\A x \in s : s \ {x} \in P) => s \in P
    PROVE  P = SUBSET S
<1> SUFFICES ASSUME P # SUBSET S PROVE FALSE
  OBVIOUS
<1> DEFINE Bad == (SUBSET S) \ P
           T == {Cardinality(s) : s \in Bad}
<1>1. PICK b \in SUBSET S : b \notin P
  <2>1. (\A b \in SUBSET S : b \in P) => P = SUBSET S
    OBVIOUS
  <2> QED
    BY <2>1
<1>2. \A s \in SUBSET S : IsFiniteSet(s) /\ Cardinality(s) \in Nat
  BY FS_Subset, FS_CardinalityType
<1>3. T \in SUBSET Nat /\ T # {}
  <2>1. T \in SUBSET Nat
    BY <1>2
  <2>2. Cardinality(b) \in T
    BY <1>1
  <2> QED
    BY <2>1, <2>2
<1>4. PICK n \in T : \A m \in T : n <= m
  <2> HIDE DEF T
  <2> QED
    BY <1>3, Smallest
<1>5. PICK s \in Bad : n = Cardinality(s)
  BY <1>4
<1>6. ASSUME NEW x \in s PROVE s \ {x} \in P
  <2>1. IsFiniteSet(s) /\ Cardinality(s) \in Nat /\ s \in SUBSET S /\ s \ {x} \in SUBSET S
    BY <1>2
  <2>2. Cardinality(s \ {x}) = Cardinality(s) - 1
    BY <2>1, FS_RemoveElement
  <2>3. ~(n <= Cardinality(s \ {x}))
    BY <1>5, <2>1, <2>2
  <2>4. s \ {x} \notin Bad
    BY <1>4, <2>3
  <2> QED
    BY <2>1, <2>4
<1> QED
  BY <1>5, <1>6
=============================================================================
