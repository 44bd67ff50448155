---------------------------- MODULE RankingProofs ----------------------------
(***************************************************************************)
(* What a retrieval ranks, for any chunks, documents, scores, limits and   *)
(* lengths of texts and contexts.                                          *)
(*                                                                         *)
(* Every list of the pipeline is ranked: in order, no chunk twice.  The    *)
(* functions that make the lists fold over sequences, so each is first     *)
(* shown to go through a table of steps, one for every place; what holds   *)
(* of the first step and is passed on from each to the next then holds of  *)
(* the result.  For the merge this is that the scores are the highest of   *)
(* the items seen so far; for the choices, that what was passed over was   *)
(* passed over because the list or its document was full; for the context, *)
(* that there is a character left for every text that is to come.  The     *)
(* fusion needs that the worth of a rank falls with the rank, in integer   *)
(* division too, up to the longest list a search is asked for.             *)
(***************************************************************************)
EXTENDS Ranking, FiniteInduction, TLAPS
-----------------------------------------------------------------------------
(* Folds *)

\* The subsets of at most n elements.
Few(S, n) == {s \in SUBSET S : Cardinality(s) <= n}

\* A function that folds the subsets of S, taking c[s] from s and combining by G.
Folding(S, base, c, G, it) ==
    \A s \in SUBSET S : it[s] = IF s = {} THEN base ELSE G[c[s]][it[s \ {c[s]}]]

\* A function that does so for the subsets of at most n elements.
FoldsFew(S, n, B, base, c, G, it) ==
    /\ it \in [Few(S, n) -> B]
    /\ \A s \in Few(S, n) : it[s] = IF s = {} THEN base ELSE G[c[s]][it[s \ {c[s]}]]

\* What S is folded with stays in B.
Foldable(S, B, base, c, G) ==
    /\ base \in B
    /\ \A s \in SUBSET S : s # {} => c[s] \in s
    /\ \A x \in S : \A b \in B : G[x][b] \in B

\* What is left of a small set without one of its elements is smaller.
LEMMA FewerLeft ==
    ASSUME NEW S, IsFiniteSet(S), NEW n \in Nat, NEW s \in Few(S, n), NEW x \in s
    PROVE  n # 0 /\ x \in S /\ s \ {x} \in Few(S, n - 1) /\ s \ {x} \in Few(S, n)
<1>1. s \in SUBSET S /\ Cardinality(s) <= n /\ IsFiniteSet(s)
  BY FS_Subset DEF Few
<1>2. Cardinality(s \ {x}) = Cardinality(s) - 1 /\ Cardinality(s) \in Nat
  BY <1>1, FS_RemoveElement, FS_CardinalityType
<1>3. Cardinality(s) # 0
  BY <1>1, FS_EmptySet
<1> QED
  BY <1>1, <1>2, <1>3 DEF Few

\* There is such a function: for the small subsets first, then for larger ones.
LEMMA FoldExists ==
    ASSUME NEW S, IsFiniteSet(S), NEW B, NEW base, NEW c, NEW G, Foldable(S, B, base, c, G)
    PROVE  \E it \in [SUBSET S -> B] : Folding(S, base, c, G, it)
<1> base \in B /\ (\A s \in SUBSET S : s # {} => c[s] \in s)
      /\ (\A x \in S : \A b \in B : G[x][b] \in B)
  BY DEF Foldable
<1> DEFINE N == Cardinality(S)
           P == {n \in 0..N : \E it : FoldsFew(S, n, B, base, c, G, it)}
<1>0. N \in Nat
  BY FS_CardinalityType
<1>1. 0 \in P
  <2>1. Few(S, 0) = {{}}
    <3>1. \A s \in SUBSET S : IsFiniteSet(s) /\ (Cardinality(s) = 0 <=> s = {}) /\ Cardinality(s) \in Nat
      BY FS_Subset, FS_EmptySet, FS_CardinalityType
    <3> HIDE DEF P, N
    <3> QED
      BY <3>1 DEF Few
  <2> DEFINE it == [s \in Few(S, 0) |-> base]
  <2>2. FoldsFew(S, 0, B, base, c, G, it)
    <3> HIDE DEF P, N
    <3> QED
      BY <2>1 DEF FoldsFew
  <2> HIDE DEF it
  <2> QED
    BY <1>0, <2>2
<1>2. ASSUME NEW n \in 1..N, n - 1 \in P PROVE n \in P
  <2>1. PICK g : FoldsFew(S, n - 1, B, base, c, G, g)
    BY <1>2
  <2> DEFINE it == [s \in Few(S, n) |-> IF s = {} THEN base ELSE G[c[s]][g[s \ {c[s]}]]]
  <2>2. n \in Nat /\ n - 1 \in Nat
    OBVIOUS
  <2>3. ASSUME NEW s \in Few(S, n), s # {}
        PROVE  c[s] \in S /\ g[s \ {c[s]}] \in B /\ it[s \ {c[s]}] = g[s \ {c[s]}]
    <3> HIDE DEF P, N
    <3>1. c[s] \in s
      BY <2>3 DEF Few
    <3>2. c[s] \in S /\ s \ {c[s]} \in Few(S, n - 1) /\ s \ {c[s]} \in Few(S, n)
      BY <2>2, <3>1, FewerLeft
    <3>3. g[s \ {c[s]}] \in B
      BY <2>1, <3>2 DEF FoldsFew
    <3> DEFINE t == s \ {c[s]}
    <3>4. g[t] = IF t = {} THEN base ELSE G[c[t]][g[t \ {c[t]}]]
      BY <2>1, <3>2 DEF FoldsFew
    <3>5. it[t] = IF t = {} THEN base ELSE G[c[t]][g[t \ {c[t]}]]
      BY <3>2
    <3> QED
      BY <3>2, <3>3, <3>4, <3>5
  <2> HIDE DEF P
  <2>4. it \in [Few(S, n) -> B]
    <3>1. ASSUME NEW s \in Few(S, n)
          PROVE  (IF s = {} THEN base ELSE G[c[s]][g[s \ {c[s]}]]) \in B
      <4>1. CASE s = {}
        BY <4>1
      <4>2. CASE s # {}
        <5>1. c[s] \in S /\ g[s \ {c[s]}] \in B
          BY <2>3, <4>2
        <5> HIDE DEF it
        <5> QED
          BY <4>2, <5>1
      <4> QED
        BY <4>1, <4>2
    <3> QED
      BY <3>1
  <2>5. ASSUME NEW s \in Few(S, n)
        PROVE  it[s] = IF s = {} THEN base ELSE G[c[s]][it[s \ {c[s]}]]
    <3>1. it[s] = IF s = {} THEN base ELSE G[c[s]][g[s \ {c[s]}]]
      OBVIOUS
    <3> HIDE DEF it
    <3> QED
      BY <2>3, <3>1
  <2>6. FoldsFew(S, n, B, base, c, G, it)
    <3> HIDE DEF it
    <3> QED
      BY <2>4, <2>5 DEF FoldsFew
  <2> HIDE DEF it
  <2> USE DEF P
  <2> QED
    BY <2>6
<1>3. P = 0..N
  <2>1. P \in SUBSET (0..N)
    OBVIOUS
  <2> HIDE DEF P, N
  <2> QED
    BY <1>0, <1>1, <1>2, <2>1, NumberInduction
<1>4. PICK it : FoldsFew(S, N, B, base, c, G, it)
  BY <1>0, <1>3
<1>5. Few(S, N) = SUBSET S
  <2> HIDE DEF P
  <2> QED
    BY FS_Subset DEF Few
<1> HIDE DEF P, N
<1> QED
  BY <1>4, <1>5 DEF Folding, FoldsFew

\* Of numbers up to n, a largest one.
LEMMA Largest ==
    ASSUME NEW n \in Nat, NEW s \in SUBSET (0..n), s # {}
    PROVE  Max(s) \in s /\ \A x \in s : x <= Max(s)
<1> DEFINE T == {n - x : x \in s}
<1>1. T \in SUBSET Nat /\ T # {}
  <2>1. \A x \in s : n - x \in Nat
    OBVIOUS
  <2>2. \A t \in T : \E x \in s : t = n - x
    BY Zenon
  <2>3. T # {}
    <3>1. PICK x \in s : TRUE
      OBVIOUS
    <3>2. n - x \in T
      BY <3>1, Zenon
    <3> QED
      BY <3>2, Zenon
  <2> HIDE DEF T
  <2> QED
    BY <2>1, <2>2, <2>3
<1>2. PICK t \in T : \A u \in T : t <= u
  <2> HIDE DEF T
  <2> QED
    BY <1>1, Smallest
<1>3. PICK y \in s : t = n - y
  BY Zenon
<1>4. ASSUME NEW x \in s PROVE y >= x
  <2>1. n - x \in T
    OBVIOUS
  <2>2. n - y <= n - x /\ x \in Int /\ y \in Int
    BY <1>2, <1>3, <2>1
  <2> QED
    BY <2>2
<1>5. Max(s) \in s /\ \A x \in s : Max(s) >= x
  BY <1>4, Zenon DEF Max
<1> QED
  BY <1>5

\* Of some numbers, a smallest one.
LEMMA LeastOne ==
    ASSUME NEW s \in SUBSET Nat, s # {}
    PROVE  Min(s) \in s /\ \A x \in s : Min(s) <= x
<1>1. \E y \in s : \A x \in s : y <= x
  BY Smallest
<1> QED
  BY <1>1, Zenon DEF Min

LEMMA SmallerOfTwo ==
    ASSUME NEW a \in Int, NEW b \in Int
    PROVE  Min({a, b}) = IF a <= b THEN a ELSE b
BY SMT DEF Min

LEMMA LargerOfTwo ==
    ASSUME NEW a \in Int, NEW b \in Int
    PROVE  Max({a, b}) = IF a >= b THEN a ELSE b
BY SMT DEF Max

\* The largest number of a set, as a function.
Tops(n) == [s \in SUBSET (1..n) |-> Max(s)]

\* The largest number of a set is one of it.
LEMMA TopIn ==
    ASSUME NEW n \in Nat, NEW s \in SUBSET (1..n), s # {}
    PROVE  Tops(n)[s] = Max(s) /\ Max(s) \in s
<1>1. s \in SUBSET (0..n)
  OBVIOUS
<1> QED
  BY <1>1, Largest DEF Tops

\* The largest of 1..i, and what is left without it.
LEMMA TopOf ==
    ASSUME NEW i \in Nat, i # 0
    PROVE  Max(1..i) = i /\ (1..i) \ {i} = 1..(i - 1) /\ 1..i # {}
<1>1. 1..i \in SUBSET (0..i) /\ i \in 1..i
  OBVIOUS
<1>2. Max(1..i) \in 1..i /\ i <= Max(1..i)
  BY <1>1, Largest
<1> QED
  BY <1>1, <1>2

\* The places before one are places.
LEMMA PlacesBelow ==
    /\ 1..0 = {}
    /\ \A n \in Nat : 0 \in 0..n
    /\ \A n \in Nat : \A i \in 1..n : i \in 0..n /\ i - 1 \in 0..n /\ 1..i \in SUBSET (1..n)
BY SMT
-----------------------------------------------------------------------------
(* Sums *)

\* The element that a sum takes out first, and the sums of all subsets.
AnyOf(s) == CHOOSE x \in s : TRUE
SumIter(f, S) == CHOOSE it : it = [s \in SUBSET S |->
                    IF s = {} THEN 0 ELSE f[AnyOf(s)] + it[s \ {AnyOf(s)}]]
SumOver(f, S) == SumFunctionOnSet(f, S)

\* f gives numbers on S, and the sum over a nonempty s in terms of a smaller one.
Numbers(f, S) == \A x \in S : f[x] \in Nat

With(f, S, s) == f[AnyOf(s)] + SumIter(f, S)[s \ {AnyOf(s)}]

\* The sum of the library is the one of these functions.
LEMMA SumIs == ASSUME NEW f, NEW S PROVE SumOver(f, S) = SumIter(f, S)[S]
BY Zenon DEF SumOver, SumFunctionOnSet, FoldFunctionOnSet, MapThenFoldSet, SumIter, AnyOf

LEMMA AnyOfIn == ASSUME NEW s, s # {} PROVE AnyOf(s) \in s
BY DEF AnyOf

\* The sums of the subsets of a finite set are numbers, and each follows from a smaller one.
LEMMA IterSums ==
    ASSUME NEW f, NEW S, IsFiniteSet(S), Numbers(f, S)
    PROVE  /\ SumIter(f, S) \in [SUBSET S -> Nat]
           /\ \A s \in SUBSET S : SumIter(f, S)[s] =
                  IF s = {} THEN 0 ELSE f[AnyOf(s)] + SumIter(f, S)[s \ {AnyOf(s)}]
<1> DEFINE c == [s \in SUBSET S |-> AnyOf(s)]
           G == [x \in S |-> [b \in Nat |-> f[x] + b]]
<1>1. \A s \in SUBSET S : s # {} => c[s] \in s
  BY AnyOfIn
<1>2. \A x \in S, b \in Nat : G[x][b] \in Nat
  BY DEF Numbers
<1>3. PICK g \in [SUBSET S -> Nat] : Folding(S, 0, c, G, g)
  <2>1. Foldable(S, Nat, 0, c, G)
    <3> HIDE DEF c, G
    <3> QED
      BY <1>1, <1>2 DEF Foldable
  <2> HIDE DEF c, G
  <2> QED
    BY <2>1, FoldExists
<1>4. ASSUME NEW s \in SUBSET S
      PROVE  g[s] = IF s = {} THEN 0 ELSE f[AnyOf(s)] + g[s \ {AnyOf(s)}]
  <2>1. CASE s = {}
    BY <1>3, <2>1 DEF Folding
  <2>2. CASE s # {}
    <3>1. c[s] = AnyOf(s) /\ AnyOf(s) \in S /\ s \ {AnyOf(s)} \in SUBSET S
      BY <2>2, AnyOfIn
    <3>2. g[s \ {AnyOf(s)}] \in Nat
      BY <1>3, <3>1
    <3>3. G[AnyOf(s)][g[s \ {AnyOf(s)}]] = f[AnyOf(s)] + g[s \ {AnyOf(s)}]
      BY <3>1, <3>2
    <3>4. g[s] = G[c[s]][g[s \ {c[s]}]]
      BY <1>3, <2>2 DEF Folding
    <3> HIDE DEF c, G
    <3> QED
      BY <2>2, <3>1, <3>3, <3>4
  <2> QED
    BY <2>1, <2>2
<1>5. g = [s \in SUBSET S |-> IF s = {} THEN 0 ELSE f[AnyOf(s)] + g[s \ {AnyOf(s)}]]
  <2> HIDE DEF c, G
  <2> QED
    BY <1>3, <1>4
<1> DEFINE it == SumIter(f, S)
<1>6. it = [s \in SUBSET S |-> IF s = {} THEN 0 ELSE f[AnyOf(s)] + it[s \ {AnyOf(s)}]]
  BY <1>5, Zenon DEF SumIter
<1> HIDE DEF it, c, G
<1>7. \A s \in SUBSET S : it[s] = IF s = {} THEN 0 ELSE f[AnyOf(s)] + it[s \ {AnyOf(s)}]
  BY <1>6, Zenon
<1>8. DOMAIN it = SUBSET S /\ it = [s \in SUBSET S |-> it[s]]
  BY <1>6, Zenon
<1> DEFINE P == {s \in SUBSET S : it[s] \in Nat}
<1>9. ASSUME NEW s \in SUBSET S, \A x \in s : s \ {x} \in P PROVE s \in P
  <2>1. CASE s = {}
    <3>1. it[s] = 0
      BY <1>7, <2>1
    <3> QED
      BY <3>1
  <2>2. CASE s # {}
    <3>1. AnyOf(s) \in s
      BY <2>2, AnyOfIn
    <3>2. it[s \ {AnyOf(s)}] \in Nat /\ f[AnyOf(s)] \in Nat
      BY <1>9, <3>1 DEF Numbers
    <3>3. it[s] = f[AnyOf(s)] + it[s \ {AnyOf(s)}]
      BY <1>7, <2>2
    <3> QED
      BY <3>2, <3>3
  <2> QED
    BY <2>1, <2>2
<1>10. P = SUBSET S
  <2>1. P \in SUBSET (SUBSET S)
    OBVIOUS
  <2> HIDE DEF P
  <2> QED
    BY <1>9, <2>1, SubsetInduction
<1>11. \A s \in SUBSET S : it[s] \in Nat
  BY <1>10
<1>12. it \in [SUBSET S -> Nat]
  BY <1>8, <1>11
<1> QED
  BY <1>7, <1>12 DEF it

\* The same, of one subset.
LEMMA IterSum ==
    ASSUME NEW f, NEW S, IsFiniteSet(S), Numbers(f, S), NEW s \in SUBSET S
    PROVE  /\ SumIter(f, S)[s] \in Nat
           /\ s = {} => SumIter(f, S)[s] = 0
           /\ s # {} => SumIter(f, S)[s] = With(f, S, s) /\ f[AnyOf(s)] \in Nat
<1> DEFINE it == SumIter(f, S)
<1>1. it \in [SUBSET S -> Nat]
      /\ \A t \in SUBSET S : it[t] = IF t = {} THEN 0 ELSE f[AnyOf(t)] + it[t \ {AnyOf(t)}]
  BY IterSums, ZenonT(60)
<1> HIDE DEF it
<1>2. it[s] \in Nat /\ (s = {} => it[s] = 0) /\ (s # {} => it[s] = f[AnyOf(s)] + it[s \ {AnyOf(s)}])
  BY <1>1
<1>3. s # {} => f[AnyOf(s)] \in Nat
  BY AnyOfIn DEF Numbers
<1> QED
  BY <1>2, <1>3 DEF it, With

\* The sum over a set depends on the values on this set only.
LEMMA SumsAgree ==
    ASSUME NEW S, IsFiniteSet(S), NEW T \in SUBSET S, NEW f, NEW g,
           Numbers(f, S), \A x \in T : f[x] = g[x]
    PROVE  \A s \in SUBSET T : SumIter(f, S)[s] = SumIter(g, T)[s]
<1>1. IsFiniteSet(T) /\ Numbers(g, T)
  BY FS_Subset DEF Numbers
<1> DEFINE P == {s \in SUBSET T : SumIter(f, S)[s] = SumIter(g, T)[s]}
<1>2. ASSUME NEW s \in SUBSET T, \A x \in s : s \ {x} \in P PROVE s \in P
  <2>0. s \in SUBSET S
    OBVIOUS
  <2>1. CASE s = {}
    <3>1. SumIter(f, S)[s] = 0
      BY <2>0, <2>1, IterSum
    <3>2. SumIter(g, T)[s] = 0
      BY <1>1, <2>1, IterSum
    <3> QED
      BY <3>1, <3>2
  <2>2. CASE s # {}
    <3>1. AnyOf(s) \in s
      BY <2>2, AnyOfIn
    <3>2. SumIter(f, S)[s \ {AnyOf(s)}] = SumIter(g, T)[s \ {AnyOf(s)}] /\ f[AnyOf(s)] = g[AnyOf(s)]
      BY <1>2, <3>1
    <3>3. SumIter(f, S)[s] = With(f, S, s)
      BY <2>0, <2>2, IterSum
    <3>4. SumIter(g, T)[s] = With(g, T, s)
      BY <1>1, <2>2, IterSum
    <3>5. With(f, S, s) = With(g, T, s)
      BY <3>2 DEF With
    <3> QED
      BY <3>3, <3>4, <3>5
  <2> QED
    BY <2>1, <2>2
<1>3. P = SUBSET T
  <2>1. P \in SUBSET (SUBSET T)
    OBVIOUS
  <2> HIDE DEF P
  <2> QED
    BY <1>1, <1>2, <2>1, SubsetInduction
<1> QED
  BY <1>3

\* Equal functions have equal sums.
LEMMA SumAlike ==
    ASSUME NEW S, IsFiniteSet(S), NEW f, NEW g, Numbers(f, S), \A x \in S : f[x] = g[x]
    PROVE  SumOver(f, S) = SumOver(g, S)
BY SumsAgree, SumIs

\* Nothing sums to 0.
LEMMA SumNone == ASSUME NEW f PROVE SumOver(f, {}) = 0
<1>1. IsFiniteSet({}) /\ Numbers(f, {})
  BY FS_EmptySet DEF Numbers
<1> QED
  BY <1>1, IterSum, SumIs

\* A sum of numbers is a number.
LEMMA SumWithin ==
    ASSUME NEW S, IsFiniteSet(S), NEW f, Numbers(f, S), NEW T \in SUBSET S
    PROVE  SumOver(f, T) = SumIter(f, S)[T] /\ SumOver(f, T) \in Nat
<1>1. SumIter(f, S)[T] = SumIter(f, T)[T]
  BY SumsAgree
<1> QED
  BY <1>1, SumIs, IterSum

\* Any element may be taken out of a sum.
LEMMA SumLess ==
    ASSUME NEW S, IsFiniteSet(S), NEW f, Numbers(f, S), NEW y \in S
    PROVE  SumOver(f, S) = f[y] + SumOver(f, S \ {y}) /\ SumOver(f, S \ {y}) \in Nat
<1> DEFINE P == {s \in SUBSET S : \A x \in s : SumOver(f, s) = f[x] + SumOver(f, s \ {x})}
<1>1. ASSUME NEW s \in SUBSET S, s # {}
      PROVE  SumOver(f, s) = f[AnyOf(s)] + SumOver(f, s \ {AnyOf(s)})
  <2>1. s \ {AnyOf(s)} \in SUBSET S
    OBVIOUS
  <2> QED
    <3>1. SumOver(f, s) = SumIter(f, S)[s] /\ SumOver(f, s \ {AnyOf(s)}) = SumIter(f, S)[s \ {AnyOf(s)}]
      BY <2>1, SumWithin
    <3>2. SumIter(f, S)[s] = With(f, S, s)
      BY <1>1, IterSum
    <3> QED
      BY <3>1, <3>2 DEF With
<1>2. ASSUME NEW s \in SUBSET S, \A x \in s : s \ {x} \in P PROVE s \in P
  <2>1. ASSUME NEW x \in s PROVE SumOver(f, s) = f[x] + SumOver(f, s \ {x})
    <3> DEFINE a == AnyOf(s)
    <3>1. a \in s
      BY <2>1, AnyOfIn
    <3>2. SumOver(f, s) = f[a] + SumOver(f, s \ {a})
      BY <1>1, <2>1
    <3> HIDE DEF a
    <3>3. CASE a = x
      BY <3>2, <3>3
    <3>4. CASE a # x
      <4>1. SumOver(f, s \ {a}) = f[x] + SumOver(f, (s \ {a}) \ {x})
        BY <1>2, <3>1, <3>4
      <4>2. SumOver(f, s \ {x}) = f[a] + SumOver(f, (s \ {x}) \ {a})
        BY <1>2, <3>1, <3>4
      <4>3. (s \ {a}) \ {x} = (s \ {x}) \ {a} /\ (s \ {x}) \ {a} \in SUBSET S
        OBVIOUS
      <4>4. f[x] \in Nat /\ f[a] \in Nat /\ SumOver(f, (s \ {x}) \ {a}) \in Nat
        BY <3>1, <4>3, SumWithin DEF Numbers
      <4> HIDE DEF P
      <4> QED
        BY <3>2, <4>1, <4>2, <4>3, <4>4
    <3> QED
      BY <3>3, <3>4
  <2> QED
    BY <2>1
<1>3. P = SUBSET S
  <2>1. P \in SUBSET (SUBSET S)
    OBVIOUS
  <2> HIDE DEF P
  <2> QED
    BY <1>2, <2>1, SubsetInduction
<1>4. SumOver(f, S) = f[y] + SumOver(f, S \ {y})
  BY <1>3
<1> QED
  BY <1>4, SumWithin

\* The sum of a sequence to which a number is appended.
LEMMA SumAppended ==
    ASSUME NEW s \in Seq(Nat), NEW x \in Nat
    PROVE  SumFunction(Append(s, x)) = SumFunction(s) + x /\ SumFunction(s) \in Nat
<1> DEFINE n == Len(s)
<1>0. n \in Nat /\ s \in [1..n -> Nat]
  OBVIOUS
<1>1. PICK t : t = Append(s, x)
  OBVIOUS
<1>2. Len(t) = n + 1 /\ DOMAIN t = 1..(n + 1) /\ t[n + 1] = x /\ \A i \in 1..n : t[i] = s[i]
  BY <1>1
<1> HIDE DEF n
<1>3. \A i \in 1..n : s[i] \in Nat
  BY <1>0
<1>4. \A i \in 1..(n + 1) : t[i] \in Nat
  <2>1. \A i \in 1..(n + 1) : i = n + 1 \/ i \in 1..n
    BY <1>0
  <2> QED
    BY <1>2, <1>3, <2>1
<1>5. n + 1 \in 1..(n + 1) /\ (1..(n + 1)) \ {n + 1} = 1..n
  BY <1>0
<1>6. IsFiniteSet(1..(n + 1)) /\ IsFiniteSet(1..n) /\ Numbers(t, 1..(n + 1)) /\ Numbers(s, 1..n)
  <2>1. 1 \in Int /\ n \in Int /\ n + 1 \in Int
    BY <1>0
  <2>2. IsFiniteSet(1..(n + 1)) /\ IsFiniteSet(1..n)
    BY <2>1, FS_Interval
  <2> QED
    BY <1>3, <1>4, <2>2 DEF Numbers
<1>7. SumOver(t, 1..(n + 1)) = x + SumOver(t, 1..n) /\ SumOver(t, 1..n) \in Nat
  <2> DEFINE S == 1..(n + 1)
             y == n + 1
  <2>1. y \in S /\ S \ {y} = 1..n /\ t[y] = x /\ IsFiniteSet(S) /\ Numbers(t, S)
    BY <1>2, <1>5, <1>6
  <2> HIDE DEF S, y
  <2>2. SumOver(t, S) = t[y] + SumOver(t, S \ {y}) /\ SumOver(t, S \ {y}) \in Nat
    BY <2>1, SumLess
  <2>3. SumOver(t, S) = x + SumOver(t, 1..n) /\ SumOver(t, 1..n) \in Nat
    BY <2>1, <2>2
  <2> QED
    BY <2>3 DEF S
<1>8. SumOver(t, 1..n) = SumOver(s, 1..n)
  <2>1. Numbers(t, 1..n)
    BY <1>2, <1>3 DEF Numbers
  <2> QED
    BY <1>2, <1>6, <2>1, SumAlike
<1>9. SumFunction(s) = SumOver(s, 1..n) /\ SumFunction(t) = SumOver(t, 1..(n + 1))
  BY <1>0, <1>2 DEF SumFunction, SumOver
<1> QED
  <2>1. SumOver(t, 1..(n + 1)) = SumOver(s, 1..n) + x /\ SumOver(s, 1..n) \in Nat
    BY <1>7, <1>8
  <2> QED
    BY <1>1, <1>9, <2>1

\* No text has length 0.
LEMMA SumEmpty == SumFunction(<<>>) = 0
<1>1. DOMAIN <<>> = {}
  OBVIOUS
<1> QED
  BY <1>1, SumNone DEF SumFunction, SumOver

-----------------------------------------------------------------------------
(* Sorting *)

\* A chunk of a list with its scores.
ItemRecs == [chunk : Chunks, score : Int, raw : Int]
\* No chunk twice.
Distinct(S) == \A a, b \in S : a.chunk = b.chunk => a = b

\* Earlier places hold better items.
InOrder(s) == \A i, j \in DOMAIN s : i < j => Precedes(s[i], s[j])
\* A list without repetitions, the better chunks first.
Ranked(s) == s \in Seq(ItemRecs) /\ InOrder(s) /\ Distinct(Range(s))

\* Of two items of different chunks exactly one is better.
LEMMA PrecedesOrders ==
    ASSUME RankingConstants, NEW a \in ItemRecs, NEW b \in ItemRecs
    PROVE  /\ Precedes(a, b) => ~Precedes(b, a) /\ a # b /\ a.score >= b.score
           /\ a.chunk # b.chunk => Precedes(a, b) \/ Precedes(b, a)
<1>1. a.score \in Int /\ b.score \in Int /\ a.chunk \in Int /\ b.chunk \in Int
      /\ Source[a.chunk] \in Int /\ Source[b.chunk] \in Int
  BY DEF ItemRecs, RankingConstants
<1> QED
  BY <1>1 DEF Precedes

\* Better than a better one is better.
LEMMA PrecedesOn ==
    ASSUME RankingConstants, NEW a \in ItemRecs, NEW b \in ItemRecs, NEW c \in ItemRecs,
           Precedes(a, b), Precedes(b, c)
    PROVE  Precedes(a, c)
<1>1. a.score \in Int /\ b.score \in Int /\ a.chunk \in Int /\ b.chunk \in Int
      /\ Source[a.chunk] \in Int /\ Source[b.chunk] \in Int
      /\ c.score \in Int /\ c.chunk \in Int /\ Source[c.chunk] \in Int
  BY DEF ItemRecs, RankingConstants
<1> QED
  BY <1>1 DEF Precedes

\* Of finitely many items, one comes last.
LEMMA LastOne ==
    ASSUME RankingConstants, NEW S \in SUBSET ItemRecs, IsFiniteSet(S), Distinct(S), S # {}
    PROVE  \E m \in S : \A x \in S \ {m} : Precedes(x, m)
<1> DEFINE P == {s \in SUBSET S : s = {} \/ \E m \in s : \A x \in s \ {m} : Precedes(x, m)}
<1>1. ASSUME NEW s \in SUBSET S, \A x \in s : s \ {x} \in P PROVE s \in P
  <2> SUFFICES ASSUME s # {} PROVE \E m \in s : \A x \in s \ {m} : Precedes(x, m)
    OBVIOUS
  <2>1. PICK y \in s : TRUE
    OBVIOUS
  <2>2. s \ {y} \in P
    BY <1>1
  <2>3. CASE s \ {y} = {}
    BY <2>1, <2>3
  <2>4. CASE s \ {y} # {}
    <3>1. PICK m \in s \ {y} : \A x \in (s \ {y}) \ {m} : Precedes(x, m)
      BY <2>2, <2>4
    <3>2. y \in ItemRecs /\ m \in ItemRecs /\ y.chunk # m.chunk
      BY <3>1 DEF Distinct
    <3> HIDE DEF P
    <3>3. CASE Precedes(y, m)
      BY <3>1, <3>3
    <3>4. CASE Precedes(m, y)
      <4>1. ASSUME NEW x \in s \ {y} PROVE Precedes(x, y)
        <5>1. x = m \/ Precedes(x, m)
          BY <3>1
        <5>2. x \in ItemRecs
          OBVIOUS
        <5> QED
          BY <3>2, <3>4, <5>1, <5>2, PrecedesOn
      <4> QED
        BY <4>1
    <3> QED
      BY <3>2, <3>3, <3>4, PrecedesOrders
  <2> QED
    BY <2>3, <2>4
<1>2. P = SUBSET S
  <2>1. P \in SUBSET (SUBSET S)
    OBVIOUS
  <2> HIDE DEF P
  <2> QED
    BY <1>1, <2>1, SubsetInduction
<1>3. S \in P
  BY <1>2
<1> QED
  BY <1>3

\* Finitely many items without repeated chunks can be put in order.
LEMMA SortExists ==
    ASSUME RankingConstants, NEW S \in SUBSET ItemRecs, IsFiniteSet(S), Distinct(S)
    PROVE  \E order \in [1..Cardinality(S) -> S] : InOrder(order)
<1> DEFINE P == {s \in SUBSET S : \E order \in [1..Cardinality(s) -> s] : InOrder(order)}
<1>1. ASSUME NEW s \in SUBSET S, \A x \in s : s \ {x} \in P PROVE s \in P
  <2>0. IsFiniteSet(s) /\ Cardinality(s) \in Nat
    BY FS_Subset, FS_CardinalityType
  <2>1. CASE s = {}
    <3>1. Cardinality(s) = 0 /\ 1..0 = {}
      BY <2>1, FS_EmptySet
    <3> DEFINE order == [i \in 1..0 |-> i]
    <3>2. order \in [1..Cardinality(s) -> s] /\ InOrder(order)
      BY <3>1 DEF InOrder
    <3> HIDE DEF order
    <3> QED
      BY <3>2
  <2>2. CASE s # {}
    <3>1. s \in SUBSET ItemRecs /\ Distinct(s)
      BY DEF Distinct
    <3>2. PICK m \in s : \A x \in s \ {m} : Precedes(x, m)
      BY <2>0, <2>2, <3>1, LastOne
    <3> DEFINE n == Cardinality(s)
    <3>3. Cardinality(s \ {m}) = n - 1 /\ n # 0
      BY <2>0, <2>2, FS_RemoveElement, FS_EmptySet, SMTT(40)
    <3>4. PICK o \in [1..(n - 1) -> s \ {m}] : InOrder(o)
      <4>1. s \ {m} \in P
        BY <1>1
      <4> QED
        BY <3>3, <4>1
    <3> DEFINE order == [i \in 1..n |-> IF i = n THEN m ELSE o[i]]
    <3>5. n \in Nat /\ n # 0
      BY <2>0, <3>3
    <3> HIDE DEF n, P
    <3>6. \A i \in 1..n : i = n \/ i \in 1..(n - 1)
      BY <3>5
    <3>7. order \in [1..n -> s]
      BY <3>4, <3>6
    <3>8. ASSUME NEW i \in 1..n, NEW j \in 1..n, i < j PROVE Precedes(order[i], order[j])
      <4>1. i \in 1..(n - 1) /\ i # n
        BY <3>5, <3>8
      <4>2. order[i] = o[i] /\ o[i] \in s \ {m}
        BY <3>4, <4>1
      <4>3. CASE j = n
        BY <3>2, <4>2, <4>3
      <4>4. CASE j # n
        <5>1. j \in 1..(n - 1) /\ order[j] = o[j]
          BY <3>6, <4>4
        <5> HIDE DEF order
        <5> QED
          BY <3>4, <3>8, <4>1, <4>2, <5>1 DEF InOrder
      <4> QED
        BY <4>3, <4>4
    <3>9. InOrder(order)
      <4> HIDE DEF order
      <4> QED
        BY <3>7, <3>8 DEF InOrder
    <3> HIDE DEF order
    <3> QED
      BY <3>7, <3>9 DEF P, n
  <2> QED
    BY <2>1, <2>2
<1>2. P = SUBSET S
  <2>1. P \in SUBSET (SUBSET S)
    OBVIOUS
  <2> HIDE DEF P
  <2> QED
    BY <1>1, <2>1, SubsetInduction
<1>3. S \in P
  BY <1>2
<1> QED
  BY <1>3

\* A sequence without repetitions has as many elements as places.
LEMMA InjectiveSize ==
    ASSUME NEW n \in Nat, NEW S, IsFiniteSet(S), NEW f \in [1..n -> S],
           \A i, j \in 1..n : f[i] = f[j] => i = j
    PROVE  /\ IsFiniteSet(Range(f)) /\ Cardinality(Range(f)) = n
           /\ n = Cardinality(S) => Range(f) = S
<1>1. IsFiniteSet(1..n) /\ Cardinality(1..n) = n
  BY FS_Interval
<1>2. Range(f) \in SUBSET S /\ f \in [1..n -> Range(f)] /\ \A t \in Range(f) : \E i \in 1..n : f[i] = t
  BY DEF Range
<1>3. f \in Surjection(1..n, Range(f)) /\ f \in Injection(1..n, Range(f))
  BY <1>2 DEF Surjection, Injection, IsInjective
<1>4. IsFiniteSet(Range(f)) /\ Cardinality(Range(f)) = n
  BY <1>1, <1>3, FS_Surjection
<1> QED
  BY <1>2, <1>4, FS_Subset

\* What Sorted makes of a set.
LEMMA SortedIs ==
    ASSUME RankingConstants, NEW S \in SUBSET ItemRecs, IsFiniteSet(S), Distinct(S)
    PROVE  /\ Ranked(Sorted(S)) /\ Range(Sorted(S)) = S /\ Len(Sorted(S)) = Cardinality(S)
           /\ Sorted(S) \in [1..Cardinality(S) -> S]
<1> DEFINE n == Cardinality(S)
           s == Sorted(S)
<1>1. s \in [1..n -> S] /\ InOrder(s)
  <2>1. \E order \in [1..n -> S] : InOrder(order)
    BY SortExists
  <2> QED
    BY <2>1, Zenon DEF Sorted, InOrder
<1>2. n \in Nat
  BY FS_CardinalityType
<1> HIDE DEF n, s
<1>3. ASSUME NEW i \in 1..n, NEW j \in 1..n, s[i] = s[j] PROVE i = j
  <2>1. s[i] \in ItemRecs /\ s[j] \in ItemRecs
    BY <1>1
  <2>2. ASSUME i < j PROVE FALSE
    <3>1. Precedes(s[i], s[j])
      BY <1>1, <2>2 DEF InOrder
    <3> QED
      BY <1>3, <2>1, <3>1, PrecedesOrders
  <2>3. ASSUME j < i PROVE FALSE
    <3>1. Precedes(s[j], s[i])
      BY <1>1, <2>3 DEF InOrder
    <3> QED
      BY <1>3, <2>1, <3>1, PrecedesOrders
  <2> QED
    BY <1>2, <2>2, <2>3
<1>4. Range(s) = S
  BY <1>1, <1>2, <1>3, InjectiveSize DEF n
<1>5. s \in Seq(ItemRecs) /\ Len(s) = n
  BY <1>1, <1>2
<1> QED
  BY <1>1, <1>4, <1>5 DEF Ranked, n, s

-----------------------------------------------------------------------------
(* Folds of lists *)

\* What folding the subsets of 1..n amounts to, the largest place last.
FoldTable(n, base, G, g) ==
    \A s \in SUBSET (1..n) : g[s] = IF s = {} THEN base ELSE G[Max(s)][g[s \ {Max(s)}]]

\* There is such a table.
LEMMA TableExists ==
    ASSUME NEW n \in Nat, NEW B, NEW base \in B, NEW G, \A i \in 1..n : \A b \in B : G[i][b] \in B
    PROVE  \E g \in [SUBSET (1..n) -> B] : FoldTable(n, base, G, g)
<1>1. Foldable(1..n, B, base, Tops(n), G)
  <2>1. \A s \in SUBSET (1..n) : s # {} => Tops(n)[s] \in s
    BY TopIn
  <2> QED
    BY <2>1 DEF Foldable
<1>2. PICK g \in [SUBSET (1..n) -> B] : Folding(1..n, base, Tops(n), G, g)
  <2>1. IsFiniteSet(1..n)
    BY FS_Interval
  <2> QED
    BY <1>1, <2>1, FoldExists
<1>3. \A s \in SUBSET (1..n) : s # {} => Tops(n)[s] = Max(s)
  BY TopIn
<1>4. FoldTable(n, base, G, g)
  BY <1>2, <1>3 DEF Folding, FoldTable
<1> QED
  BY <1>4

\* The largest number of a set of places is a place.
LEMMA TopInside ==
    ASSUME NEW n \in Nat, NEW s \in SUBSET (1..n), s # {}
    PROVE  Max(s) \in 1..n /\ s \ {Max(s)} \in SUBSET (1..n)
<1>1. Max(s) \in s
  BY TopIn
<1> QED
  BY <1>1

\* What holds at 0 and is passed on from each number to the next holds up to n.
LEMMA StepsTyped ==
    ASSUME NEW n \in Nat, NEW B, NEW h, h = [i \in 0..n |-> h[i]], h[0] \in B,
           \A i \in 1..n : h[i - 1] \in B => h[i] \in B
    PROVE  h \in [0..n -> B]
<1> DEFINE P == {i \in 0..n : h[i] \in B}
<1>1. P = 0..n
  <2>1. P \in SUBSET (0..n) /\ 0 \in P
    OBVIOUS
  <2>2. ASSUME NEW i \in 1..n, i - 1 \in P PROVE i \in P
    BY <2>2
  <2> HIDE DEF P
  <2> QED
    BY <2>1, <2>2, NumberInduction
<1>2. \A i \in 0..n : h[i] \in B
  BY <1>1
<1> QED
  BY <1>2

\* Scores of some chunks.
Scorings == UNION {[D -> Int] : D \in SUBSET Chunks}

\* A scoring stays one when an item is taken into account.
LEMMA BetterTyped ==
    ASSUME NEW b \in Scorings, NEW item \in ItemRecs
    PROVE  Better(b, item) \in Scorings
<1>1. PICK D \in SUBSET Chunks : b \in [D -> Int]
  BY DEF Scorings
<1>2. item.chunk \in Chunks /\ item.score \in Int
  BY DEF ItemRecs
<1>3. D \cup {item.chunk} \in SUBSET Chunks
  BY <1>2
<1>4. Better(b, item) \in [D -> Int] \/ Better(b, item) \in [D \cup {item.chunk} -> Int]
  BY <1>1, <1>2 DEF Better
<1> QED
  BY <1>3, <1>4 DEF Scorings

\* The best scores of the chunks of a list.
BetterIter(base, items) == CHOOSE it : it = [s \in SUBSET (DOMAIN items) |->
    IF s = {} THEN base ELSE Better(it[s \ {Max(s)}], items[Max(s)])]

\* The fold over a list, as that function.
LEMMA BetterIs == ASSUME NEW base, NEW items PROVE FoldLeft(Better, base, items) = BetterIter(base, items)[DOMAIN items]
BY Zenon DEF FoldLeft, MapThenFoldSet, BetterIter

\* The fold over a list, one place after the other.
LEMMA BetterFold ==
    ASSUME NEW base \in Scorings, NEW items \in Seq(ItemRecs)
    PROVE  \E h \in [0..Len(items) -> Scorings] :
              /\ h[0] = base /\ \A i \in 1..Len(items) : h[i] = Better(h[i - 1], items[i])
              /\ FoldLeft(Better, base, items) = h[Len(items)]
<1> DEFINE n == Len(items)
           G == [i \in 1..n |-> [b \in Scorings |-> Better(b, items[i])]]
           it == BetterIter(base, items)
<1>1. n \in Nat /\ DOMAIN items = 1..n
  OBVIOUS
<1>2. \A i \in 1..n : \A b \in Scorings : Better(b, items[i]) \in Scorings
  BY BetterTyped
<1>3. base \in Scorings
  OBVIOUS
<1>4. PICK g \in [SUBSET (1..n) -> Scorings] : FoldTable(n, base, G, g)
  <2>1. \A i \in 1..n : \A b \in Scorings : G[i][b] \in Scorings
    BY <1>2
  <2> HIDE DEF G, n, it
  <2> QED
    BY <1>1, <1>3, <2>1, TableExists
<1> HIDE DEF n, it
<1>5. g = [s \in SUBSET (1..n) |->
             IF s = {} THEN base ELSE Better(g[s \ {Max(s)}], items[Max(s)])]
  <2>1. ASSUME NEW s \in SUBSET (1..n), s # {}
        PROVE  g[s] = Better(g[s \ {Max(s)}], items[Max(s)])
    <3>1. Max(s) \in 1..n /\ g[s \ {Max(s)}] \in Scorings
      BY <1>1, <2>1, TopInside
    <3>2. g[s] = G[Max(s)][g[s \ {Max(s)}]]
      <4> HIDE DEF G
      <4> QED
        BY <1>4, <2>1 DEF FoldTable
    <3> QED
      BY <3>1, <3>2
  <2>2. g[{}] = base
    BY <1>4 DEF FoldTable
  <2> HIDE DEF G
  <2> QED
    BY <2>1, <2>2
<1>6. it = [s \in SUBSET (1..n) |->
              IF s = {} THEN base ELSE Better(it[s \ {Max(s)}], items[Max(s)])]
  <2>1. it = CHOOSE f : f = [s \in SUBSET (1..n) |->
                IF s = {} THEN base ELSE Better(f[s \ {Max(s)}], items[Max(s)])]
    BY <1>1, Zenon DEF it, BetterIter
  <2> QED
    BY <1>5, <2>1, Zenon
<1>7. \A s \in SUBSET (1..n) :
         it[s] = IF s = {} THEN base ELSE Better(it[s \ {Max(s)}], items[Max(s)])
  BY <1>6, Zenon
<1>8. it[{}] = base
  <2>1. {} \in SUBSET (1..n)
    OBVIOUS
  <2> QED
    BY <1>7, <2>1
<1>9. ASSUME NEW i \in 1..n PROVE it[1..i] = Better(it[1..(i - 1)], items[i])
  <2>1. Max(1..i) = i /\ (1..i) \ {i} = 1..(i - 1) /\ 1..i # {}
    BY TopOf
  <2>2. 1..i \in SUBSET (1..n)
    BY <1>1, PlacesBelow
  <2>3. it[1..i] = Better(it[(1..i) \ {Max(1..i)}], items[Max(1..i)])
    BY <1>7, <2>1, <2>2
  <2> QED
    BY <2>1, <2>3
<1> DEFINE h == [i \in 0..n |-> it[1..i]]
<1>10. h[0] = base /\ \A i \in 1..n : h[i] = Better(h[i - 1], items[i])
  BY <1>1, <1>8, <1>9, PlacesBelow
<1>11. h \in [0..n -> Scorings]
  <2>1. \A i \in 1..n : h[i - 1] \in Scorings => h[i] \in Scorings
    <3> HIDE DEF h
    <3> QED
      BY <1>2, <1>10
  <2>2. h = [i \in 0..n |-> h[i]]
    OBVIOUS
  <2>3. n \in Nat /\ h[0] \in Scorings
    BY <1>1, <1>3, <1>10
  <2> HIDE DEF h
  <2> QED
    BY <2>1, <2>2, <2>3, StepsTyped
<1>12. FoldLeft(Better, base, items) = h[n]
  <2>1. FoldLeft(Better, base, items) = it[DOMAIN items]
    BY BetterIs DEF it
  <2> QED
    BY <1>1, <2>1
<1> QED
  BY <1>10, <1>11, <1>12 DEF n

\* What a query adds to the best scores.
Gather(best, q) == FoldLeft(Better, best, answers[q].items)

\* A query leaves a scoring.
LEMMA GatherTyped ==
    ASSUME NEW best \in Scorings, NEW q, answers[q].items \in Seq(ItemRecs)
    PROVE  Gather(best, q) \in Scorings
<1> DEFINE items == answers[q].items
<1>1. items \in Seq(ItemRecs) /\ Len(items) \in 0..Len(items)
  OBVIOUS
<1> HIDE DEF items
<1>2. FoldLeft(Better, best, items) \in Scorings
  <2>1. PICK h \in [0..Len(items) -> Scorings] : FoldLeft(Better, best, items) = h[Len(items)]
    BY <1>1, BetterFold
  <2> QED
    BY <1>1, <2>1
<1> QED
  BY <1>2 DEF Gather, items

\* What the merge starts from.
NoScores == <<>>

LEMMA NoScoresTyped == NoScores \in Scorings /\ DOMAIN NoScores = {}
<1>1. NoScores \in [{} -> Int]
  BY DEF NoScores
<1> QED
  BY <1>1 DEF Scorings

\* The best scores of all queries.
ScoresIter == CHOOSE it : it = [s \in SUBSET (DOMAIN arrived) |->
    IF s = {} THEN NoScores ELSE Gather(it[s \ {Max(s)}], arrived[Max(s)])]

\* The fold over the answers, as that function.
LEMMA ScoresIs == MergedScores = ScoresIter[DOMAIN arrived]
BY Zenon DEF MergedScores, NoScores, FoldLeft, MapThenFoldSet, ScoresIter, Gather

\* The fold over the answers, one query after the other.
LEMMA ScoresFold ==
    ASSUME arrived \in Seq(Searches), \A q \in Searches : answers[q].items \in Seq(ItemRecs)
    PROVE  \E h \in [0..Len(arrived) -> Scorings] :
              /\ h[0] = NoScores /\ \A i \in 1..Len(arrived) : h[i] = Gather(h[i - 1], arrived[i])
              /\ MergedScores = h[Len(arrived)]
<1> DEFINE n == Len(arrived)
           G == [i \in 1..n |-> [b \in Scorings |-> Gather(b, arrived[i])]]
           it == ScoresIter
<1>1. n \in Nat /\ DOMAIN arrived = 1..n
  OBVIOUS
<1>2. \A i \in 1..n : \A b \in Scorings : Gather(b, arrived[i]) \in Scorings
  BY GatherTyped
<1>3. NoScores \in Scorings
  BY NoScoresTyped
<1>4. PICK g \in [SUBSET (1..n) -> Scorings] : FoldTable(n, NoScores, G, g)
  <2>1. \A i \in 1..n : \A b \in Scorings : G[i][b] \in Scorings
    BY <1>2
  <2> HIDE DEF G, n, it
  <2> QED
    BY <1>1, <1>3, <2>1, TableExists
<1> HIDE DEF n, it
<1>5. g = [s \in SUBSET (1..n) |->
             IF s = {} THEN NoScores ELSE Gather(g[s \ {Max(s)}], arrived[Max(s)])]
  <2>1. ASSUME NEW s \in SUBSET (1..n), s # {}
        PROVE  g[s] = Gather(g[s \ {Max(s)}], arrived[Max(s)])
    <3>1. Max(s) \in 1..n /\ g[s \ {Max(s)}] \in Scorings
      BY <1>1, <2>1, TopInside
    <3>2. g[s] = G[Max(s)][g[s \ {Max(s)}]]
      <4> HIDE DEF G
      <4> QED
        BY <1>4, <2>1 DEF FoldTable
    <3> QED
      BY <3>1, <3>2
  <2>2. g[{}] = NoScores
    BY <1>4 DEF FoldTable
  <2> HIDE DEF G
  <2> QED
    BY <2>1, <2>2
<1>6. it = [s \in SUBSET (1..n) |->
              IF s = {} THEN NoScores ELSE Gather(it[s \ {Max(s)}], arrived[Max(s)])]
  <2>1. it = CHOOSE f : f = [s \in SUBSET (1..n) |->
                IF s = {} THEN NoScores ELSE Gather(f[s \ {Max(s)}], arrived[Max(s)])]
    BY <1>1, Zenon DEF it, ScoresIter
  <2> QED
    BY <1>5, <2>1, Zenon
<1>7. \A s \in SUBSET (1..n) :
         it[s] = IF s = {} THEN NoScores ELSE Gather(it[s \ {Max(s)}], arrived[Max(s)])
  BY <1>6, Zenon
<1>8. it[{}] = NoScores
  <2>1. {} \in SUBSET (1..n)
    OBVIOUS
  <2> QED
    BY <1>7, <2>1
<1>9. ASSUME NEW i \in 1..n PROVE it[1..i] = Gather(it[1..(i - 1)], arrived[i])
  <2>1. Max(1..i) = i /\ (1..i) \ {i} = 1..(i - 1) /\ 1..i # {}
    BY TopOf
  <2>2. 1..i \in SUBSET (1..n)
    BY <1>1, PlacesBelow
  <2>3. it[1..i] = Gather(it[(1..i) \ {Max(1..i)}], arrived[Max(1..i)])
    BY <1>7, <2>1, <2>2
  <2> QED
    BY <2>1, <2>3
<1> DEFINE h == [i \in 0..n |-> it[1..i]]
<1>10. h[0] = NoScores /\ \A i \in 1..n : h[i] = Gather(h[i - 1], arrived[i])
  BY <1>1, <1>8, <1>9, PlacesBelow
<1>11. h \in [0..n -> Scorings]
  <2>1. \A i \in 1..n : h[i - 1] \in Scorings => h[i] \in Scorings
    <3> HIDE DEF h
    <3> QED
      BY <1>2, <1>10
  <2>2. h = [i \in 0..n |-> h[i]]
    OBVIOUS
  <2>3. n \in Nat /\ h[0] \in Scorings
    BY <1>1, <1>3, <1>10
  <2> HIDE DEF h
  <2> QED
    BY <2>1, <2>2, <2>3, StepsTyped
<1>12. MergedScores = h[n]
  <2>1. MergedScores = it[DOMAIN arrived]
    BY ScoresIs DEF it
  <2> QED
    BY <1>1, <2>1
<1> QED
  BY <1>10, <1>11, <1>12 DEF n

\* What may have been chosen so far, and the steps of TakeTopChunks and ItemsOf.
Chosen == Seq(ItemRecs)
TakeStep(chosen, item) ==
    IF Len(chosen) < FinalTopK /\ MayTake(chosen, item.chunk) THEN Append(chosen, item) ELSE chosen
KeepStep(kept, item, chunks) == IF item.chunk \in chunks THEN Append(kept, item) ELSE kept

LEMMA EmptyChosen == <<>> \in Chosen
  BY DEF Chosen

\* These steps leave lists of items.
LEMMA TakeTyped ==
    ASSUME NEW b \in Chosen, NEW item \in ItemRecs, NEW chunks
    PROVE  TakeStep(b, item) \in Chosen /\ KeepStep(b, item, chunks) \in Chosen
  BY DEF Chosen, TakeStep, KeepStep

\* The chunks that are taken from the top of a list.
TakeIter(items) == CHOOSE it : it = [s \in SUBSET (DOMAIN items) |->
    IF s = {} THEN <<>> ELSE TakeStep(it[s \ {Max(s)}], items[Max(s)])]

\* The fold, as that function.
LEMMA TakeIs == ASSUME NEW items PROVE TakeTopChunks(items) = TakeIter(items)[DOMAIN items]
BY Zenon DEF TakeTopChunks, FoldLeft, MapThenFoldSet, TakeIter, TakeStep

\* TakeTopChunks, one place after the other.
LEMMA TakeFold ==
    ASSUME NEW items \in Seq(ItemRecs)
    PROVE  \E h \in [0..Len(items) -> Chosen] :
              /\ h[0] = <<>> /\ \A i \in 1..Len(items) : h[i] = TakeStep(h[i - 1], items[i])
              /\ TakeTopChunks(items) = h[Len(items)]
<1> DEFINE n == Len(items)
           G == [i \in 1..n |-> [b \in Chosen |-> TakeStep(b, items[i])]]
           it == TakeIter(items)
<1>1. n \in Nat /\ DOMAIN items = 1..n
  OBVIOUS
<1>2. \A i \in 1..n : \A b \in Chosen : TakeStep(b, items[i]) \in Chosen
  BY TakeTyped
<1>3. <<>> \in Chosen
  BY EmptyChosen
<1>4. PICK g \in [SUBSET (1..n) -> Chosen] : FoldTable(n, <<>>, G, g)
  <2>1. \A i \in 1..n : \A b \in Chosen : G[i][b] \in Chosen
    BY <1>2
  <2> HIDE DEF G, n, it
  <2> QED
    BY <1>1, <1>3, <2>1, TableExists
<1> HIDE DEF n, it
<1>5. g = [s \in SUBSET (1..n) |->
             IF s = {} THEN <<>> ELSE TakeStep(g[s \ {Max(s)}], items[Max(s)])]
  <2>1. ASSUME NEW s \in SUBSET (1..n), s # {}
        PROVE  g[s] = TakeStep(g[s \ {Max(s)}], items[Max(s)])
    <3>1. Max(s) \in 1..n /\ g[s \ {Max(s)}] \in Chosen
      BY <1>1, <2>1, TopInside
    <3>2. g[s] = G[Max(s)][g[s \ {Max(s)}]]
      <4> HIDE DEF G
      <4> QED
        BY <1>4, <2>1 DEF FoldTable
    <3> QED
      BY <3>1, <3>2
  <2>2. g[{}] = <<>>
    BY <1>4 DEF FoldTable
  <2> HIDE DEF G
  <2> QED
    BY <2>1, <2>2
<1>6. it = [s \in SUBSET (1..n) |->
              IF s = {} THEN <<>> ELSE TakeStep(it[s \ {Max(s)}], items[Max(s)])]
  <2>1. it = CHOOSE f : f = [s \in SUBSET (1..n) |->
                IF s = {} THEN <<>> ELSE TakeStep(f[s \ {Max(s)}], items[Max(s)])]
    BY <1>1, Zenon DEF it, TakeIter
  <2> QED
    BY <1>5, <2>1, Zenon
<1>7. \A s \in SUBSET (1..n) :
         it[s] = IF s = {} THEN <<>> ELSE TakeStep(it[s \ {Max(s)}], items[Max(s)])
  BY <1>6, Zenon
<1>8. it[{}] = <<>>
  <2>1. {} \in SUBSET (1..n)
    OBVIOUS
  <2> QED
    BY <1>7, <2>1
<1>9. ASSUME NEW i \in 1..n PROVE it[1..i] = TakeStep(it[1..(i - 1)], items[i])
  <2>1. Max(1..i) = i /\ (1..i) \ {i} = 1..(i - 1) /\ 1..i # {}
    BY TopOf
  <2>2. 1..i \in SUBSET (1..n)
    BY <1>1, PlacesBelow
  <2>3. it[1..i] = TakeStep(it[(1..i) \ {Max(1..i)}], items[Max(1..i)])
    BY <1>7, <2>1, <2>2
  <2> QED
    BY <2>1, <2>3
<1> DEFINE h == [i \in 0..n |-> it[1..i]]
<1>10. h[0] = <<>> /\ \A i \in 1..n : h[i] = TakeStep(h[i - 1], items[i])
  BY <1>1, <1>8, <1>9, PlacesBelow
<1>11. h \in [0..n -> Chosen]
  <2>1. \A i \in 1..n : h[i - 1] \in Chosen => h[i] \in Chosen
    <3> HIDE DEF h
    <3> QED
      BY <1>2, <1>10
  <2>2. h = [i \in 0..n |-> h[i]]
    OBVIOUS
  <2>3. n \in Nat /\ h[0] \in Chosen
    BY <1>1, <1>3, <1>10
  <2> HIDE DEF h
  <2> QED
    BY <2>1, <2>2, <2>3, StepsTyped
<1>12. TakeTopChunks(items) = h[n]
  <2>1. TakeTopChunks(items) = it[DOMAIN items]
    BY TakeIs DEF it
  <2> QED
    BY <1>1, <2>1
<1> QED
  BY <1>10, <1>11, <1>12 DEF n

\* The chunks that are kept of a list.
KeepIter(items, chunks) == CHOOSE it : it = [s \in SUBSET (DOMAIN items) |->
    IF s = {} THEN <<>> ELSE KeepStep(it[s \ {Max(s)}], items[Max(s)], chunks)]

\* The fold, as that function.
LEMMA KeepIs == ASSUME NEW items, NEW chunks PROVE ItemsOf(items, chunks) = KeepIter(items, chunks)[DOMAIN items]
BY Zenon DEF ItemsOf, FoldLeft, MapThenFoldSet, KeepIter, KeepStep

\* ItemsOf, one place after the other.
LEMMA KeepFold ==
    ASSUME NEW items \in Seq(ItemRecs), NEW chunks
    PROVE  \E h \in [0..Len(items) -> Chosen] :
              /\ h[0] = <<>> /\ \A i \in 1..Len(items) : h[i] = KeepStep(h[i - 1], items[i], chunks)
              /\ ItemsOf(items, chunks) = h[Len(items)]
<1> DEFINE n == Len(items)
           G == [i \in 1..n |-> [b \in Chosen |-> KeepStep(b, items[i], chunks)]]
           it == KeepIter(items, chunks)
<1>1. n \in Nat /\ DOMAIN items = 1..n
  OBVIOUS
<1>2. \A i \in 1..n : \A b \in Chosen : KeepStep(b, items[i], chunks) \in Chosen
  BY TakeTyped
<1>3. <<>> \in Chosen
  BY EmptyChosen
<1>4. PICK g \in [SUBSET (1..n) -> Chosen] : FoldTable(n, <<>>, G, g)
  <2>1. \A i \in 1..n : \A b \in Chosen : G[i][b] \in Chosen
    BY <1>2
  <2> HIDE DEF G, n, it
  <2> QED
    BY <1>1, <1>3, <2>1, TableExists
<1> HIDE DEF n, it
<1>5. g = [s \in SUBSET (1..n) |->
             IF s = {} THEN <<>> ELSE KeepStep(g[s \ {Max(s)}], items[Max(s)], chunks)]
  <2>1. ASSUME NEW s \in SUBSET (1..n), s # {}
        PROVE  g[s] = KeepStep(g[s \ {Max(s)}], items[Max(s)], chunks)
    <3>1. Max(s) \in 1..n /\ g[s \ {Max(s)}] \in Chosen
      BY <1>1, <2>1, TopInside
    <3>2. g[s] = G[Max(s)][g[s \ {Max(s)}]]
      <4> HIDE DEF G
      <4> QED
        BY <1>4, <2>1 DEF FoldTable
    <3> QED
      BY <3>1, <3>2
  <2>2. g[{}] = <<>>
    BY <1>4 DEF FoldTable
  <2> HIDE DEF G
  <2> QED
    BY <2>1, <2>2
<1>6. it = [s \in SUBSET (1..n) |->
              IF s = {} THEN <<>> ELSE KeepStep(it[s \ {Max(s)}], items[Max(s)], chunks)]
  <2>1. it = CHOOSE f : f = [s \in SUBSET (1..n) |->
                IF s = {} THEN <<>> ELSE KeepStep(f[s \ {Max(s)}], items[Max(s)], chunks)]
    BY <1>1, Zenon DEF it, KeepIter
  <2> QED
    BY <1>5, <2>1, Zenon
<1>7. \A s \in SUBSET (1..n) :
         it[s] = IF s = {} THEN <<>> ELSE KeepStep(it[s \ {Max(s)}], items[Max(s)], chunks)
  BY <1>6, Zenon
<1>8. it[{}] = <<>>
  <2>1. {} \in SUBSET (1..n)
    OBVIOUS
  <2> QED
    BY <1>7, <2>1
<1>9. ASSUME NEW i \in 1..n PROVE it[1..i] = KeepStep(it[1..(i - 1)], items[i], chunks)
  <2>1. Max(1..i) = i /\ (1..i) \ {i} = 1..(i - 1) /\ 1..i # {}
    BY TopOf
  <2>2. 1..i \in SUBSET (1..n)
    BY <1>1, PlacesBelow
  <2>3. it[1..i] = KeepStep(it[(1..i) \ {Max(1..i)}], items[Max(1..i)], chunks)
    BY <1>7, <2>1, <2>2
  <2> QED
    BY <2>1, <2>3
<1> DEFINE h == [i \in 0..n |-> it[1..i]]
<1>10. h[0] = <<>> /\ \A i \in 1..n : h[i] = KeepStep(h[i - 1], items[i], chunks)
  BY <1>1, <1>8, <1>9, PlacesBelow
<1>11. h \in [0..n -> Chosen]
  <2>1. \A i \in 1..n : h[i - 1] \in Chosen => h[i] \in Chosen
    <3> HIDE DEF h
    <3> QED
      BY <1>2, <1>10
  <2>2. h = [i \in 0..n |-> h[i]]
    OBVIOUS
  <2>3. n \in Nat /\ h[0] \in Chosen
    BY <1>1, <1>3, <1>10
  <2> HIDE DEF h
  <2> QED
    BY <2>1, <2>2, <2>3, StepsTyped
<1>12. ItemsOf(items, chunks) = h[n]
  <2>1. ItemsOf(items, chunks) = it[DOMAIN items]
    BY KeepIs DEF it
  <2> QED
    BY <1>1, <2>1
<1> QED
  BY <1>10, <1>11, <1>12 DEF n

\* The candidates one of which a round takes.
OpenIn(items, chosen) ==
    {i \in DOMAIN items : items[i] \notin Range(chosen) /\ MayTake(chosen, items[i].chunk)}
BestIn(items, chosen) ==
    {i \in OpenIn(items, chosen) : \A j \in OpenIn(items, chosen) :
        MMRScore(items[i], chosen) >= MMRScore(items[j], chosen)}

\* A round of selectWithMMR in these terms.
LEMMA PickIs ==
    ASSUME NEW items, NEW chosen
    PROVE  Pick(chosen, items) = IF OpenIn(items, chosen) = {} THEN chosen
                                 ELSE Append(chosen, items[Min(BestIn(items, chosen))])
BY Zenon DEF Pick, OpenIn, BestIn

\* Scores are numbers.
LEMMA ScoreNumber ==
    ASSUME NEW item \in ItemRecs, NEW chosen
    PROVE  MMRScore(item, chosen) \in Int
<1>1. item.score \in Int
  BY DEF ItemRecs
<1> QED
  BY <1>1, SMT DEF MMRScore

\* If any candidate may be taken, one has the highest score.
LEMMA BestExists ==
    ASSUME NEW items \in Seq(ItemRecs), NEW chosen, OpenIn(items, chosen) # {}
    PROVE  BestIn(items, chosen) # {} /\ Min(BestIn(items, chosen)) \in BestIn(items, chosen)
           /\ \A i \in BestIn(items, chosen) : Min(BestIn(items, chosen)) <= i
<1> DEFINE open == OpenIn(items, chosen)
           score(i) == MMRScore(items[i], chosen)
           best == BestIn(items, chosen)
           P == {s \in SUBSET open : s = {} \/ \E i \in s : \A j \in s : score(i) >= score(j)}
<1>1. open \in SUBSET (1..Len(items)) /\ IsFiniteSet(open) /\ Len(items) \in Nat
  <2>1. open \in SUBSET (1..Len(items)) /\ Len(items) \in Nat
    BY DEF OpenIn
  <2>2. IsFiniteSet(1..Len(items))
    BY FS_Interval
  <2> HIDE DEF open
  <2> QED
    BY <2>1, <2>2, FS_Subset
<1>2. \A i \in open : score(i) \in Int
  BY <1>1, ScoreNumber
<1> HIDE DEF open, score
<1>3. ASSUME NEW s \in SUBSET open, \A x \in s : s \ {x} \in P PROVE s \in P
  <2> SUFFICES ASSUME s # {} PROVE \E i \in s : \A j \in s : score(i) >= score(j)
    OBVIOUS
  <2>1. PICK y \in s : TRUE
    OBVIOUS
  <2>2. s \ {y} \in P
    BY <1>3
  <2>3. CASE s \ {y} = {}
    <3>1. \A j \in s : j = y
      BY <2>3
    <3>2. score(y) \in Int
      BY <1>2
    <3> QED
      BY <3>1, <3>2
  <2>4. CASE s \ {y} # {}
    <3>1. PICK m \in s \ {y} : \A j \in s \ {y} : score(m) >= score(j)
      BY <2>2, <2>4
    <3>2. \A j \in s : score(j) \in Int
      BY <1>2
    <3>3. CASE score(m) >= score(y)
      BY <3>1, <3>3
    <3>4. CASE ~(score(m) >= score(y))
      <4>1. \A j \in s : score(y) >= score(j)
        BY <3>1, <3>2, <3>4
      <4> QED
        BY <4>1
    <3> QED
      BY <3>3, <3>4
  <2> QED
    BY <2>3, <2>4
<1>4. P = SUBSET open
  <2>1. P \in SUBSET (SUBSET open)
    OBVIOUS
  <2> HIDE DEF P
  <2> QED
    BY <1>1, <1>3, <2>1, SubsetInduction
<1>5. open \in P
  BY <1>4
<1>6. PICK i \in open : \A j \in open : score(i) >= score(j)
  BY <1>5 DEF open
<1>7. best # {}
  BY <1>6 DEF BestIn, open, score
<1>8. best \in SUBSET Nat
  <2>1. best \in SUBSET open
    BY DEF BestIn, open
  <2> HIDE DEF best
  <2> QED
    BY <1>1, <2>1
<1> HIDE DEF best
<1>9. Min(best) \in best /\ \A x \in best : Min(best) <= x
  BY <1>7, <1>8, LeastOne
<1> QED
  BY <1>7, <1>9 DEF best

\* A round leaves a list of items.
LEMMA PickTyped ==
    ASSUME NEW items \in Seq(ItemRecs), NEW b \in Chosen
    PROVE  Pick(b, items) \in Chosen
<1>1. CASE OpenIn(items, b) = {}
  BY <1>1, PickIs
<1>2. CASE OpenIn(items, b) # {}
  <2>1. Min(BestIn(items, b)) \in DOMAIN items
    BY <1>2, BestExists DEF BestIn, OpenIn
  <2>2. items[Min(BestIn(items, b))] \in ItemRecs
    BY <2>1
  <2>3. Pick(b, items) = Append(b, items[Min(BestIn(items, b))])
    BY <1>2, PickIs
  <2> QED
    BY <2>2, <2>3 DEF Chosen
<1> QED
  BY <1>1, <1>2

\* The rounds of selectWithMMR.
Turns == [n \in 1..FinalTopK |-> n]
Selected(items) == FoldLeft(LAMBDA chosen, round : Pick(chosen, items), <<>>, Turns)

\* There are FinalTopK rounds.
LEMMA TurnsIs ==
    ASSUME RankingConstants PROVE Turns \in Seq(Nat) /\ Len(Turns) = FinalTopK /\ DOMAIN Turns = 1..FinalTopK
<1>1. FinalTopK \in Nat
  BY DEF RankingConstants
<1>2. Turns \in [1..FinalTopK -> Nat]
  BY <1>1 DEF Turns
<1>3. Turns \in Seq(Nat)
  BY <1>1, <1>2
<1>4. Len(Turns) = FinalTopK /\ DOMAIN Turns = 1..FinalTopK
  BY <1>1 DEF Turns
<1> QED
  BY <1>3, <1>4

\* The chunks that the rounds of selectWithMMR choose.
SelectIter(items) == CHOOSE it : it = [s \in SUBSET (DOMAIN Turns) |->
    IF s = {} THEN <<>> ELSE Pick(it[s \ {Max(s)}], items)]

\* The fold, as that function.
LEMMA SelectIs == ASSUME NEW items PROVE Selected(items) = SelectIter(items)[DOMAIN Turns]
BY Zenon DEF Selected, FoldLeft, MapThenFoldSet, SelectIter

\* selectWithMMR, one round after the other.
LEMMA SelectFold ==
    ASSUME RankingConstants, NEW items \in Seq(ItemRecs)
    PROVE  \E h \in [0..Len(Turns) -> Chosen] :
              /\ h[0] = <<>> /\ \A i \in 1..Len(Turns) : h[i] = Pick(h[i - 1], items)
              /\ Selected(items) = h[Len(Turns)]
<1> DEFINE n == Len(Turns)
           G == [i \in 1..n |-> [b \in Chosen |-> Pick(b, items)]]
           it == SelectIter(items)
<1>1. n \in Nat /\ DOMAIN Turns = 1..n
  BY TurnsIs
<1>2. \A i \in 1..n : \A b \in Chosen : Pick(b, items) \in Chosen
  BY PickTyped
<1>3. <<>> \in Chosen
  BY EmptyChosen
<1>4. PICK g \in [SUBSET (1..n) -> Chosen] : FoldTable(n, <<>>, G, g)
  <2>1. \A i \in 1..n : \A b \in Chosen : G[i][b] \in Chosen
    BY <1>2
  <2> HIDE DEF G, n, it
  <2> QED
    BY <1>1, <1>3, <2>1, TableExists
<1> HIDE DEF n, it
<1>5. g = [s \in SUBSET (1..n) |->
             IF s = {} THEN <<>> ELSE Pick(g[s \ {Max(s)}], items)]
  <2>1. ASSUME NEW s \in SUBSET (1..n), s # {}
        PROVE  g[s] = Pick(g[s \ {Max(s)}], items)
    <3>1. Max(s) \in 1..n /\ g[s \ {Max(s)}] \in Chosen
      BY <1>1, <2>1, TopInside
    <3>2. g[s] = G[Max(s)][g[s \ {Max(s)}]]
      <4> HIDE DEF G
      <4> QED
        BY <1>4, <2>1 DEF FoldTable
    <3> QED
      BY <3>1, <3>2
  <2>2. g[{}] = <<>>
    BY <1>4 DEF FoldTable
  <2> HIDE DEF G
  <2> QED
    BY <2>1, <2>2
<1>6. it = [s \in SUBSET (1..n) |->
              IF s = {} THEN <<>> ELSE Pick(it[s \ {Max(s)}], items)]
  <2>1. it = CHOOSE f : f = [s \in SUBSET (1..n) |->
                IF s = {} THEN <<>> ELSE Pick(f[s \ {Max(s)}], items)]
    BY <1>1, Zenon DEF it, SelectIter
  <2> QED
    BY <1>5, <2>1, ZenonT(60)
<1>7. \A s \in SUBSET (1..n) :
         it[s] = IF s = {} THEN <<>> ELSE Pick(it[s \ {Max(s)}], items)
  BY <1>6, Zenon
<1>8. it[{}] = <<>>
  <2>1. {} \in SUBSET (1..n)
    OBVIOUS
  <2> QED
    BY <1>7, <2>1
<1>9. ASSUME NEW i \in 1..n PROVE it[1..i] = Pick(it[1..(i - 1)], items)
  <2>1. Max(1..i) = i /\ (1..i) \ {i} = 1..(i - 1) /\ 1..i # {}
    BY TopOf, SMTT(40)
  <2>2. 1..i \in SUBSET (1..n)
    BY <1>1, PlacesBelow
  <2>3. it[1..i] = Pick(it[(1..i) \ {Max(1..i)}], items)
    BY <1>7, <2>1, <2>2
  <2> QED
    BY <2>1, <2>3
<1> DEFINE h == [i \in 0..n |-> it[1..i]]
<1>10. h[0] = <<>> /\ \A i \in 1..n : h[i] = Pick(h[i - 1], items)
  BY <1>1, <1>8, <1>9, PlacesBelow
<1>11. h \in [0..n -> Chosen]
  <2>1. \A i \in 1..n : h[i - 1] \in Chosen => h[i] \in Chosen
    <3> HIDE DEF h
    <3> QED
      BY <1>2, <1>10
  <2>2. h = [i \in 0..n |-> h[i]]
    OBVIOUS
  <2>3. n \in Nat /\ h[0] \in Chosen
    BY <1>1, <1>3, <1>10
  <2> HIDE DEF h
  <2> QED
    BY <2>1, <2>2, <2>3, StepsTyped
<1>12. Selected(items) = h[n]
  <2>1. Selected(items) = it[DOMAIN Turns]
    BY SelectIs DEF it
  <2> QED
    BY <1>1, <2>1
<1> QED
  BY <1>10, <1>11, <1>12 DEF n

\* One text of TrimmedContext: a share of what is left.
TrimStep(cut, length, kept, budget) ==
    LET left == budget - SumFunction(cut)
        more == Len(kept) - Len(cut)
    IN IF left <= 0 \/ more <= 0 THEN cut ELSE Append(cut, Excerpt(length, ShareOf(left, more)))
Trimming(kept, budget) ==
    FoldLeft(LAMBDA cut, length : TrimStep(cut, length, kept, budget), <<>>, kept)

\* Trimmed folds these steps over the texts it keeps.
LEMMA TrimmedIs ==
    ASSUME NEW lengths, NEW budget, NEW limit
    PROVE  Trimmed(lengths, budget, limit) = Trimming(Cut(lengths, limit), budget)
BY Zenon DEF Trimmed, Trimming, TrimStep, FoldLeft, MapThenFoldSet

\* Lengths.
Cuts == Seq(Nat)

\* Their sum is a number.
LEMMA SumNat == ASSUME NEW cut \in Cuts PROVE SumFunction(cut) \in Nat
BY SumAppended DEF Cuts

\* So is a quotient.
LEMMA QuotientNat == ASSUME NEW a \in Nat, NEW b \in Nat \ {0} PROVE a \div b \in Nat /\ a \div b <= a
BY SMT

\* And the length of an excerpt.
LEMMA ExcerptNat ==
    ASSUME NEW length \in Nat, NEW limit \in Nat
    PROVE  Excerpt(length, limit) \in Nat
BY DEF Excerpt

\* A step leaves lengths.
LEMMA TrimTyped ==
    ASSUME NEW cut \in Cuts, NEW length \in Nat, NEW kept \in Cuts, NEW budget \in Nat
    PROVE  TrimStep(cut, length, kept, budget) \in Cuts
<1> DEFINE left == budget - SumFunction(cut)
           more == Len(kept) - Len(cut)
<1>1. left \in Int /\ more \in Int
  BY SumNat DEF Cuts
<1>2. TrimStep(cut, length, kept, budget) =
         IF left <= 0 \/ more <= 0 THEN cut ELSE Append(cut, Excerpt(length, ShareOf(left, more)))
  BY DEF TrimStep
<1> HIDE DEF left, more
<1>3. CASE left <= 0 \/ more <= 0
  BY <1>2, <1>3
<1>4. CASE ~(left <= 0 \/ more <= 0)
  <2>1. left \in Nat /\ more \in Nat \ {0}
    BY <1>1, <1>4
  <2>2. ShareOf(left, more) \in Nat
    BY <2>1, QuotientNat DEF ShareOf
  <2>3. Excerpt(length, ShareOf(left, more)) \in Nat
    BY <2>2, ExcerptNat
  <2> QED
    BY <1>2, <1>4, <2>3 DEF Cuts
<1> QED
  BY <1>3, <1>4

LEMMA NoCuts == <<>> \in Cuts
  BY DEF Cuts

\* The lengths of the texts that are cut.
TrimIter(kept, budget) == CHOOSE it : it = [s \in SUBSET (DOMAIN kept) |->
    IF s = {} THEN <<>> ELSE TrimStep(it[s \ {Max(s)}], kept[Max(s)], kept, budget)]

\* The fold, as that function.
LEMMA TrimIs == ASSUME NEW kept, NEW budget PROVE Trimming(kept, budget) = TrimIter(kept, budget)[DOMAIN kept]
BY Zenon DEF Trimming, FoldLeft, MapThenFoldSet, TrimIter, TrimStep

\* Trimmed, one text after the other.
LEMMA TrimFold ==
    ASSUME NEW kept \in Seq(Nat), NEW budget \in Nat
    PROVE  \E h \in [0..Len(kept) -> Cuts] :
              /\ h[0] = <<>> /\ \A i \in 1..Len(kept) : h[i] = TrimStep(h[i - 1], kept[i], kept, budget)
              /\ Trimming(kept, budget) = h[Len(kept)]
<1> DEFINE n == Len(kept)
           G == [i \in 1..n |-> [b \in Cuts |-> TrimStep(b, kept[i], kept, budget)]]
           it == TrimIter(kept, budget)
<1>1. n \in Nat /\ DOMAIN kept = 1..n
  OBVIOUS
<1>2. \A i \in 1..n : \A b \in Cuts : TrimStep(b, kept[i], kept, budget) \in Cuts
  <2> SUFFICES ASSUME NEW i \in 1..n, NEW b \in Cuts
               PROVE  TrimStep(b, kept[i], kept, budget) \in Cuts
    OBVIOUS
  <2>1. kept[i] \in Nat /\ kept \in Cuts
    BY DEF Cuts
  <2> QED
    BY <2>1, TrimTyped
<1>3. <<>> \in Cuts
  BY NoCuts
<1>4. PICK g \in [SUBSET (1..n) -> Cuts] : FoldTable(n, <<>>, G, g)
  <2>1. \A i \in 1..n : \A b \in Cuts : G[i][b] \in Cuts
    BY <1>2
  <2> HIDE DEF G, n, it
  <2> QED
    BY <1>1, <1>3, <2>1, TableExists
<1> HIDE DEF n, it
<1>5. g = [s \in SUBSET (1..n) |->
             IF s = {} THEN <<>> ELSE TrimStep(g[s \ {Max(s)}], kept[Max(s)], kept, budget)]
  <2>1. ASSUME NEW s \in SUBSET (1..n), s # {}
        PROVE  g[s] = TrimStep(g[s \ {Max(s)}], kept[Max(s)], kept, budget)
    <3>1. Max(s) \in 1..n /\ g[s \ {Max(s)}] \in Cuts
      BY <1>1, <2>1, TopInside
    <3>2. g[s] = G[Max(s)][g[s \ {Max(s)}]]
      <4> HIDE DEF G
      <4> QED
        BY <1>4, <2>1 DEF FoldTable
    <3> QED
      BY <3>1, <3>2
  <2>2. g[{}] = <<>>
    BY <1>4 DEF FoldTable
  <2> HIDE DEF G
  <2> QED
    BY <2>1, <2>2
<1>6. it = [s \in SUBSET (1..n) |->
              IF s = {} THEN <<>> ELSE TrimStep(it[s \ {Max(s)}], kept[Max(s)], kept, budget)]
  <2>1. it = CHOOSE f : f = [s \in SUBSET (1..n) |->
                IF s = {} THEN <<>> ELSE TrimStep(f[s \ {Max(s)}], kept[Max(s)], kept, budget)]
    BY <1>1, Zenon DEF it, TrimIter
  <2> QED
    BY <1>5, <2>1, Zenon
<1>7. \A s \in SUBSET (1..n) :
         it[s] = IF s = {} THEN <<>> ELSE TrimStep(it[s \ {Max(s)}], kept[Max(s)], kept, budget)
  BY <1>6, Zenon
<1>8. it[{}] = <<>>
  <2>1. {} \in SUBSET (1..n)
    OBVIOUS
  <2> QED
    BY <1>7, <2>1
<1>9. ASSUME NEW i \in 1..n PROVE it[1..i] = TrimStep(it[1..(i - 1)], kept[i], kept, budget)
  <2>1. Max(1..i) = i /\ (1..i) \ {i} = 1..(i - 1) /\ 1..i # {}
    BY TopOf
  <2>2. 1..i \in SUBSET (1..n)
    BY <1>1, PlacesBelow
  <2>3. it[1..i] = TrimStep(it[(1..i) \ {Max(1..i)}], kept[Max(1..i)], kept, budget)
    BY <1>7, <2>1, <2>2
  <2> QED
    BY <2>1, <2>3
<1> DEFINE h == [i \in 0..n |-> it[1..i]]
<1>10. h[0] = <<>> /\ \A i \in 1..n : h[i] = TrimStep(h[i - 1], kept[i], kept, budget)
  BY <1>1, <1>8, <1>9, PlacesBelow
<1>11. h \in [0..n -> Cuts]
  <2>1. \A i \in 1..n : h[i - 1] \in Cuts => h[i] \in Cuts
    <3> HIDE DEF h
    <3> QED
      BY <1>2, <1>10
  <2>2. h = [i \in 0..n |-> h[i]]
    OBVIOUS
  <2>3. n \in Nat /\ h[0] \in Cuts
    BY <1>1, <1>3, <1>10
  <2> HIDE DEF h
  <2> QED
    BY <2>1, <2>2, <2>3, StepsTyped
<1>12. Trimming(kept, budget) = h[n]
  <2>1. Trimming(kept, budget) = it[DOMAIN kept]
    BY TrimIs DEF it
  <2> QED
    BY <1>1, <2>1
<1> QED
  BY <1>10, <1>11, <1>12 DEF n

-----------------------------------------------------------------------------
(* The context *)

\* The first n elements of a sequence.
LEMMA CutIs ==
    ASSUME NEW X, NEW s \in Seq(X), NEW n \in Nat
    PROVE  /\ Cut(s, n) \in Seq(X)
           /\ Len(Cut(s, n)) = IF n <= Len(s) THEN n ELSE Len(s)
           /\ Len(Cut(s, n)) <= n /\ Len(Cut(s, n)) <= Len(s)
           /\ DOMAIN Cut(s, n) \subseteq DOMAIN s
           /\ \A i \in DOMAIN Cut(s, n) : Cut(s, n)[i] = s[i]
<1> DEFINE m == IF n <= Len(s) THEN n ELSE Len(s)
<1>1. m \in Nat /\ m <= Len(s) /\ m <= n /\ Len(s) \in Nat
  OBVIOUS
<1>2. Min({n, Len(s)}) = m
  BY SmallerOfTwo
<1> HIDE DEF m
<1>3. PICK t : t = SubSeq(s, 1, m)
  OBVIOUS
<1>4. t \in Seq(X) /\ Len(t) = m /\ \A i \in 1..m : t[i] = s[i]
  <2>1. \A i \in 1..m : s[i] \in X
    BY <1>1
  <2> QED
    BY <1>1, <1>3, <2>1
<1>5. DOMAIN t = 1..m /\ DOMAIN s = 1..Len(s)
  BY <1>4
<1>6. Cut(s, n) = t
  BY <1>2, <1>3 DEF Cut
<1>7. t \in Seq(X) /\ Len(t) = m /\ m <= n /\ m <= Len(s) /\ DOMAIN t \subseteq DOMAIN s
      /\ \A i \in DOMAIN t : t[i] = s[i]
  BY <1>1, <1>4, <1>5
<1> QED
  BY <1>6, <1>7 DEF m

\* At first there is a character for each text.
LEMMA EnoughForAll == ASSUME NEW n \in 0..4, NEW budget \in Nat, budget >= 4 PROVE budget - 0 >= n - 0
BY SMT

\* There are at most four texts.
LEMMA UpToFour == ASSUME NEW k \in Nat, NEW limit \in {3, 4}, k <= limit PROVE k \in 0..4
BY SMT

\* Who may still have a character gets one.
LEMMA EachGetsSome ==
    ASSUME NEW n \in 0..4, NEW i \in 1..n, NEW left \in Int, left >= n - (i - 1)
    PROVE  left \in Nat /\ n - (i - 1) \in {1, 2, 3, 4}
BY SMT

\* A share leaves as much for each of the others.
LEMMA Quotients ==
    ASSUME NEW left \in Nat, NEW more \in {1, 2, 3, 4}, left >= more
    PROVE  left \div more \in Nat /\ left - (left \div more) >= more - 1 /\ left \div more >= 1
BY SMT

\* Some text is left for each chunk that is to come, and none gets more than its share.
LEMMA TrimmedFits ==
    ASSUME NEW lengths \in Seq(Nat \ {0}), NEW budget \in Nat, budget >= 4, NEW limit \in ChunkLimits
    PROVE  /\ SumFunction(Trimmed(lengths, budget, limit)) <= budget
           /\ \A i \in DOMAIN Trimmed(lengths, budget, limit) : Trimmed(lengths, budget, limit)[i] > 0
<1> DEFINE kept == Cut(lengths, limit)
           n == Len(kept)
<1>1. kept \in Seq(Nat \ {0}) /\ n \in 0..4
  <2>1. kept \in Seq(Nat \ {0}) /\ n <= limit
    <3>1. limit \in Nat
      BY DEF ChunkLimits
    <3> QED
      BY <3>1, CutIs
  <2> HIDE DEF kept
  <2>2. n \in Nat /\ n <= limit
    BY <2>1
  <2>3. limit \in {3, 4}
    BY DEF ChunkLimits
  <2> QED
    BY <2>1, <2>2, <2>3, UpToFour
<1> HIDE DEF kept
<1>2. kept \in Seq(Nat) /\ \A i \in 1..n : kept[i] \in Nat \ {0}
  BY <1>1
<1>3. PICK h \in [0..n -> Cuts] :
          /\ h[0] = <<>> /\ \A i \in 1..n : h[i] = TrimStep(h[i - 1], kept[i], kept, budget)
          /\ Trimming(kept, budget) = h[n]
  BY <1>2, TrimFold
<1> DEFINE Fits(cut, i) ==
               /\ Len(cut) = i /\ budget - SumFunction(cut) >= n - i
               /\ \A k \in DOMAIN cut : cut[k] > 0
           P == {i \in 0..n : Fits(h[i], i)}
<1>4. 0 \in P
  <2>1. Fits(<<>>, 0)
    <3>1. Len(<<>>) = 0 /\ DOMAIN <<>> = {} /\ SumFunction(<<>>) = 0
      BY SumEmpty
    <3>2. n \in 0..4
      BY <1>1
    <3> HIDE DEF n
    <3>3. budget - 0 >= n - 0
      BY <3>2, EnoughForAll
    <3>4. PICK t : t = <<>>
      OBVIOUS
    <3>5. Len(t) = 0 /\ DOMAIN t = {}
      BY <3>4
    <3>7. SumFunction(t) = 0
      BY <3>1, <3>4
    <3>6. Fits(t, 0)
      BY <3>3, <3>5, <3>7
    <3> QED
      BY <3>4, <3>6, Zenon
  <2> HIDE DEF Fits
  <2> QED
    BY <1>1, <1>3, <2>1
<1>5. ASSUME NEW i \in 1..n, i - 1 \in P PROVE i \in P
  <2> DEFINE cut == h[i - 1]
             left == budget - SumFunction(cut)
             more == n - (i - 1)
             share == left \div more
             piece == Excerpt(kept[i], share)
  <2>1. cut \in Cuts /\ cut \in Seq(Nat) /\ i - 1 \in 0..n /\ Fits(cut, i - 1)
    <3> HIDE DEF Fits
    <3>1. i - 1 \in 0..n /\ Fits(cut, i - 1)
      BY <1>5
    <3> HIDE DEF P
    <3>2. cut \in Cuts
      BY <1>3, <3>1
    <3> QED
      BY <3>1, <3>2 DEF Cuts
  <2>2. SumFunction(cut) \in Nat
    BY <2>1, SumNat
  <2> HIDE DEF cut
  <2>3. left \in Nat /\ more \in {1, 2, 3, 4} /\ left >= more /\ Len(kept) - Len(cut) = more
    <3>1. left \in Int
      BY <2>2
    <3>2. left >= more /\ Len(kept) - Len(cut) = more
      BY <2>1
    <3> HIDE DEF left
    <3>3. left \in Nat /\ more \in {1, 2, 3, 4}
      BY <1>1, <3>1, <3>2, EachGetsSome
    <3> QED
      BY <3>2, <3>3
  <2>4. kept[i] \in Nat /\ kept[i] > 0
    BY <1>2
  <2>5. TrimStep(cut, kept[i], kept, budget) = Append(cut, piece)
    <3>1. TrimStep(cut, kept[i], kept, budget) =
             IF left <= 0 \/ Len(kept) - Len(cut) <= 0 THEN cut
             ELSE Append(cut, Excerpt(kept[i], ShareOf(left, Len(kept) - Len(cut))))
      BY DEF TrimStep
    <3>2. ~(left <= 0 \/ more <= 0)
      BY <2>3
    <3> HIDE DEF left, more
    <3> QED
      BY <2>3, <3>1, <3>2 DEF ShareOf
  <2> HIDE DEF left, more
  <2>6. share \in Nat /\ left - share >= more - 1 /\ share >= 1
    BY <2>3, Quotients
  <2> HIDE DEF share
  <2>7. piece \in Nat /\ piece > 0 /\ piece <= share
    BY <2>4, <2>6 DEF Excerpt
  <2> HIDE DEF piece
  <2>8. h[i] = Append(cut, piece)
    BY <1>3, <2>5 DEF cut
  <2>9. SumFunction(Append(cut, piece)) = SumFunction(cut) + piece
    BY <2>1, <2>7, SumAppended
  <2>10. Len(Append(cut, piece)) = i /\ \A k \in DOMAIN Append(cut, piece) : Append(cut, piece)[k] > 0
    <3>1. PICK t : t = Append(cut, piece)
      OBVIOUS
    <3>2. Len(cut) = i - 1 /\ \A k \in 1..(i - 1) : cut[k] > 0
      BY <2>1
    <3>3. Len(t) = i /\ DOMAIN t = 1..i
      BY <2>1, <3>1, <3>2
    <3>4. \A k \in 1..i : t[k] = IF k = i THEN piece ELSE cut[k]
      BY <2>1, <3>1, <3>2
    <3>5. \A k \in 1..i : t[k] > 0
      BY <2>7, <3>2, <3>4
    <3> QED
      BY <3>1, <3>3, <3>5
  <2>11. budget - (SumFunction(cut) + piece) >= n - i
    <3>1. SumFunction(cut) = budget - left /\ left \in Int
      BY <2>2, <2>3 DEF left
    <3>2. more = n - (i - 1)
      BY DEF more
    <3> QED
      BY <1>1, <2>2, <2>3, <2>6, <2>7, <3>1, <3>2
  <2>12. Fits(h[i], i)
    BY <2>8, <2>9, <2>10, <2>11
  <2> HIDE DEF Fits
  <2> QED
    BY <1>1, <2>12
<1>6. P = 0..n
  <2>1. P \in SUBSET (0..n)
    OBVIOUS
  <2> HIDE DEF P
  <2> QED
    BY <1>1, <1>4, <1>5, <2>1, NumberInduction, SMTT(40)
<1>7. Fits(h[n], n) /\ h[n] \in Cuts
  <2>1. n \in 0..n
    BY <1>1
  <2> HIDE DEF Fits
  <2>2. n \in P
    BY <1>6, <2>1
  <2> QED
    BY <1>3, <2>1, <2>2
<1>8. SumFunction(h[n]) \in Nat
  BY <1>7, SumNat
<1>9. SumFunction(h[n]) <= budget /\ \A i \in DOMAIN h[n] : h[n][i] > 0
  BY <1>1, <1>7, <1>8
<1>10. Trimmed(lengths, budget, limit) = h[n]
  BY <1>3, TrimmedIs DEF kept
<1> QED
  BY <1>9, <1>10

\* Rows are taken as long as they fit.
LEMMA TableFits ==
    ASSUME NEW lengths \in Seq(Nat \ {0}), NEW budget \in Nat
    PROVE  /\ Len(TrimmedTable(lengths, budget)) > 1 =>
                  SumFunction(TrimmedTable(lengths, budget)) <= budget
           /\ \A i \in DOMAIN TrimmedTable(lengths, budget) : TrimmedTable(lengths, budget)[i] > 0
<1>1. CASE lengths = <<>>
  <2>1. TrimmedTable(lengths, budget) = <<>> /\ Len(<<>>) = 0 /\ DOMAIN <<>> = {}
    BY <1>1 DEF TrimmedTable
  <2> QED
    BY <2>1
<1>2. CASE lengths # <<>>
  <2> DEFINE fits == {n \in DOMAIN lengths : \A m \in 2..n : SumFunctionOnSet(lengths, 1..m) <= budget}
             k == Max(fits)
             cut == Cut(lengths, k)
  <2>1. TrimmedTable(lengths, budget) = cut
    BY <1>2 DEF TrimmedTable
  <2>2. Len(lengths) \in Nat /\ DOMAIN lengths = 1..Len(lengths) /\ Len(lengths) # 0
    BY <1>2
  <2>3. 1 \in fits
    BY <2>2
  <2>4. fits \in SUBSET (0..Len(lengths))
    BY <2>2
  <2>5. k \in fits
    <3> HIDE DEF fits
    <3> QED
      BY <2>2, <2>3, <2>4, Largest
  <2> HIDE DEF k
  <2>6. k \in 1..Len(lengths) /\ \A m \in 2..k : SumFunctionOnSet(lengths, 1..m) <= budget
    BY <2>2, <2>5
  <2> HIDE DEF fits
  <2>7. cut \in Seq(Nat \ {0}) /\ Len(cut) = k /\ \A i \in DOMAIN cut : cut[i] = lengths[i]
    BY <2>2, <2>6, CutIs
  <2> HIDE DEF cut
  <2>8. DOMAIN cut = 1..k /\ \A i \in 1..k : cut[i] \in Nat /\ cut[i] > 0
    BY <2>7
  <2>9. ASSUME k > 1 PROVE SumFunction(cut) <= budget
    <3>1. SumFunction(cut) = SumOver(cut, 1..k)
      BY <2>8 DEF SumFunction, SumOver
    <3>2. IsFiniteSet(1..k) /\ Numbers(cut, 1..k) /\ \A i \in 1..k : cut[i] = lengths[i]
      <4>1. IsFiniteSet(1..k)
        BY <2>2, <2>6, FS_Interval
      <4>2. 1..k \subseteq DOMAIN cut /\ \A i \in 1..k : cut[i] \in Int
        BY <2>8
      <4> QED
        BY <2>7, <2>8, <4>1, <4>2 DEF Numbers
    <3>3. SumOver(cut, 1..k) = SumOver(lengths, 1..k)
      BY <3>2, SumAlike
    <3>4. SumOver(lengths, 1..k) <= budget
      <4>1. k \in 2..k
        BY <2>2, <2>6, <2>9
      <4> QED
        BY <2>6, <4>1 DEF SumOver
    <3> QED
      BY <3>1, <3>3, <3>4
  <2> QED
    BY <2>1, <2>7, <2>8, <2>9
<1> QED
  BY <1>1, <1>2

-----------------------------------------------------------------------------
(* Ranked lists *)

\* A sequence with one more element.
LEMMA Appending ==
    ASSUME NEW X, NEW t \in Seq(X), NEW x \in X
    PROVE  /\ Append(t, x) \in Seq(X) /\ Len(Append(t, x)) = Len(t) + 1 /\ Len(t) \in Nat
           /\ DOMAIN t = 1..Len(t) /\ DOMAIN Append(t, x) = 1..(Len(t) + 1)
           /\ Append(t, x)[Len(t) + 1] = x
           /\ \A i \in 1..Len(t) : Append(t, x)[i] = t[i]
           /\ Range(Append(t, x)) = Range(t) \cup {x}
<1> DEFINE n == Len(t)
           u == Append(t, x)
<1>1. u \in Seq(X) /\ Len(u) = n + 1 /\ n \in Nat /\ DOMAIN t = 1..n
  OBVIOUS
<1>2. u[n + 1] = x /\ \A i \in 1..n : u[i] = t[i]
  OBVIOUS
<1> HIDE DEF n, u
<1>3. DOMAIN u = 1..(n + 1)
  BY <1>1
<1>4. Range(u) = Range(t) \cup {x}
  <2>1. \A i \in 1..(n + 1) : i \in 1..n \/ i = n + 1
    BY <1>1
  <2>2. 1..n \subseteq 1..(n + 1) /\ n + 1 \in 1..(n + 1)
    BY <1>1
  <2> QED
    BY <1>1, <1>2, <1>3, <2>1, <2>2 DEF Range
<1> QED
  BY <1>1, <1>2, <1>3, <1>4 DEF n, u

\* In a ranked list each chunk is in one place, and scores fall.
LEMMA RankedPlaces ==
    ASSUME RankingConstants, NEW s, Ranked(s)
    PROVE  /\ s \in Seq(ItemRecs) /\ DOMAIN s = 1..Len(s) /\ Len(s) \in Nat
           /\ \A i, j \in DOMAIN s : s[i].chunk = s[j].chunk => i = j
           /\ \A i, j \in DOMAIN s : i < j => Precedes(s[i], s[j])
           /\ \A i \in DOMAIN s : s[i] \in ItemRecs /\ s[i].chunk \in Chunks
<1>1. s \in Seq(ItemRecs) /\ DOMAIN s = 1..Len(s) /\ Len(s) \in Nat /\ \A i \in DOMAIN s : s[i] \in ItemRecs
  BY DEF Ranked
<1>2. \A i, j \in DOMAIN s : i < j => Precedes(s[i], s[j])
  BY DEF Ranked, InOrder
<1>3. ASSUME NEW i \in DOMAIN s, NEW j \in DOMAIN s, s[i].chunk = s[j].chunk PROVE i = j
  <2>1. s[i] = s[j]
    BY <1>3 DEF Ranked, Distinct, Range
  <2>2. ~(i < j) /\ ~(j < i)
    BY <1>1, <1>2, <2>1, PrecedesOrders
  <2> QED
    BY <1>1, <2>2
<1> QED
  BY <1>1, <1>2, <1>3 DEF ItemRecs

\* A ranked list has the type that RankingTypeOK asks for.
LEMMA RankedTyped ==
    ASSUME RankingConstants, NEW s, Ranked(s)
    PROVE  s \in Lists /\ Falling(s) /\ Cardinality(ChunksOf(s)) = Len(s)
<1>1. /\ s \in Seq(ItemRecs) /\ DOMAIN s = 1..Len(s) /\ Len(s) \in Nat
      /\ \A i, j \in DOMAIN s : s[i].chunk = s[j].chunk => i = j
      /\ \A i, j \in DOMAIN s : i < j => Precedes(s[i], s[j])
      /\ \A i \in DOMAIN s : s[i] \in ItemRecs /\ s[i].chunk \in Chunks
  BY RankedPlaces
<1>2. s \in Lists
  BY <1>1 DEF Lists, ItemRecs
<1>3. ASSUME NEW i \in 1..Len(s) - 1 PROVE s[i].score >= s[i + 1].score
  <2>1. i \in DOMAIN s /\ i + 1 \in DOMAIN s /\ i < i + 1
    BY <1>1
  <2>2. Precedes(s[i], s[i + 1]) /\ s[i] \in ItemRecs /\ s[i + 1] \in ItemRecs
    BY <1>1, <2>1
  <2> QED
    BY <2>2, PrecedesOrders, ZenonT(60)
<1>4. Cardinality(ChunksOf(s)) = Len(s)
  <2> DEFINE n == Len(s)
             f == [i \in 1..n |-> s[i].chunk]
  <2>1. f \in [1..n -> Chunks] /\ \A i, j \in 1..n : f[i] = f[j] => i = j
    BY <1>1
  <2>2. Range(f) = ChunksOf(s)
    BY <1>1 DEF Range, ChunksOf
  <2>3. IsFiniteSet(Chunks) /\ n \in Nat
    BY <1>1 DEF RankingConstants
  <2> HIDE DEF f, n
  <2> QED
    BY <2>1, <2>2, <2>3, InjectiveSize DEF n
<1> QED
  BY <1>2, <1>3, <1>4 DEF Falling

\* The empty list is ranked.
LEMMA RankedNone == Ranked(<<>>) /\ <<>> \in Chosen /\ Range(<<>>) = {}
BY DEF Ranked, InOrder, Distinct, Range, Chosen

\* A list goes on with what comes after all of it.
LEMMA RankedMore ==
    ASSUME RankingConstants, NEW t, Ranked(t), NEW x \in ItemRecs,
           \A a \in Range(t) : Precedes(a, x) /\ a.chunk # x.chunk
    PROVE  Ranked(Append(t, x))
<1>1. t \in Seq(ItemRecs) /\ InOrder(t) /\ Distinct(Range(t))
  BY DEF Ranked
<1> DEFINE n == Len(t)
           u == Append(t, x)
<1>2. /\ u \in Seq(ItemRecs) /\ n \in Nat /\ DOMAIN t = 1..n /\ DOMAIN u = 1..(n + 1)
      /\ u[n + 1] = x /\ (\A i \in 1..n : u[i] = t[i]) /\ Range(u) = Range(t) \cup {x}
  BY <1>1, Appending
<1> HIDE DEF n, u
<1>3. Distinct(Range(u))
  BY <1>1, <1>2 DEF Distinct
<1>4. ASSUME NEW i \in DOMAIN u, NEW j \in DOMAIN u, i < j PROVE Precedes(u[i], u[j])
  <2>1. i \in 1..n /\ u[i] = t[i] /\ t[i] \in Range(t)
    <3>1. i \in 1..n
      BY <1>2, <1>4
    <3> QED
      BY <1>2, <3>1 DEF Range
  <2>2. CASE j = n + 1
    BY <1>2, <2>1, <2>2
  <2>3. CASE j # n + 1
    <3>1. j \in 1..n /\ u[j] = t[j]
      BY <1>2, <2>3
    <3> QED
      BY <1>1, <1>2, <1>4, <2>1, <3>1 DEF InOrder
  <2> QED
    BY <2>2, <2>3
<1> QED
  BY <1>2, <1>3, <1>4 DEF Ranked, InOrder, u

\* So is the beginning of a ranked list.
LEMMA RankedCut ==
    ASSUME RankingConstants, NEW s, Ranked(s), NEW n \in Nat
    PROVE  Ranked(Cut(s, n))
<1>1. s \in Seq(ItemRecs) /\ InOrder(s) /\ Distinct(Range(s))
  BY DEF Ranked
<1> DEFINE c == Cut(s, n)
<1>2. c \in Seq(ItemRecs) /\ DOMAIN c \subseteq DOMAIN s /\ \A i \in DOMAIN c : c[i] = s[i]
  BY <1>1, CutIs
<1> HIDE DEF c
<1>3. InOrder(c)
  BY <1>1, <1>2 DEF InOrder
<1>4. Range(c) \subseteq Range(s)
  BY <1>2 DEF Range
<1> QED
  BY <1>1, <1>2, <1>3, <1>4 DEF Ranked, Distinct, c

-----------------------------------------------------------------------------
(* What is taken from a document *)

\* The places of the document of c.
PlacesFrom(s, c) == {i \in DOMAIN s : Source[s[i].chunk] = Source[c]}

\* How many chunks of a document were taken.
LEMMA TakenTyped ==
    ASSUME NEW s \in Seq(ItemRecs), NEW c
    PROVE  IsFiniteSet(PlacesFrom(s, c)) /\ TakenFrom(s, c) = Cardinality(PlacesFrom(s, c)) /\ TakenFrom(s, c) \in Nat
<1>1. PlacesFrom(s, c) \subseteq 1..Len(s) /\ IsFiniteSet(1..Len(s))
  <2>1. DOMAIN s = 1..Len(s) /\ Len(s) \in Nat
    OBVIOUS
  <2> QED
    BY <2>1, FS_Interval DEF PlacesFrom
<1>2. IsFiniteSet(PlacesFrom(s, c))
  BY <1>1, FS_Subset
<1>3. TakenFrom(s, c) = Cardinality(PlacesFrom(s, c))
  BY DEF TakenFrom, PlacesFrom
<1> QED
  BY <1>2, <1>3, FS_CardinalityType

\* At first none.
LEMMA TakenNone == ASSUME NEW c PROVE TakenFrom(<<>>, c) = 0
<1>1. PlacesFrom(<<>>, c) = {}
  BY DEF PlacesFrom
<1>2. TakenFrom(<<>>, c) = Cardinality(PlacesFrom(<<>>, c))
  BY DEF TakenFrom, PlacesFrom
<1> QED
  BY <1>1, <1>2, FS_EmptySet

\* Then one more for each chunk of the document.
LEMMA TakenMore ==
    ASSUME NEW t \in Seq(ItemRecs), NEW x \in ItemRecs, NEW c
    PROVE  TakenFrom(Append(t, x), c) =
              IF Source[x.chunk] = Source[c] THEN TakenFrom(t, c) + 1 ELSE TakenFrom(t, c)
<1> DEFINE n == Len(t)
           u == Append(t, x)
<1>1. /\ u \in Seq(ItemRecs) /\ n \in Nat /\ DOMAIN t = 1..n /\ DOMAIN u = 1..(n + 1)
      /\ u[n + 1] = x /\ \A i \in 1..n : u[i] = t[i]
  BY Appending
<1> HIDE DEF n, u
<1>2. \A i \in 1..(n + 1) : i \in 1..n \/ i = n + 1
  BY <1>1
<1>3. n + 1 \notin 1..n /\ n + 1 \in 1..(n + 1) /\ 1..n \subseteq 1..(n + 1)
  BY <1>1
<1>4. n + 1 \notin PlacesFrom(t, c) /\ IsFiniteSet(PlacesFrom(t, c))
  BY <1>1, <1>3, TakenTyped DEF PlacesFrom
<1>5. TakenFrom(u, c) = Cardinality(PlacesFrom(u, c)) /\ TakenFrom(t, c) = Cardinality(PlacesFrom(t, c))
  BY <1>1, TakenTyped
<1>6. CASE Source[x.chunk] = Source[c]
  <2>1. PlacesFrom(u, c) = PlacesFrom(t, c) \cup {n + 1}
    BY <1>1, <1>2, <1>3, <1>6 DEF PlacesFrom
  <2>2. Cardinality(PlacesFrom(t, c) \cup {n + 1}) = Cardinality(PlacesFrom(t, c)) + 1
    BY <1>4, FS_AddElement
  <2> QED
    BY <1>5, <1>6, <2>1, <2>2 DEF u
<1>7. CASE Source[x.chunk] # Source[c]
  <2>1. PlacesFrom(u, c) = PlacesFrom(t, c)
    BY <1>1, <1>2, <1>3, <1>7 DEF PlacesFrom
  <2> QED
    BY <1>5, <1>7, <2>1 DEF u
<1> QED
  BY <1>6, <1>7

\* Lists of the same items, each once, take the same from a document.
LEMMA TakenAlike ==
    ASSUME NEW s \in Seq(ItemRecs), NEW t \in Seq(ItemRecs), Range(s) = Range(t), NEW c,
           \A i, j \in DOMAIN s : s[i] = s[j] => i = j,
           \A i, j \in DOMAIN t : t[i] = t[j] => i = j
    PROVE  TakenFrom(s, c) = TakenFrom(t, c)
<1> DEFINE A == PlacesFrom(s, c)
           B == PlacesFrom(t, c)
           f == [i \in A |-> CHOOSE j \in DOMAIN t : t[j] = s[i]]
<1>1. \A i \in A : f[i] \in B /\ t[f[i]] = s[i]
  <2> SUFFICES ASSUME NEW i \in A PROVE f[i] \in B /\ t[f[i]] = s[i]
    OBVIOUS
  <2>1. i \in DOMAIN s /\ Source[s[i].chunk] = Source[c]
    BY DEF PlacesFrom
  <2>2. \E j \in DOMAIN t : t[j] = s[i]
    BY <2>1 DEF Range
  <2>3. f[i] = CHOOSE j \in DOMAIN t : t[j] = s[i]
    OBVIOUS
  <2> HIDE DEF f
  <2>4. f[i] \in DOMAIN t /\ t[f[i]] = s[i]
    BY <2>2, <2>3
  <2> QED
    BY <2>1, <2>4 DEF PlacesFrom
<1>2. f \in [A -> B]
  <2>1. \A i \in A : f[i] \in B
    BY <1>1
  <2> QED
    BY <2>1
<1> HIDE DEF f
<1>3. ASSUME NEW j \in B PROVE \E i \in A : f[i] = j
  <2>1. j \in DOMAIN t /\ Source[t[j].chunk] = Source[c]
    BY DEF PlacesFrom
  <2>2. PICK i \in DOMAIN s : s[i] = t[j]
    <3>1. t[j] \in Range(t)
      BY <2>1 DEF Range
    <3>2. t[j] \in Range(s)
      BY <3>1
    <3> QED
      BY <3>2 DEF Range
  <2>3. i \in A
    <3>1. Source[s[i].chunk] = Source[c]
      BY <2>1, <2>2
    <3> QED
      BY <3>1 DEF PlacesFrom
  <2>4. f[i] \in DOMAIN t /\ t[f[i]] = t[j]
    BY <1>1, <2>2, <2>3 DEF PlacesFrom
  <2> QED
    BY <2>1, <2>3, <2>4
<1>4. ASSUME NEW i \in A, NEW j \in A, f[i] = f[j] PROVE i = j
  <2>1. s[i] = s[j]
    BY <1>1, <1>4
  <2> QED
    BY <2>1 DEF PlacesFrom
<1>5. IsFiniteSet(A) /\ TakenFrom(s, c) = Cardinality(A) /\ TakenFrom(t, c) = Cardinality(B)
  BY TakenTyped
<1> HIDE DEF A, B
<1>6. f \in Surjection(A, B) /\ f \in Injection(A, B)
  BY <1>2, <1>3, <1>4 DEF Surjection, Injection, IsInjective
<1>7. Cardinality(A) = Cardinality(B)
  BY <1>5, <1>6, FS_Surjection
<1> QED
  BY <1>5, <1>7
-----------------------------------------------------------------------------
(* The chunks from the top of a list *)

\* What was chosen among the first n items.
ChoiceOf(chosen, items, n) ==
    /\ Ranked(chosen) /\ Len(chosen) <= FinalTopK
    /\ \A a \in Range(chosen) : \E k \in 1..n : a = items[k]
    /\ \A c \in Chunks : TakenFrom(chosen, c) <= PerDocument
    /\ n >= 1 => 1 \in DOMAIN chosen /\ chosen[1] = items[1]
    /\ Len(chosen) < FinalTopK =>
         \A k \in 1..n : items[k] \in Range(chosen) \/ TakenFrom(chosen, items[k].chunk) = PerDocument

\* TakeTopChunks at one place: it goes on choosing from the top.
LEMMA TakeOne ==
    ASSUME RankingConstants, NEW items, Ranked(items), NEW n \in 1..Len(items), NEW t, ChoiceOf(t, items, n - 1)
    PROVE  ChoiceOf(TakeStep(t, items[n]), items, n)
<1> DEFINE x == items[n]
<1>1. /\ items \in Seq(ItemRecs) /\ DOMAIN items = 1..Len(items) /\ Len(items) \in Nat
      /\ (\A i, j \in DOMAIN items : items[i].chunk = items[j].chunk => i = j)
      /\ (\A i, j \in DOMAIN items : i < j => Precedes(items[i], items[j]))
      /\ x \in ItemRecs /\ x.chunk \in Chunks
  BY RankedPlaces
<1> HIDE DEF x
<1>2. /\ Ranked(t) /\ Len(t) <= FinalTopK /\ (\A a \in Range(t) : \E k \in 1..(n - 1) : a = items[k])
      /\ (\A c \in Chunks : TakenFrom(t, c) <= PerDocument)
  BY DEF ChoiceOf
<1>3. FinalTopK \in Nat /\ FinalTopK > 0 /\ PerDocument \in Nat /\ PerDocument > 0
  BY DEF RankingConstants
<1>4. t \in Seq(ItemRecs) /\ Len(t) \in Nat /\ DOMAIN t = 1..Len(t)
  BY <1>2 DEF Ranked
<1>5. \A c : TakenFrom(t, c) \in Nat
  BY <1>4, TakenTyped
<1>6. CASE Len(t) < FinalTopK /\ MayTake(t, x.chunk)
  <2> DEFINE u == Append(t, x)
  <2>1. TakeStep(t, items[n]) = u
    BY <1>6 DEF TakeStep, x
  <2>2. \A a \in Range(t) : Precedes(a, x) /\ a.chunk # x.chunk
    <3> SUFFICES ASSUME NEW a \in Range(t) PROVE Precedes(a, x) /\ a.chunk # x.chunk
      OBVIOUS
    <3>1. PICK k \in 1..(n - 1) : a = items[k]
      BY <1>2
    <3>2. k \in DOMAIN items /\ n \in DOMAIN items /\ k < n
      BY <1>1
    <3> QED
      BY <1>1, <3>1, <3>2 DEF x
  <2>3. Ranked(u)
    BY <1>1, <1>2, <2>2, RankedMore
  <2>4. /\ Len(u) = Len(t) + 1 /\ DOMAIN u = 1..(Len(t) + 1) /\ u[Len(t) + 1] = x
        /\ (\A i \in 1..Len(t) : u[i] = t[i]) /\ Range(u) = Range(t) \cup {x}
    BY <1>1, <1>4, Appending
  <2>5. TakenFrom(t, x.chunk) < PerDocument
    BY <1>3, <1>6 DEF MayTake
  <2>6. \A c : TakenFrom(u, c) = IF Source[x.chunk] = Source[c] THEN TakenFrom(t, c) + 1 ELSE TakenFrom(t, c)
    BY <1>1, <1>4, TakenMore
  <2> HIDE DEF u
  <2>7. \A c \in Chunks : TakenFrom(u, c) <= PerDocument
    <3> SUFFICES ASSUME NEW c \in Chunks PROVE TakenFrom(u, c) <= PerDocument
      OBVIOUS
    <3>1. CASE Source[x.chunk] = Source[c]
      <4>1. TakenFrom(t, c) = TakenFrom(t, x.chunk)
        BY <3>1 DEF TakenFrom
      <4> QED
        BY <1>3, <1>5, <2>5, <2>6, <3>1, <4>1
    <3>2. CASE Source[x.chunk] # Source[c]
      BY <1>2, <2>6, <3>2
    <3> QED
      BY <3>1, <3>2
  <2>8. \A k \in 1..n : k \in 1..(n - 1) \/ k = n
    BY <1>1
  <2>9. 1..(n - 1) \subseteq 1..n /\ n \in 1..n
    BY <1>1
  <2>10. \A a \in Range(u) : \E k \in 1..n : a = items[k]
    BY <1>2, <2>4, <2>9 DEF x
  <2>11. 1 \in DOMAIN u /\ u[1] = items[1]
    <3>1. 1 \in 1..(Len(t) + 1)
      BY <1>4
    <3>2. CASE n = 1
      <4>1. ~ \E a : a \in Range(t)
        BY <1>2, <3>2
      <4>2. Len(t) = 0
        <5>1. ASSUME Len(t) # 0 PROVE FALSE
          <6>1. 1 \in DOMAIN t
            BY <1>4, <5>1
          <6> QED
            BY <4>1, <6>1 DEF Range
        <5> QED
          BY <5>1
      <4> QED
        BY <2>4, <3>1, <3>2, <4>2 DEF x
    <3>3. CASE n # 1
      <4>1. n - 1 >= 1
        BY <1>1, <3>3
      <4>2. 1 \in DOMAIN t /\ t[1] = items[1]
        BY <4>1 DEF ChoiceOf
      <4> QED
        BY <1>4, <2>4, <3>1, <4>2
    <3> QED
      BY <3>2, <3>3
  <2>12. ASSUME Len(u) < FinalTopK, NEW k \in 1..n
         PROVE  items[k] \in Range(u) \/ TakenFrom(u, items[k].chunk) = PerDocument
    <3>1. CASE k = n
      BY <2>4, <3>1 DEF x
    <3>2. CASE k # n
      <4>1. k \in 1..(n - 1) /\ k \in DOMAIN items
        BY <1>1, <2>8, <3>2
      <4>2. items[k] \in Range(t) \/ TakenFrom(t, items[k].chunk) = PerDocument
        BY <1>6, <4>1 DEF ChoiceOf
      <4>3. CASE items[k] \in Range(t)
        BY <2>4, <4>3
      <4>4. CASE TakenFrom(t, items[k].chunk) = PerDocument
        <5>1. Source[x.chunk] # Source[items[k].chunk]
          <6> SUFFICES ASSUME Source[x.chunk] = Source[items[k].chunk] PROVE FALSE
            OBVIOUS
          <6>1. TakenFrom(t, items[k].chunk) = TakenFrom(t, x.chunk)
            BY DEF TakenFrom
          <6> QED
            BY <1>3, <1>5, <2>5, <4>4, <6>1
        <5> QED
          BY <2>6, <4>4, <5>1
      <4> QED
        BY <4>2, <4>3, <4>4
    <3> QED
      BY <3>1, <3>2
  <2>13. Len(u) <= FinalTopK
    BY <1>3, <1>4, <1>6, <2>4
  <2>14. ChoiceOf(u, items, n)
    BY <2>3, <2>7, <2>10, <2>11, <2>12, <2>13 DEF ChoiceOf
  <2> QED
    BY <2>1, <2>14
<1>7. CASE ~(Len(t) < FinalTopK /\ MayTake(t, x.chunk))
  <2>1. TakeStep(t, items[n]) = t
    BY <1>7 DEF TakeStep, x
  <2>2. Len(t) = FinalTopK \/ TakenFrom(t, x.chunk) = PerDocument
    <3>1. CASE MayTake(t, x.chunk)
      <4>1. ~(Len(t) < FinalTopK)
        BY <1>7, <3>1
      <4>2. Len(t) \in Nat /\ Len(t) <= FinalTopK
        BY <1>2, <1>4
      <4>3. PICK m : m = Len(t)
        OBVIOUS
      <4>4. m \in Nat /\ m <= FinalTopK /\ ~(m < FinalTopK)
        BY <4>1, <4>2, <4>3, Zenon
      <4>5. m = FinalTopK
        BY <1>3, <4>4
      <4> QED
        BY <4>3, <4>5, Zenon
    <3>2. CASE ~MayTake(t, x.chunk)
      <4>1. ~(TakenFrom(t, x.chunk) < PerDocument) /\ TakenFrom(t, x.chunk) <= PerDocument
        BY <1>1, <1>2, <3>2 DEF MayTake
      <4> QED
        BY <1>3, <1>5, <4>1
    <3> QED
      BY <3>1, <3>2
  <2>3. 1 \in DOMAIN t /\ t[1] = items[1]
    <3>1. CASE n = 1
      <4>0. ~ \E a : a \in Range(t)
        BY <1>2, <3>1
      <4>1. t = <<>>
        <5>1. ASSUME Len(t) # 0 PROVE FALSE
          <6>1. 1 \in DOMAIN t
            BY <1>4, <5>1
          <6> QED
            BY <4>0, <6>1 DEF Range
        <5> QED
          BY <1>4, <5>1
      <4>2. TakenFrom(t, x.chunk) = 0 /\ Len(t) = 0
        BY <4>1, TakenNone
      <4> QED
        BY <1>3, <2>2, <4>2
    <3>2. CASE n # 1
      <4>1. n - 1 >= 1
        BY <1>1, <3>2
      <4> QED
        BY <4>1 DEF ChoiceOf
    <3> QED
      BY <3>1, <3>2
  <2>4. \A k \in 1..n : k \in 1..(n - 1) \/ k = n
    BY <1>1
  <2>5. 1..(n - 1) \subseteq 1..n
    BY <1>1
  <2>6. ASSUME Len(t) < FinalTopK, NEW k \in 1..n
        PROVE  items[k] \in Range(t) \/ TakenFrom(t, items[k].chunk) = PerDocument
    <3>1. CASE k = n
      <4>1. Len(t) # FinalTopK
        <5>1. PICK m : m = Len(t)
          OBVIOUS
        <5>2. m \in Nat /\ m < FinalTopK
          BY <1>4, <2>6, <5>1, Zenon
        <5>3. m # FinalTopK
          BY <1>3, <5>2
        <5> QED
          BY <5>1, <5>3, Zenon
      <4> QED
        BY <2>2, <3>1, <4>1 DEF x
    <3>2. CASE k # n
      <4>1. k \in 1..(n - 1)
        BY <2>4, <3>2
      <4> QED
        BY <2>6, <4>1 DEF ChoiceOf
    <3> QED
      BY <3>1, <3>2
  <2>7. \A a \in Range(t) : \E k \in 1..n : a = items[k]
    BY <1>2, <2>5
  <2>8. ChoiceOf(t, items, n)
    BY <1>2, <2>3, <2>6, <2>7 DEF ChoiceOf
  <2> QED
    BY <2>1, <2>8
<1> QED
  BY <1>6, <1>7

\* A choice from a list, as ChosenWell asks for it.
ChosenFrom(chosen, items) ==
    /\ Ranked(chosen)
    /\ items # <<>> => chosen[1] = items[1]
    /\ Range(chosen) \subseteq Range(items) /\ Len(chosen) <= FinalTopK
    /\ \A c \in Chunks : TakenFrom(chosen, c) <= PerDocument
    /\ Len(chosen) < FinalTopK =>
         \A i \in DOMAIN items : items[i] \in Range(chosen)
                                   \/ TakenFrom(chosen, items[i].chunk) = PerDocument

\* TakeTopChunks leaves out a chunk only when the list or its document is full.
LEMMA TakeTop ==
    ASSUME RankingConstants, NEW items, Ranked(items)
    PROVE  ChosenFrom(TakeTopChunks(items), items)
<1> DEFINE n == Len(items)
<1>1. items \in Seq(ItemRecs) /\ n \in Nat /\ DOMAIN items = 1..n
  BY DEF Ranked
<1>2. PICK h \in [0..n -> Chosen] :
          /\ h[0] = <<>> /\ \A i \in 1..n : h[i] = TakeStep(h[i - 1], items[i])
          /\ TakeTopChunks(items) = h[n]
  BY <1>1, TakeFold, SMTT(40)
<1> DEFINE P == {i \in 0..n : ChoiceOf(h[i], items, i)}
<1> HIDE DEF n
<1>3. 0 \in P
  <2>1. PICK t : t = <<>>
    OBVIOUS
  <2>2. Ranked(t) /\ Range(t) = {} /\ Len(t) = 0 /\ (\A c : TakenFrom(t, c) = 0)
    BY <2>1, RankedNone, TakenNone
  <2>3. FinalTopK \in Nat /\ PerDocument \in Nat
    BY DEF RankingConstants
  <2>4. 1..0 = {} /\ ~(0 >= 1)
    OBVIOUS
  <2>5. Len(t) <= FinalTopK /\ \A c : TakenFrom(t, c) <= PerDocument
    BY <2>2, <2>3
  <2>6. ChoiceOf(t, items, 0)
    BY <2>2, <2>4, <2>5 DEF ChoiceOf
  <2> QED
    BY <1>1, <1>2, <2>1, <2>6
<1>4. ASSUME NEW i \in 1..n, i - 1 \in P PROVE i \in P
  <2>1. ChoiceOf(h[i - 1], items, i - 1)
    BY <1>4
  <2>2. ChoiceOf(TakeStep(h[i - 1], items[i]), items, i)
    BY <2>1, TakeOne DEF n
  <2>3. i \in 0..n
    BY <1>1
  <2> QED
    BY <1>2, <2>2, <2>3
<1>5. n \in P
  <2>1. P \in SUBSET (0..n)
    OBVIOUS
  <2> HIDE DEF P
  <2>2. P = 0..n
    BY <1>1, <1>3, <1>4, <2>1, NumberInduction
  <2> QED
    BY <1>1, <2>2
<1>6. ChoiceOf(h[n], items, n)
  BY <1>5
<1> DEFINE c == h[n]
<1>7. ChoiceOf(c, items, n) /\ TakeTopChunks(items) = c
  BY <1>2, <1>6
<1> HIDE DEF c
<1>8. items # <<>> => n >= 1
  BY <1>1 DEF n
<1>9. Range(c) \subseteq Range(items)
  <2>1. \A k \in 1..n : items[k] \in Range(items)
    BY <1>1 DEF Range
  <2> QED
    BY <1>7, <2>1 DEF ChoiceOf
<1> QED
  BY <1>1, <1>7, <1>8, <1>9 DEF ChoiceOf, ChosenFrom

\* The gate keeps the order of what it keeps.
LEMMA ItemsOfRanked ==
    ASSUME RankingConstants, NEW items, Ranked(items), NEW chunks
    PROVE  Ranked(ItemsOf(items, chunks))
<1> DEFINE n == Len(items)
<1>1. /\ items \in Seq(ItemRecs) /\ n \in Nat /\ DOMAIN items = 1..n
      /\ (\A i, j \in DOMAIN items : items[i].chunk = items[j].chunk => i = j)
      /\ (\A i, j \in DOMAIN items : i < j => Precedes(items[i], items[j]))
  BY RankedPlaces
<1>2. PICK h \in [0..n -> Chosen] :
          /\ h[0] = <<>> /\ \A i \in 1..n : h[i] = KeepStep(h[i - 1], items[i], chunks)
          /\ ItemsOf(items, chunks) = h[n]
  BY <1>1, KeepFold, ZenonT(60)
<1> DEFINE From(t, i) == Ranked(t) /\ \A a \in Range(t) : \E k \in 1..i : a = items[k]
           P == {i \in 0..n : From(h[i], i)}
<1> HIDE DEF n
<1>3. 0 \in P
  <2>1. From(<<>>, 0)
    BY RankedNone
  <2> HIDE DEF From
  <2> QED
    BY <1>1, <1>2, <2>1
<1>4. ASSUME NEW i \in 1..n, i - 1 \in P PROVE i \in P
  <2> DEFINE t == h[i - 1]
             x == items[i]
  <2>1. Ranked(t) /\ \A a \in Range(t) : \E k \in 1..(i - 1) : a = items[k]
    BY <1>4
  <2> HIDE DEF t, x
  <2>2. t \in Seq(ItemRecs) /\ x \in ItemRecs
    BY <1>1, <2>1 DEF Ranked, x
  <2>3. 1..(i - 1) \subseteq 1..i /\ i \in 1..i /\ i \in 0..n
    BY <1>1
  <2>4. From(KeepStep(t, x, chunks), i)
    <3>1. CASE x.chunk \in chunks
      <4>1. \A a \in Range(t) : Precedes(a, x) /\ a.chunk # x.chunk
        <5> SUFFICES ASSUME NEW a \in Range(t) PROVE Precedes(a, x) /\ a.chunk # x.chunk
          OBVIOUS
        <5>1. PICK k \in 1..(i - 1) : a = items[k]
          BY <2>1
        <5>2. k \in DOMAIN items /\ i \in DOMAIN items /\ k < i
          BY <1>1
        <5> QED
          BY <1>1, <5>1, <5>2 DEF x
      <4>2. Ranked(Append(t, x))
        BY <2>1, <2>2, <4>1, RankedMore
      <4>3. Range(Append(t, x)) = Range(t) \cup {x}
        BY <2>2, Appending
      <4>4. KeepStep(t, x, chunks) = Append(t, x)
        BY <3>1 DEF KeepStep
      <4> QED
        BY <2>1, <2>3, <4>2, <4>3, <4>4 DEF x
    <3>2. CASE x.chunk \notin chunks
      <4>1. KeepStep(t, x, chunks) = t
        BY <3>2 DEF KeepStep
      <4> QED
        BY <2>1, <2>3, <4>1
    <3> QED
      BY <3>1, <3>2
  <2>5. h[i] = KeepStep(t, x, chunks)
    BY <1>2 DEF t, x
  <2> HIDE DEF From
  <2> QED
    BY <2>3, <2>4, <2>5
<1>5. n \in P
  <2>1. P \in SUBSET (0..n)
    OBVIOUS
  <2> HIDE DEF P
  <2>2. P = 0..n
    BY <1>1, <1>3, <1>4, <2>1, NumberInduction
  <2> QED
    BY <1>1, <2>2
<1> QED
  BY <1>2, <1>5
-----------------------------------------------------------------------------
(* selectWithMMR *)

\* What the first n rounds chose.
RoundsOf(chosen, items, n) ==
    /\ chosen \in Chosen /\ Range(chosen) \subseteq Range(items)
    /\ \A i, j \in DOMAIN chosen : chosen[i] = chosen[j] => i = j
    /\ \A c \in Chunks : TakenFrom(chosen, c) <= PerDocument
    /\ Len(chosen) <= n
    /\ n >= 1 /\ items # <<>> => 1 \in DOMAIN chosen /\ chosen[1] = items[1]
    /\ Len(chosen) < n => OpenIn(items, chosen) = {}

\* The first round takes the first item.
LEMMA FirstPick ==
    ASSUME RankingConstants, NEW items, Ranked(items), items # <<>>
    PROVE  Pick(<<>>, items) = Append(<<>>, items[1])
<1>1. /\ items \in Seq(ItemRecs) /\ DOMAIN items = 1..Len(items) /\ Len(items) \in Nat
      /\ (\A i, j \in DOMAIN items : i < j => Precedes(items[i], items[j]))
      /\ (\A i \in DOMAIN items : items[i] \in ItemRecs)
  BY RankedPlaces
<1>2. 1 \in DOMAIN items /\ \A i \in DOMAIN items : i \in Nat /\ 1 <= i
  BY <1>1
<1>3. PICK none : none = <<>> /\ Range(none) = {} /\ DOMAIN none = {}
  BY RankedNone
<1>4. OpenIn(items, none) = DOMAIN items
  <2>1. \A c : MayTake(none, c)
    <3>1. \A c : TakenFrom(none, c) = 0
      BY <1>3, TakenNone
    <3>2. PerDocument \in Nat \ {0}
      BY DEF RankingConstants
    <3>3. 0 < PerDocument
      BY <3>2
    <3> QED
      BY <3>1, <3>3 DEF MayTake
  <2> QED
    BY <1>3, <2>1 DEF OpenIn
<1>5. \A item \in ItemRecs : MMRScore(item, none) = 75 * item.score /\ item.score \in Int
  <2> SUFFICES ASSUME NEW item \in ItemRecs PROVE MMRScore(item, none) = 75 * item.score /\ item.score \in Int
    OBVIOUS
  <2>1. item.score \in Int
    BY DEF ItemRecs
  <2>2. ~ \E i \in DOMAIN none : Topic[none[i].chunk] = Topic[item.chunk]
    BY <1>3
  <2>3. MMRScore(item, none) = 75 * item.score - 0
    BY <2>2, SMT DEF MMRScore
  <2>4. 75 * item.score - 0 = 75 * item.score
    BY <2>1
  <2> QED
    BY <2>1, <2>3, <2>4
<1>6. ASSUME NEW j \in DOMAIN items PROVE MMRScore(items[1], none) >= MMRScore(items[j], none)
  <2>1. items[1].score >= items[j].score
    <3>1. CASE j = 1
      BY <1>1, <1>5, <3>1
    <3>2. CASE j # 1
      <4>1. 1 < j
        BY <1>2, <3>2
      <4>2. Precedes(items[1], items[j])
        BY <1>1, <1>2, <4>1
      <4> QED
        BY <1>1, <1>2, <4>2, PrecedesOrders
    <3> QED
      BY <3>1, <3>2
  <2>2. items[1] \in ItemRecs /\ items[j] \in ItemRecs
    BY <1>1, <1>2
  <2>3. items[1].score \in Int /\ items[j].score \in Int
    BY <1>5, <2>2
  <2>4. 75 * items[1].score >= 75 * items[j].score
    BY <2>1, <2>3
  <2> QED
    BY <1>5, <2>2, <2>4
<1>7. 1 \in BestIn(items, none)
  BY <1>2, <1>4, <1>6 DEF BestIn
<1>8. Min(BestIn(items, none)) \in BestIn(items, none) /\ Min(BestIn(items, none)) <= 1
  BY <1>1, <1>2, <1>4, <1>7, BestExists
<1>9. Min(BestIn(items, none)) \in DOMAIN items
  BY <1>4, <1>8 DEF BestIn
<1>10. Min(BestIn(items, none)) = 1
  BY <1>2, <1>8, <1>9
<1>11. Pick(none, items) = Append(none, items[1])
  BY <1>2, <1>4, <1>10, PickIs
<1> QED
  BY <1>3, <1>11

\* A further round of selectWithMMR keeps what the rounds before it chose.
LEMMA NextRound ==
    ASSUME RankingConstants, NEW items, Ranked(items), NEW n \in Nat \ {0}, NEW t, RoundsOf(t, items, n - 1)
    PROVE  RoundsOf(Pick(t, items), items, n)
<1>1. /\ items \in Seq(ItemRecs) /\ DOMAIN items = 1..Len(items) /\ Len(items) \in Nat
      /\ (\A i, j \in DOMAIN items : items[i].chunk = items[j].chunk => i = j)
      /\ (\A i \in DOMAIN items : items[i] \in ItemRecs)
  BY RankedPlaces
<1>2. /\ t \in Chosen /\ Range(t) \subseteq Range(items)
      /\ (\A i, j \in DOMAIN t : t[i] = t[j] => i = j)
      /\ (\A c \in Chunks : TakenFrom(t, c) <= PerDocument) /\ Len(t) <= n - 1
  BY DEF RoundsOf
<1>3. t \in Seq(ItemRecs) /\ Len(t) \in Nat /\ DOMAIN t = 1..Len(t)
  BY <1>2 DEF Chosen
<1>4. PerDocument \in Nat /\ PerDocument > 0
  BY DEF RankingConstants
<1>5. \A c : TakenFrom(t, c) \in Nat
  BY <1>3, TakenTyped
<1>6. CASE OpenIn(items, t) = {}
  <2>1. Pick(t, items) = t
    BY <1>6, PickIs
  <2>2. Len(t) <= n
    <3>1. PICK m : m = Len(t)
      OBVIOUS
    <3>2. m \in Nat /\ m <= n - 1
      BY <1>2, <1>3, <3>1, Zenon
    <3>3. m <= n
      BY <3>2
    <3> QED
      BY <3>1, <3>3, Zenon
  <2>3. ASSUME items # <<>> PROVE 1 \in DOMAIN t /\ t[1] = items[1]
    <3>1. CASE n = 1
      <4>1. Len(t) = 0
        <5>1. PICK m : m = Len(t)
          OBVIOUS
        <5>2. m \in Nat /\ m <= n - 1
          BY <1>2, <1>3, <5>1, Zenon
        <5>3. m = 0
          BY <3>1, <5>2
        <5> QED
          BY <5>1, <5>3, Zenon
      <4>2. t = <<>>
        BY <1>3, <4>1
      <4>3. Pick(t, items) = Append(<<>>, items[1])
        BY <2>3, <4>2, FirstPick
      <4>4. Append(<<>>, items[1]) # <<>>
        OBVIOUS
      <4> QED
        BY <2>1, <4>2, <4>3, <4>4
    <3>2. CASE n # 1
      <4>1. n - 1 >= 1
        BY <3>2
      <4> QED
        BY <2>3, <4>1 DEF RoundsOf
    <3> QED
      BY <3>1, <3>2
  <2>4. RoundsOf(t, items, n)
    BY <1>2, <1>6, <2>2, <2>3 DEF RoundsOf
  <2> QED
    BY <2>1, <2>4
<1>7. CASE OpenIn(items, t) # {}
  <2> DEFINE k == Min(BestIn(items, t))
             x == items[k]
             u == Append(t, x)
  <2>1. Pick(t, items) = u
    BY <1>7, PickIs
  <2>2. k \in OpenIn(items, t)
    BY <1>1, <1>7, BestExists DEF BestIn
  <2> HIDE DEF k
  <2>3. k \in DOMAIN items /\ x \notin Range(t) /\ MayTake(t, x.chunk)
    BY <2>2 DEF OpenIn
  <2>4. x \in ItemRecs /\ x.chunk \in Chunks /\ x \in Range(items)
    BY <1>1, <2>3 DEF Range, ItemRecs
  <2> HIDE DEF x
  <2>5. Len(t) = n - 1
    <3>1. ~(Len(t) < n - 1)
      BY <1>7 DEF RoundsOf
    <3>2. PICK m : m = Len(t)
      OBVIOUS
    <3>3. m \in Nat /\ m <= n - 1 /\ ~(m < n - 1)
      BY <1>2, <1>3, <3>1, <3>2, Zenon
    <3>4. m = n - 1
      BY <3>3
    <3> QED
      BY <3>2, <3>4, Zenon
  <2>6. /\ u \in Seq(ItemRecs) /\ Len(u) = Len(t) + 1 /\ DOMAIN u = 1..(Len(t) + 1)
        /\ u[Len(t) + 1] = x /\ (\A i \in 1..Len(t) : u[i] = t[i])
        /\ Range(u) = Range(t) \cup {x}
    BY <1>3, <2>4, Appending
  <2>7. \A c : TakenFrom(u, c) = IF Source[x.chunk] = Source[c] THEN TakenFrom(t, c) + 1 ELSE TakenFrom(t, c)
    BY <1>3, <2>4, TakenMore
  <2>8. TakenFrom(t, x.chunk) < PerDocument
    BY <1>4, <2>3 DEF MayTake
  <2> HIDE DEF u
  <2>9. \A c \in Chunks : TakenFrom(u, c) <= PerDocument
    <3> SUFFICES ASSUME NEW c \in Chunks PROVE TakenFrom(u, c) <= PerDocument
      OBVIOUS
    <3>1. CASE Source[x.chunk] = Source[c]
      <4>1. TakenFrom(t, c) = TakenFrom(t, x.chunk)
        BY <3>1 DEF TakenFrom
      <4> QED
        BY <1>4, <1>5, <2>7, <2>8, <3>1, <4>1
    <3>2. CASE Source[x.chunk] # Source[c]
      BY <1>2, <2>7, <3>2
    <3> QED
      BY <3>1, <3>2
  <2>10. Len(u) = n /\ DOMAIN u = 1..n /\ u[n] = x /\ \A i \in 1..(n - 1) : u[i] = t[i]
    <3>1. n - 1 + 1 = n
      OBVIOUS
    <3> QED
      BY <2>5, <2>6, <3>1, Zenon
  <2>11. \A i \in 1..n : i \in 1..(n - 1) \/ i = n
    OBVIOUS
  <2>12. DOMAIN t = 1..(n - 1)
    BY <1>3, <2>5
  <2>13. \A i, j \in DOMAIN u : u[i] = u[j] => i = j
    <3> SUFFICES ASSUME NEW i \in 1..n, NEW j \in 1..n, u[i] = u[j] PROVE i = j
      BY <2>10
    <3>1. \A m \in 1..(n - 1) : t[m] \in Range(t) /\ t[m] # x
      BY <2>3, <2>12 DEF Range
    <3> QED
      BY <1>2, <2>10, <2>11, <2>12, <3>1
  <2>14. ASSUME items # <<>> PROVE 1 \in DOMAIN u /\ u[1] = items[1]
    <3>1. 1 \in 1..n
      OBVIOUS
    <3>2. CASE n = 1
      <4>1. Len(t) = 0
        BY <2>5, <3>2
      <4>2. t = <<>>
        BY <1>3, <4>1
      <4>3. u = Append(<<>>, items[1])
        BY <2>1, <2>14, <4>2, FirstPick
      <4>4. Append(<<>>, items[1])[1] = items[1]
        OBVIOUS
      <4> QED
        BY <2>10, <3>1, <4>3, <4>4
    <3>3. CASE n # 1
      <4>1. n - 1 >= 1 /\ 1 \in 1..(n - 1)
        BY <3>3
      <4>2. t[1] = items[1]
        BY <2>14, <4>1 DEF RoundsOf
      <4> QED
        BY <2>10, <3>1, <4>1, <4>2
    <3> QED
      BY <3>2, <3>3
  <2>15. Range(u) \subseteq Range(items) /\ u \in Chosen
    BY <1>2, <2>4, <2>6 DEF Chosen
  <2>16. Len(u) <= n /\ ~(Len(u) < n)
    BY <2>10
  <2>17. RoundsOf(u, items, n)
    BY <2>9, <2>13, <2>14, <2>15, <2>16 DEF RoundsOf
  <2> QED
    BY <2>1, <2>17
<1> QED
  BY <1>6, <1>7

\* All rounds of selectWithMMR.
LEMMA Selecting ==
    ASSUME RankingConstants, NEW items, Ranked(items)
    PROVE  RoundsOf(Selected(items), items, FinalTopK)
<1> DEFINE n == Len(Turns)
<1>1. items \in Seq(ItemRecs) /\ n = FinalTopK /\ n \in Nat
  BY TurnsIs DEF Ranked, RankingConstants
<1>2. PICK h \in [0..n -> Chosen] :
          /\ h[0] = <<>> /\ \A i \in 1..n : h[i] = Pick(h[i - 1], items)
          /\ Selected(items) = h[n]
  BY <1>1, SelectFold
<1> DEFINE P == {i \in 0..n : RoundsOf(h[i], items, i)}
<1> HIDE DEF n
<1>3. 0 \in P
  <2>1. PICK t : t = <<>>
    OBVIOUS
  <2>2. t \in Chosen /\ Range(t) = {} /\ DOMAIN t = {} /\ Len(t) = 0 /\ (\A c : TakenFrom(t, c) = 0)
    BY <2>1, RankedNone, TakenNone
  <2>3. PerDocument \in Nat
    BY DEF RankingConstants
  <2>4. ~(0 >= 1) /\ ~(0 < 0) /\ 0 <= 0
    OBVIOUS
  <2>5. \A c : TakenFrom(t, c) <= PerDocument
    BY <2>2, <2>3
  <2>6. RoundsOf(t, items, 0)
    BY <2>2, <2>4, <2>5 DEF RoundsOf
  <2> QED
    BY <1>1, <1>2, <2>1, <2>6
<1>4. ASSUME NEW i \in 1..n, i - 1 \in P PROVE i \in P
  <2>1. RoundsOf(h[i - 1], items, i - 1)
    BY <1>4
  <2>2. i \in 0..n /\ i \in Nat \ {0}
    BY <1>1
  <2>3. RoundsOf(Pick(h[i - 1], items), items, i)
    BY <2>1, <2>2, NextRound
  <2> QED
    BY <1>2, <2>2, <2>3
<1>5. n \in P
  <2>1. P \in SUBSET (0..n)
    OBVIOUS
  <2> HIDE DEF P
  <2>2. P = 0..n
    BY <1>1, <1>3, <1>4, <2>1, NumberInduction
  <2> QED
    BY <1>1, <2>2
<1> QED
  BY <1>1, <1>2, <1>5

\* A list in order starts with an item that comes before all the others.
LEMMA FirstOne ==
    ASSUME RankingConstants, NEW s, Ranked(s), NEW x \in Range(s),
           \A a \in Range(s) \ {x} : Precedes(x, a)
    PROVE  s[1] = x
<1>1. /\ s \in Seq(ItemRecs) /\ DOMAIN s = 1..Len(s) /\ Len(s) \in Nat
      /\ (\A i, j \in DOMAIN s : i < j => Precedes(s[i], s[j]))
      /\ (\A i \in DOMAIN s : s[i] \in ItemRecs)
  BY RankedPlaces
<1>2. PICK k \in DOMAIN s : s[k] = x
  BY DEF Range
<1>3. 1 \in DOMAIN s
  BY <1>1
<1> SUFFICES ASSUME s[1] # x PROVE FALSE
  OBVIOUS
<1>4. 1 < k
  BY <1>1, <1>2
<1>5. Precedes(s[1], x)
  BY <1>1, <1>2, <1>3, <1>4
<1>6. s[1] \in Range(s) \ {x} /\ s[1] \in ItemRecs /\ x \in ItemRecs
  BY <1>1, <1>2, <1>3 DEF Range
<1>7. Precedes(x, s[1])
  BY <1>6
<1> QED
  BY <1>5, <1>6, <1>7, PrecedesOrders

\* selectWithMMR, put in order again, leaves out a chunk only for the same reasons.
LEMMA SelectMMR ==
    ASSUME RankingConstants, NEW items, Ranked(items)
    PROVE  ChosenFrom(SelectWithMMR(items), items)
<1> DEFINE t == Selected(items)
           s == SelectWithMMR(items)
<1>1. RoundsOf(t, items, FinalTopK)
  BY Selecting
<1>2. s = Sorted(Range(t))
  BY Zenon DEF SelectWithMMR, Selected, Turns
<1> HIDE DEF t, s
<1>3. /\ t \in Seq(ItemRecs) /\ Len(t) \in Nat /\ DOMAIN t = 1..Len(t) /\ Range(t) \subseteq Range(items)
      /\ (\A i, j \in DOMAIN t : t[i] = t[j] => i = j)
      /\ (\A c \in Chunks : TakenFrom(t, c) <= PerDocument)
      /\ Len(t) <= FinalTopK /\ FinalTopK \in Nat /\ FinalTopK >= 1
  BY <1>1 DEF RoundsOf, Chosen, RankingConstants
<1>4. /\ items \in Seq(ItemRecs) /\ DOMAIN items = 1..Len(items) /\ Len(items) \in Nat
      /\ (\A i, j \in DOMAIN items : i < j => Precedes(items[i], items[j]))
      /\ (\A i \in DOMAIN items : items[i] \in ItemRecs /\ items[i].chunk \in Chunks)
      /\ Distinct(Range(items))
  BY RankedPlaces DEF Ranked
<1>5. Range(t) \in SUBSET ItemRecs /\ IsFiniteSet(Range(t)) /\ Cardinality(Range(t)) = Len(t) /\ Distinct(Range(t))
  <2>1. Range(items) \subseteq ItemRecs
    BY <1>4 DEF Range
  <2>2. t \in [1..Len(t) -> Range(t)] /\ Range(t) = {t[i] : i \in 1..Len(t)}
    BY <1>3 DEF Range
  <2>3. IsFiniteSet(1..Len(t))
    BY <1>3, FS_Interval
  <2>4. IsFiniteSet(Range(t))
    <3> DEFINE n == Len(t)
    <3>1. t \in Surjection(1..n, Range(t))
      BY <2>2 DEF Surjection
    <3> QED
      BY <2>3, <3>1, FS_Surjection
  <2>5. Cardinality(Range(t)) = Len(t)
    <3> DEFINE n == Len(t)
    <3>1. n \in Nat /\ t \in [1..n -> Range(t)] /\ \A i, j \in 1..n : t[i] = t[j] => i = j
      BY <1>3, <2>2
    <3> HIDE DEF n
    <3> QED
      BY <2>4, <3>1, InjectiveSize DEF n
  <2> QED
    BY <1>3, <1>4, <2>1, <2>4, <2>5 DEF Distinct
<1>6. Ranked(s) /\ Range(s) = Range(t) /\ Len(s) = Len(t)
  BY <1>2, <1>5, SortedIs
<1>7. \A c : TakenFrom(s, c) = TakenFrom(t, c)
  <2>1. s \in Seq(ItemRecs) /\ \A i, j \in DOMAIN s : s[i] = s[j] => i = j
    BY <1>6, RankedPlaces
  <2> QED
    BY <1>3, <1>6, <2>1, TakenAlike, SMTT(40)
<1>8. ASSUME items # <<>> PROVE s[1] = items[1]
  <2>1. 1 \in DOMAIN t /\ t[1] = items[1]
    BY <1>1, <1>3, <1>8 DEF RoundsOf
  <2>2. items[1] \in Range(s)
    <3>1. items[1] \in Range(t)
      BY <2>1, Zenon DEF Range
    <3> QED
      BY <1>6, <3>1, Zenon
  <2>3. \A a \in Range(items) \ {items[1]} : Precedes(items[1], a)
    <3> SUFFICES ASSUME NEW a \in Range(items) \ {items[1]} PROVE Precedes(items[1], a)
      OBVIOUS
    <3>1. PICK k \in DOMAIN items : a = items[k]
      BY DEF Range
    <3>2. k # 1
      BY <3>1
    <3>3. 1 < k /\ 1 \in DOMAIN items
      BY <1>4, <3>2
    <3> QED
      BY <1>4, <3>1, <3>3
  <2> QED
    BY <1>3, <1>6, <2>2, <2>3, FirstOne
<1>9. ASSUME Len(s) < FinalTopK, NEW i \in DOMAIN items
      PROVE  items[i] \in Range(s) \/ TakenFrom(s, items[i].chunk) = PerDocument
  <2>1. OpenIn(items, t) = {}
    BY <1>1, <1>6, <1>9 DEF RoundsOf
  <2>2. items[i] \in Range(t) \/ ~MayTake(t, items[i].chunk)
    BY <2>1 DEF OpenIn
  <2>3. CASE items[i] \in Range(t)
    BY <1>6, <2>3
  <2>4. CASE ~MayTake(t, items[i].chunk)
    <3>1. PICK m : m = TakenFrom(t, items[i].chunk)
      OBVIOUS
    <3>2. ~(m < PerDocument)
      BY <2>4, <3>1 DEF MayTake
    <3>3. m <= PerDocument /\ m \in Nat /\ PerDocument \in Nat
      BY <1>3, <1>4, <3>1, TakenTyped DEF RankingConstants
    <3>4. m = PerDocument
      BY <3>2, <3>3
    <3> QED
      BY <1>7, <3>1, <3>4
  <2> QED
    BY <2>2, <2>3, <2>4
<1>10. Len(s) <= FinalTopK /\ (\A c \in Chunks : TakenFrom(s, c) <= PerDocument) /\ Range(s) \subseteq Range(items)
  BY <1>3, <1>6, <1>7
<1> QED
  BY <1>6, <1>8, <1>9, <1>10 DEF ChosenFrom, s

-----------------------------------------------------------------------------
(* Merging *)

\* The scores are the highest that the items of F give their chunks.
BestOf(b, F) ==
    /\ b \in Scorings /\ DOMAIN b = {a.chunk : a \in F}
    /\ \A a \in F : a.score <= b[a.chunk]
    /\ \A c \in DOMAIN b : \E a \in F : a.chunk = c /\ a.score = b[c]

\* Taking an item into account keeps the best scores.
LEMMA BetterBest ==
    ASSUME NEW F \in SUBSET ItemRecs, NEW b, BestOf(b, F), NEW item \in ItemRecs
    PROVE  BestOf(Better(b, item), F \cup {item})
<1> DEFINE b2 == Better(b, item)
           D2 == DOMAIN b \cup {item.chunk}
<1>1. PICK D \in SUBSET Chunks : b \in [D -> Int]
  BY DEF BestOf, Scorings
<1>2. item.score \in Int /\ \A a \in F : a.score \in Int
  BY DEF ItemRecs
<1>3. DOMAIN b = {a.chunk : a \in F} /\ (\A a \in F : a.score <= b[a.chunk])
      /\ (\A c \in DOMAIN b : b[c] \in Int /\ \E a \in F : a.chunk = c /\ a.score = b[c])
  BY <1>1 DEF BestOf
<1>4. b2 \in Scorings
  BY BetterTyped DEF BestOf
<1>5. CASE item.chunk \in DOMAIN b /\ item.score <= b[item.chunk]
  <2>1. b2 = b
    BY <1>5 DEF Better
  <2> HIDE DEF b2
  <2>2. DOMAIN b = {a.chunk : a \in F \cup {item}}
    BY <1>3, <1>5
  <2>3. \A a \in F \cup {item} : a.score <= b[a.chunk]
    BY <1>3, <1>5
  <2>4. \A c \in DOMAIN b : \E a \in F \cup {item} : a.chunk = c /\ a.score = b[c]
    BY <1>3
  <2>5. BestOf(b, F \cup {item})
    BY <2>2, <2>3, <2>4 DEF BestOf
  <2> QED
    BY <2>1, <2>5 DEF b2
<1>6. CASE ~(item.chunk \in DOMAIN b /\ item.score <= b[item.chunk])
  <2>1. b2 = [c \in D2 |-> IF c = item.chunk THEN item.score ELSE b[c]]
    BY <1>6 DEF Better
  <2> HIDE DEF b2
  <2>2. DOMAIN b2 = D2 /\ b2[item.chunk] = item.score /\ \A c \in DOMAIN b : c # item.chunk => b2[c] = b[c]
    BY <2>1
  <2>3. D2 = {a.chunk : a \in F \cup {item}}
    BY <1>3
  <2>4. ASSUME NEW a \in F \cup {item} PROVE a.score <= b2[a.chunk]
    <3>1. CASE a.chunk = item.chunk
      <4>1. CASE a = item
        BY <1>2, <2>2, <4>1
      <4>2. CASE a \in F
        <5>1. a.chunk \in DOMAIN b /\ a.score <= b[a.chunk] /\ b[a.chunk] \in Int
          BY <1>3, <4>2
        <5>2. ~(item.score <= b[item.chunk])
          BY <1>6, <3>1, <5>1
        <5> QED
          BY <1>2, <2>2, <3>1, <4>2, <5>1, <5>2
      <4> QED
        BY <4>1, <4>2
    <3>2. CASE a.chunk # item.chunk
      <4>1. a \in F
        BY <3>2
      <4>2. a.chunk \in DOMAIN b /\ a.score <= b[a.chunk]
        BY <1>3, <4>1
      <4> QED
        BY <2>2, <3>2, <4>2
    <3> QED
      BY <3>1, <3>2
  <2>5. ASSUME NEW c \in D2 PROVE \E a \in F \cup {item} : a.chunk = c /\ a.score = b2[c]
    <3>1. CASE c = item.chunk
      BY <2>2, <3>1
    <3>2. CASE c # item.chunk
      <4>1. c \in DOMAIN b
        BY <3>2
      <4>2. PICK a \in F : a.chunk = c /\ a.score = b[c]
        BY <1>3, <4>1
      <4> QED
        BY <2>2, <3>2, <4>1, <4>2
    <3> QED
      BY <3>1, <3>2
  <2>6. BestOf(b2, F \cup {item})
    BY <1>4, <2>2, <2>3, <2>4, <2>5 DEF BestOf
  <2> QED
    BY <2>6 DEF b2
<1> QED
  BY <1>5, <1>6

\* The items of a list, and those of its first n places.
Seen(items, n) == {items[k] : k \in 1..n}

\* One place further, one more item.
LEMMA SeenMore ==
    ASSUME NEW items, NEW n \in Nat \ {0}
    PROVE  Seen(items, n) = Seen(items, n - 1) \cup {items[n]} /\ Seen(items, 0) = {}
<1>1. \A k : k \in 1..n <=> (k \in 1..(n - 1) \/ k = n)
  OBVIOUS
<1>2. 1..0 = {}
  OBVIOUS
<1> QED
  BY <1>1, <1>2 DEF Seen

\* After all items of a query.
LEMMA GatherBest ==
    ASSUME NEW F \in SUBSET ItemRecs, NEW b, BestOf(b, F), NEW items \in Seq(ItemRecs)
    PROVE  BestOf(FoldLeft(Better, b, items), F \cup Range(items))
<1> DEFINE n == Len(items)
<1>1. n \in Nat /\ DOMAIN items = 1..n /\ \A i \in 1..n : items[i] \in ItemRecs
  OBVIOUS
<1>2. b \in Scorings
  BY DEF BestOf
<1>3. PICK h \in [0..n -> Scorings] :
          /\ h[0] = b /\ \A i \in 1..n : h[i] = Better(h[i - 1], items[i])
          /\ FoldLeft(Better, b, items) = h[n]
  BY <1>2, BetterFold
<1> HIDE DEF n
<1> DEFINE P == {i \in 0..n : BestOf(h[i], F \cup Seen(items, i))}
<1>4. 0 \in P
  <2>1. F \cup Seen(items, 0) = F
    <3>1. 1..0 = {}
      OBVIOUS
    <3> QED
      BY <3>1 DEF Seen
  <2> QED
    BY <1>1, <1>3, <2>1
<1>5. ASSUME NEW i \in 1..n, i - 1 \in P PROVE i \in P
  <2> DEFINE G == F \cup Seen(items, i - 1)
  <2>1. BestOf(h[i - 1], G)
    BY <1>5
  <2>2. i \in 0..n /\ i \in Nat \ {0} /\ 1..(i - 1) \subseteq 1..n
    BY <1>1
  <2>3. G \in SUBSET ItemRecs
    BY <1>1, <2>2 DEF Seen
  <2>4. F \cup Seen(items, i) = G \cup {items[i]}
    BY <2>2, SeenMore
  <2> HIDE DEF G
  <2>5. BestOf(Better(h[i - 1], items[i]), G \cup {items[i]})
    BY <1>1, <2>1, <2>3, BetterBest
  <2> QED
    BY <1>3, <2>2, <2>4, <2>5
<1>6. n \in P
  <2>1. P \in SUBSET (0..n)
    OBVIOUS
  <2> HIDE DEF P
  <2>2. P = 0..n
    BY <1>1, <1>4, <1>5, <2>1, NumberInduction
  <2> QED
    BY <1>1, <2>2
<1>7. Seen(items, n) = Range(items)
  BY <1>1 DEF Seen, Range
<1> QED
  BY <1>3, <1>6, <1>7

\* What a query found.
ItemsFound(q) == Range(answers[q].items)

\* The items of one query more.
LEMMA FoundMore ==
    ASSUME NEW A, NEW q
    PROVE  UNION {ItemsFound(p) : p \in A \cup {q}} = (UNION {ItemsFound(p) : p \in A}) \cup ItemsFound(q)
OBVIOUS

\* After all queries that answered.
LEMMA MergedBest ==
    ASSUME arrived \in Seq(Searches), \A q \in Searches : answers[q].items \in Seq(ItemRecs)
    PROVE  BestOf(MergedScores, UNION {ItemsFound(q) : q \in Range(arrived)})
<1> DEFINE n == Len(arrived)
<1>1. n \in Nat /\ DOMAIN arrived = 1..n /\ \A i \in 1..n : arrived[i] \in Searches
  OBVIOUS
<1>2. PICK h \in [0..n -> Scorings] :
          /\ h[0] = NoScores /\ \A i \in 1..n : h[i] = Gather(h[i - 1], arrived[i])
          /\ MergedScores = h[n]
  BY ScoresFold
<1> HIDE DEF n
<1> DEFINE U(i) == UNION {ItemsFound(q) : q \in Seen(arrived, i)}
           P == {i \in 0..n : BestOf(h[i], U(i))}
<1>3. \A q \in Searches : ItemsFound(q) \in SUBSET ItemRecs
  BY DEF ItemsFound, Range
<1>4. 0 \in P
  <2>1. U(0) = {}
    <3>1. 1..0 = {}
      OBVIOUS
    <3> QED
      BY <3>1 DEF Seen
  <2>2. BestOf(NoScores, {})
    BY NoScoresTyped DEF BestOf
  <2>3. BestOf(h[0], U(0))
    <3> HIDE DEF U
    <3> QED
      BY <1>2, <2>1, <2>2, Zenon
  <2> HIDE DEF U
  <2> QED
    BY <1>1, <2>3
<1>5. ASSUME NEW i \in 1..n, i - 1 \in P PROVE i \in P
  <2> DEFINE q == arrived[i]
  <2>1. BestOf(h[i - 1], U(i - 1))
    BY <1>5
  <2>2. i \in 0..n /\ i \in Nat \ {0} /\ 1..(i - 1) \subseteq 1..n /\ q \in Searches
    BY <1>1
  <2>3. Seen(arrived, i - 1) \subseteq Searches
    BY <1>1, <2>2 DEF Seen
  <2>4. U(i - 1) \in SUBSET ItemRecs
    BY <1>3, <2>3
  <2>5. U(i) = U(i - 1) \cup ItemsFound(q)
    <3>1. Seen(arrived, i) = Seen(arrived, i - 1) \cup {q}
      BY <2>2, SeenMore
    <3> HIDE DEF q
    <3> QED
      BY <3>1, FoundMore
  <2> HIDE DEF U, q
  <2>6. BestOf(FoldLeft(Better, h[i - 1], answers[q].items), U(i - 1) \cup Range(answers[q].items))
    <3>1. answers[q].items \in Seq(ItemRecs)
      BY <2>2
    <3> QED
      BY <2>1, <2>4, <3>1, GatherBest
  <2>7. h[i] = FoldLeft(Better, h[i - 1], answers[q].items)
    BY <1>2, Zenon DEF Gather, q
  <2>8. BestOf(h[i], U(i))
    BY <2>5, <2>6, <2>7 DEF ItemsFound
  <2> QED
    BY <2>2, <2>8
<1>6. n \in P
  <2>1. P \in SUBSET (0..n)
    OBVIOUS
  <2> HIDE DEF P
  <2>2. P = 0..n
    BY <1>1, <1>4, <1>5, <2>1, NumberInduction
  <2> QED
    BY <1>1, <2>2
<1>7. Seen(arrived, n) = Range(arrived)
  BY <1>1 DEF Seen, Range
<1> QED
  BY <1>2, <1>6, <1>7

\* The items that a scoring makes.
Scored(b) == {Item(c, b[c], b[c]) : c \in DOMAIN b}

\* The items of the best scores are the best of the items.
LEMMA ScoredBest ==
    ASSUME NEW F \in SUBSET ItemRecs, \A a \in F : a.raw = a.score, NEW b, BestOf(b, F)
    PROVE  Scored(b) = {a \in F : \A o \in F : o.chunk = a.chunk => o.score <= a.score}
<1> DEFINE best == {a \in F : \A o \in F : o.chunk = a.chunk => o.score <= a.score}
<1>1. /\ DOMAIN b = {a.chunk : a \in F} /\ (\A a \in F : a.score <= b[a.chunk])
      /\ (\A c \in DOMAIN b : \E a \in F : a.chunk = c /\ a.score = b[c])
  BY DEF BestOf
<1>2. \A a \in F : a = Item(a.chunk, a.score, a.score) /\ a.score \in Int
  BY DEF ItemRecs, Item
<1>3. ASSUME NEW c \in DOMAIN b PROVE Item(c, b[c], b[c]) \in best
  <2>1. PICK a \in F : a.chunk = c /\ a.score = b[c]
    BY <1>1
  <2>2. a = Item(c, b[c], b[c])
    BY <1>2, <2>1
  <2>3. a \in best
    BY <1>1, <2>1
  <2> QED
    BY <2>2, <2>3
<1>4. ASSUME NEW a \in best PROVE a \in Scored(b)
  <2>1. a \in F /\ a.chunk \in DOMAIN b /\ a.score <= b[a.chunk]
    BY <1>1
  <2>2. PICK o \in F : o.chunk = a.chunk /\ o.score = b[a.chunk]
    BY <1>1, <2>1
  <2>3. o.score <= a.score /\ o.score \in Int /\ a.score \in Int
    BY <1>2, <2>1, <2>2
  <2>4. a.score = b[a.chunk]
    BY <2>1, <2>2, <2>3
  <2> QED
    BY <1>2, <2>1, <2>4 DEF Scored
<1> HIDE DEF best
<1>5. Scored(b) = best
  BY <1>3, <1>4 DEF Scored
<1> QED
  BY <1>5 DEF best

\* Scores of chunks are items of which no chunk has two.
LEMMA ScoredItems ==
    ASSUME RankingConstants, NEW D \in SUBSET Chunks, NEW b \in [D -> Int]
    PROVE  /\ Scored(b) \in SUBSET ItemRecs /\ IsFiniteSet(Scored(b)) /\ Distinct(Scored(b))
           /\ DOMAIN b = D
<1>1. DOMAIN b = D /\ \A c \in D : Item(c, b[c], b[c]) \in ItemRecs /\ Item(c, b[c], b[c]).chunk = c
  BY DEF Item, ItemRecs
<1>2. Scored(b) \in SUBSET ItemRecs
  BY <1>1 DEF Scored
<1>3. Distinct(Scored(b))
  BY <1>1 DEF Scored, Distinct
<1>4. IsFiniteSet(Scored(b))
  <2> DEFINE f == [c \in D |-> Item(c, b[c], b[c])]
  <2>1. f \in Surjection(D, Scored(b))
    BY <1>1 DEF Surjection, Scored
  <2>2. IsFiniteSet(D)
    BY FS_Subset DEF RankingConstants
  <2> HIDE DEF f
  <2> QED
    BY <2>1, <2>2, FS_Surjection
<1> QED
  BY <1>1, <1>2, <1>3, <1>4

\* No search answers with more items than this.
MaxRank == 900

\* What a search may have answered.
FoundList(s) ==
    /\ s \in Seq(ItemRecs) /\ Len(s) <= MaxRank
    /\ \A i, j \in DOMAIN s : s[i].chunk = s[j].chunk => i = j
    /\ \A i \in DOMAIN s : s[i].raw = s[i].score

\* All answers are such.
AnswersSound == \A q \in Searches : FoundList(answers[q].items)

\* A search that found a chunk has it in one place.
LEMMA FoundPlaces ==
    ASSUME NEW s, FoundList(s)
    PROVE  /\ s \in Seq(ItemRecs) /\ DOMAIN s = 1..Len(s) /\ Len(s) \in Nat /\ Len(s) <= MaxRank
           /\ \A i \in DOMAIN s : s[i] \in ItemRecs /\ s[i].chunk \in Chunks /\ i \in Nat /\ 1 <= i /\ i <= MaxRank
<1>1. s \in Seq(ItemRecs) /\ DOMAIN s = 1..Len(s) /\ Len(s) \in Nat /\ Len(s) <= MaxRank
  BY DEF FoundList
<1>2. \A i \in DOMAIN s : s[i] \in ItemRecs
  BY <1>1
<1>3. PICK m : m = Len(s)
  OBVIOUS
<1>4. m \in Nat /\ m <= MaxRank /\ DOMAIN s = 1..m
  BY <1>1, <1>3, Zenon
<1>5. \A i \in 1..m : i \in Nat /\ 1 <= i /\ i <= MaxRank
  <2>1. MaxRank \in Nat
    BY DEF MaxRank
  <2> QED
    BY <1>4, <2>1
<1> QED
  BY <1>1, <1>2, <1>4, <1>5 DEF ItemRecs

\* Merging several answers, whatever their order.
LEMMA MergedIs ==
    ASSUME RankingConstants, AnswersSound, arrived \in Seq(Searches), Range(arrived) = Searches
    PROVE  /\ Ranked(Merged)
           /\ LET found == UNION {Range(answers[q].items) : q \in Searches}
                  best == {a \in found : \A b \in found : b.chunk = a.chunk => b.score <= a.score}
              IN Merged = Cut(Sorted(best), CandidateTopK)
<1> DEFINE found == UNION {Range(answers[q].items) : q \in Searches}
           best == {a \in found : \A b \in found : b.chunk = a.chunk => b.score <= a.score}
           b == MergedScores
<1>1. \A q \in Searches : answers[q].items \in Seq(ItemRecs)
  BY DEF AnswersSound, FoundList
<1>2. BestOf(b, found)
  BY <1>1, MergedBest DEF ItemsFound
<1>3. found \in SUBSET ItemRecs /\ \A a \in found : a.raw = a.score
  <2> SUFFICES ASSUME NEW q \in Searches, NEW a \in Range(answers[q].items)
               PROVE  a \in ItemRecs /\ a.raw = a.score
    OBVIOUS
  <2> DEFINE s == answers[q].items
  <2>1. FoundList(s)
    BY DEF AnswersSound
  <2>2. PICK i \in DOMAIN s : a = s[i]
    BY DEF Range
  <2> HIDE DEF s
  <2> QED
    BY <2>1, <2>2, FoundPlaces DEF FoundList
<1> HIDE DEF found, b
<1>4. Scored(b) = best
  BY <1>2, <1>3, ScoredBest
<1>5. PICK D \in SUBSET Chunks : b \in [D -> Int]
  <2>1. b \in Scorings
    BY <1>2 DEF BestOf
  <2> QED
    BY <2>1 DEF Scorings
<1>6. Scored(b) \in SUBSET ItemRecs /\ IsFiniteSet(Scored(b)) /\ Distinct(Scored(b))
  BY <1>5, ScoredItems
<1>7. Ranked(Sorted(Scored(b)))
  BY <1>6, SortedIs
<1>8. CandidateTopK \in Nat
  BY DEF RankingConstants
<1>9. Ranked(Cut(Sorted(Scored(b)), CandidateTopK))
  BY <1>7, <1>8, RankedCut
<1>10. Merged = Cut(Sorted(Scored(b)), CandidateTopK)
  BY Zenon DEF Merged, Scored, b
<1> HIDE DEF best
<1>11. Merged = Cut(Sorted(best), CandidateTopK)
  BY <1>4, <1>10
<1> QED
  BY <1>9, <1>10, <1>11 DEF best, found
-----------------------------------------------------------------------------
(* Fusing *)

\* Numbers that fall from each place to the next do so between any two.
LEMMA FallsThroughout ==
    ASSUME NEW n \in Nat, NEW w \in [1..n -> Int], \A k \in 1..n - 1 : w[k] > w[k + 1],
           NEW r \in 1..n, NEW s \in 1..n, r < s
    PROVE  w[r] > w[s]
<1> DEFINE P == {d \in 0..n : \A t \in 1..n : r < t /\ t <= r + 1 + d => w[r] > w[t]}
<1>1. 0 \in P
  <2> SUFFICES ASSUME NEW t \in 1..n, r < t, t <= r + 1 + 0
               PROVE  w[r] > w[t]
    OBVIOUS
  <2>1. t = r + 1 /\ r \in 1..n - 1
    OBVIOUS
  <2> QED
    BY <2>1
<1>2. ASSUME NEW d \in 1..n, d - 1 \in P PROVE d \in P
  <2> SUFFICES ASSUME NEW t \in 1..n, r < t, t <= r + 1 + d
               PROVE  w[r] > w[t]
    OBVIOUS
  <2>1. CASE t <= r + 1 + (d - 1)
    BY <1>2, <2>1
  <2>2. CASE ~(t <= r + 1 + (d - 1))
    <3> DEFINE u == t - 1
    <3>1. u \in 1..n /\ r < u /\ u <= r + 1 + (d - 1) /\ u + 1 = t /\ u \in 1..n - 1
      BY <2>2
    <3> HIDE DEF u
    <3>2. w[r] > w[u]
      BY <1>2, <3>1
    <3>3. w[u] > w[t]
      BY <3>1
    <3> QED
      BY <3>1, <3>2, <3>3
  <2> QED
    BY <2>1, <2>2
<1>3. n \in P
  <2>1. P \in SUBSET (0..n)
    OBVIOUS
  <2> HIDE DEF P
  <2>2. P = 0..n
    BY <1>1, <1>2, <2>1, NumberInduction
  <2> QED
    BY <2>2
<1>4. s <= r + 1 + n
  OBVIOUS
<1> QED
  BY <1>3, <1>4

\* What a rank is worth.
Worth(r) == 1000000 \div (60 + r)

\* Worth falls with the rank, up to the longest list there is.
LEMMA WorthFalls ==
    /\ MaxRank \in Nat
    /\ \A r \in 1..MaxRank : Worth(r) \in Nat /\ Worth(r) \in Int /\ Worth(r) > 0 /\ Worth(r) > Worth(r + 1)
BY SMT DEF Worth, MaxRank

\* A lower rank is worth less.
LEMMA LowerWorth ==
    ASSUME NEW r \in 1..MaxRank, NEW s \in 1..MaxRank, r < s
    PROVE  Worth(r) > Worth(s)
<1> DEFINE n == MaxRank
           w == [k \in 1..n |-> Worth(k)]
<1>1. n \in Nat /\ \A k \in 1..n : Worth(k) \in Int /\ Worth(k) > Worth(k + 1)
  BY WorthFalls
<1> HIDE DEF n
<1>2. w \in [1..n -> Int] /\ \A k \in 1..n - 1 : w[k] > w[k + 1]
  <2>1. \A k \in 1..n - 1 : k \in 1..n /\ k + 1 \in 1..n
    BY <1>1
  <2> QED
    BY <1>1, <2>1
<1>3. r \in 1..n /\ s \in 1..n /\ w[r] = Worth(r) /\ w[s] = Worth(s)
  BY DEF n
<1> HIDE DEF w
<1>4. w[r] > w[s]
  BY <1>1, <1>2, <1>3, FallsThroughout
<1> QED
  BY <1>3, <1>4

\* The rank of a chunk that a search found is its place.
LEMMA RankIs ==
    ASSUME AnswersSound, NEW q \in Searches, NEW c \in ChunksOf(answers[q].items)
    PROVE  /\ RankIn(q, c) \in DOMAIN answers[q].items /\ RankIn(q, c) \in 1..MaxRank
           /\ answers[q].items[RankIn(q, c)].chunk = c /\ c \in Chunks
           /\ Share(q, c) = Worth(RankIn(q, c))
<1> DEFINE s == answers[q].items
           k == RankIn(q, c)
<1>1. FoundList(s)
  BY DEF AnswersSound
<1>2. \E i \in DOMAIN s : s[i].chunk = c
  BY DEF ChunksOf
<1>3. k \in DOMAIN s /\ s[k].chunk = c
  BY <1>2, Zenon DEF RankIn
<1>4. Share(q, c) = Worth(k)
  BY SMT DEF Share, Worth
<1> HIDE DEF s, k
<1>5. k \in Nat /\ 1 <= k /\ k <= MaxRank /\ s[k].chunk \in Chunks
  BY <1>1, <1>3, FoundPlaces
<1>6. k \in 1..MaxRank
  BY <1>5, WorthFalls
<1> QED
  BY <1>3, <1>4, <1>5, <1>6 DEF s, k

\* The share of a chunk.
LEMMA ShareTyped ==
    ASSUME AnswersSound, NEW q \in Searches, NEW c
    PROVE  Share(q, c) \in Nat
<1>1. CASE c \in ChunksOf(answers[q].items)
  BY <1>1, RankIs, WorthFalls
<1>2. CASE c \notin ChunksOf(answers[q].items)
  BY <1>2, SMT DEF Share
<1> QED
  BY <1>1, <1>2

\* The shares of a chunk that outranks another are together larger.
LEMMA FusedMore ==
    ASSUME AnswersSound, NEW c, NEW d, Outranks(c, d), NEW p \in Searches, d \in ChunksOf(answers[p].items)
    PROVE  FusedScore(c) > FusedScore(d)
<1>1. ASSUME NEW q \in Searches
      PROVE  /\ Share(q, c) \in Nat /\ Share(q, d) \in Nat /\ Share(q, c) >= Share(q, d)
             /\ d \in ChunksOf(answers[q].items) => Share(q, c) > Share(q, d)
  <2>1. Share(q, c) \in Nat /\ Share(q, d) \in Nat
    BY ShareTyped
  <2>2. CASE d \in ChunksOf(answers[q].items)
    <3>1. c \in ChunksOf(answers[q].items) /\ RankIn(q, c) < RankIn(q, d)
      BY <2>2 DEF Outranks
    <3>2. RankIn(q, c) \in 1..MaxRank /\ RankIn(q, d) \in 1..MaxRank
          /\ Share(q, c) = Worth(RankIn(q, c)) /\ Share(q, d) = Worth(RankIn(q, d))
      BY <2>2, <3>1, RankIs
    <3>3. Worth(RankIn(q, c)) > Worth(RankIn(q, d))
      BY <3>1, <3>2, LowerWorth
    <3>4. Share(q, c) > Share(q, d)
      BY <3>2, <3>3
    <3> QED
      BY <2>1, <3>4
  <2>3. CASE d \notin ChunksOf(answers[q].items)
    <3>1. Share(q, d) = 0
      BY <2>3, SMT DEF Share
    <3> QED
      BY <2>1, <2>3, <3>1
  <2> QED
    BY <2>2, <2>3
<1>2. Dense \in Searches /\ Sparse \in Searches /\ (p = Dense \/ p = Sparse)
  BY DEF Dense, Sparse, Searches
<1> QED
  BY <1>1, <1>2 DEF FusedScore

\* rrfFusion ranks what either search found.
LEMMA FusedIs ==
    ASSUME RankingConstants, AnswersSound
    PROVE  /\ Ranked(Fused)
           /\ \A i \in DOMAIN Fused : \A c \in Chunks \ {Fused[i].chunk} :
                /\ \E q \in Searches : c \in ChunksOf(answers[q].items)
                /\ Outranks(c, Fused[i].chunk)
                => \E j \in 1..i - 1 : Fused[j].chunk = c
<1> DEFINE D == ChunksOf(answers[Dense].items) \cup ChunksOf(answers[Sparse].items)
           b == [c \in D |-> FusedScore(c)]
           S == Sorted(Scored(b))
<1>1. Dense \in Searches /\ Sparse \in Searches /\ \A q \in Searches : q = Dense \/ q = Sparse
  BY DEF Dense, Sparse, Searches
<1>2. \A c : FusedScore(c) \in Int
  BY <1>1, ShareTyped DEF FusedScore
<1>3. D \in SUBSET Chunks
  BY <1>1, RankIs
<1> HIDE DEF D
<1>4. b \in [D -> Int] /\ \A c \in D : b[c] = FusedScore(c)
  BY <1>2
<1>5. Fused = Cut(S, CandidateTopK)
  <2>1. Scored(b) = {Item(c, FusedScore(c), FusedScore(c)) : c \in D}
    BY <1>4 DEF Scored
  <2> QED
    BY <2>1, Zenon DEF Fused, D
<1> HIDE DEF b
<1>6. Scored(b) \in SUBSET ItemRecs /\ IsFiniteSet(Scored(b)) /\ Distinct(Scored(b)) /\ DOMAIN b = D
  BY <1>3, <1>4, ScoredItems
<1>7. Ranked(S) /\ Range(S) = Scored(b)
  BY <1>6, SortedIs
<1> HIDE DEF S
<1>8. CandidateTopK \in Nat
  BY DEF RankingConstants
<1>9. /\ S \in Seq(ItemRecs) /\ DOMAIN S = 1..Len(S) /\ Len(S) \in Nat
      /\ (\A i, j \in DOMAIN S : S[i].chunk = S[j].chunk => i = j)
      /\ (\A i, j \in DOMAIN S : i < j => Precedes(S[i], S[j]))
      /\ (\A i \in DOMAIN S : S[i] \in ItemRecs)
  BY <1>7, RankedPlaces
<1> DEFINE f == Cut(S, CandidateTopK)
<1>10. f \in Seq(ItemRecs) /\ DOMAIN f \subseteq DOMAIN S /\ \A i \in DOMAIN f : f[i] = S[i]
  BY <1>8, <1>9, CutIs
<1>11. Ranked(f)
  BY <1>7, <1>8, RankedCut
<1> HIDE DEF f
<1>12. \A i \in DOMAIN S : S[i].chunk \in D /\ S[i].score = FusedScore(S[i].chunk)
  <2> SUFFICES ASSUME NEW i \in DOMAIN S PROVE S[i].chunk \in D /\ S[i].score = FusedScore(S[i].chunk)
    OBVIOUS
  <2>1. S[i] \in Scored(b)
    BY <1>7 DEF Range
  <2>2. PICK c \in D : S[i] = Item(c, b[c], b[c])
    BY <1>6, <2>1 DEF Scored
  <2> QED
    BY <1>4, <2>2 DEF Item
<1>13. ASSUME NEW i \in DOMAIN f, NEW c \in Chunks \ {f[i].chunk},
              NEW q \in Searches, c \in ChunksOf(answers[q].items), Outranks(c, f[i].chunk)
       PROVE  \E j \in 1..i - 1 : f[j].chunk = c
  <2> DEFINE d == f[i].chunk
  <2>1. i \in DOMAIN S /\ d = S[i].chunk /\ d \in D
    BY <1>10, <1>12
  <2>2. c \in D
    BY <1>1, <1>13 DEF D
  <2>3. PICK k \in DOMAIN S : S[k].chunk = c
    <3>1. Item(c, b[c], b[c]) \in Range(S)
      BY <1>6, <1>7, <2>2 DEF Scored
    <3>2. PICK k \in DOMAIN S : S[k] = Item(c, b[c], b[c])
      BY <3>1 DEF Range
    <3> QED
      BY <3>2 DEF Item
  <2>4. FusedScore(c) > FusedScore(d)
    <3>1. \E p \in Searches : d \in ChunksOf(answers[p].items)
      BY <1>1, <2>1 DEF D
    <3> QED
      BY <1>13, <3>1, FusedMore
  <2>5. S[k].score > S[i].score /\ S[k] \in ItemRecs /\ S[i] \in ItemRecs
    BY <1>9, <1>12, <2>1, <2>3, <2>4
  <2>6. k < i
    <3>1. k # i
      BY <1>13, <2>1, <2>3
    <3>2. ASSUME i < k PROVE FALSE
      <4>1. Precedes(S[i], S[k])
        BY <1>9, <2>1, <2>3, <3>2
      <4>2. S[i].score >= S[k].score
        BY <2>5, <4>1, PrecedesOrders
      <4>3. S[i].score \in Int /\ S[k].score \in Int
        BY <2>5 DEF ItemRecs
      <4> QED
        BY <2>5, <4>2, <4>3
    <3> QED
      BY <1>9, <2>1, <2>3, <3>1, <3>2
  <2>7. DOMAIN f = 1..Len(f) /\ Len(f) \in Nat /\ k \in Nat /\ k >= 1
    BY <1>9, <1>10, <2>3
  <2>8. k \in 1..i - 1 /\ k \in DOMAIN f
    BY <2>6, <2>7
  <2>9. f[k].chunk = c
    BY <1>10, <2>3, <2>8
  <2> QED
    BY <2>8, <2>9
<1>14. Fused = f
  BY <1>5 DEF f
<1> QED
  BY <1>11, <1>13, <1>14

\* A dense answer alone.
LEMMA DenseIs ==
    ASSUME RankingConstants, AnswersSound
    PROVE  Ranked(Sorted(Range(answers[Dense].items)))
<1> DEFINE s == answers[Dense].items
<1>1. FoundList(s)
  BY DEF AnswersSound, Dense, Searches
<1> HIDE DEF s
<1>2. /\ s \in Seq(ItemRecs) /\ DOMAIN s = 1..Len(s) /\ Len(s) \in Nat
      /\ (\A i \in DOMAIN s : s[i] \in ItemRecs)
      /\ (\A i, j \in DOMAIN s : s[i].chunk = s[j].chunk => i = j)
  BY <1>1, FoundPlaces DEF FoundList
<1>3. Range(s) \in SUBSET ItemRecs /\ Distinct(Range(s))
  BY <1>2 DEF Range, Distinct
<1>4. IsFiniteSet(Range(s))
  <2>1. s \in Surjection(1..Len(s), Range(s))
    <3>1. s \in [1..Len(s) -> Range(s)] /\ Range(s) = {s[i] : i \in 1..Len(s)}
      BY <1>2 DEF Range
    <3> QED
      BY <3>1 DEF Surjection
  <2>2. IsFiniteSet(1..Len(s))
    BY <1>2, FS_Interval
  <2> QED
    BY <2>1, <2>2, FS_Surjection
<1>5. Ranked(Sorted(Range(s)))
  BY <1>3, <1>4, SortedIs
<1> QED
  BY <1>5 DEF s

\* The list with the scores of a reranker.
LEMMA RerankedIs ==
    ASSUME RankingConstants, NEW s, Ranked(s), NEW score \in [ChunksOf(s) -> Levels]
    PROVE  Ranked(Sorted({Item(s[i].chunk, score[s[i].chunk], s[i].raw) : i \in DOMAIN s}))
<1> DEFINE S == {Item(s[i].chunk, score[s[i].chunk], s[i].raw) : i \in DOMAIN s}
<1>1. /\ s \in Seq(ItemRecs) /\ DOMAIN s = 1..Len(s) /\ Len(s) \in Nat
      /\ (\A i, j \in DOMAIN s : s[i].chunk = s[j].chunk => i = j)
      /\ (\A i \in DOMAIN s : s[i] \in ItemRecs)
  BY RankedPlaces
<1>2. \A i \in DOMAIN s : s[i].chunk \in ChunksOf(s) /\ s[i].chunk \in Chunks /\ s[i].raw \in Int
  BY <1>1 DEF ItemRecs, ChunksOf
<1>3. \A c \in ChunksOf(s) : score[c] \in Int
  BY DEF RankingConstants
<1> DEFINE f == [i \in 1..Len(s) |-> Item(s[i].chunk, score[s[i].chunk], s[i].raw)]
<1>4. \A i \in 1..Len(s) : f[i] \in ItemRecs /\ f[i].chunk = s[i].chunk
  BY <1>1, <1>2, <1>3 DEF Item, ItemRecs
<1>5. S = {f[i] : i \in 1..Len(s)} /\ f \in [1..Len(s) -> S]
  BY <1>1
<1> HIDE DEF f, S
<1>6. S \in SUBSET ItemRecs /\ Distinct(S)
  <2>1. S \in SUBSET ItemRecs
    BY <1>4, <1>5
  <2>2. ASSUME NEW a \in S, NEW o \in S, a.chunk = o.chunk PROVE a = o
    <3>1. PICK i \in 1..Len(s) : a = f[i]
      BY <1>5
    <3>2. PICK j \in 1..Len(s) : o = f[j]
      BY <1>5
    <3>3. s[i].chunk = s[j].chunk
      BY <1>4, <2>2, <3>1, <3>2
    <3>4. i = j
      BY <1>1, <3>3
    <3> QED
      BY <3>1, <3>2, <3>4
  <2> QED
    BY <2>1, <2>2 DEF Distinct
<1>7. IsFiniteSet(S)
  <2>1. f \in Surjection(1..Len(s), S)
    BY <1>5 DEF Surjection
  <2>2. IsFiniteSet(1..Len(s))
    BY <1>1, FS_Interval
  <2> QED
    BY <2>1, <2>2, FS_Surjection
<1>8. Ranked(Sorted(S))
  BY <1>6, <1>7, SortedIs
<1> QED
  BY <1>8, Zenon DEF S

-----------------------------------------------------------------------------
(* What a search finds *)

\* No search is asked for more than MaxRank.
LEMMA LimitIs == ASSUME RankingConstants PROVE SearchLimit \in Nat /\ SearchLimit <= MaxRank
<1> DEFINE n == CandidateTopK
           m == Min({2 * n, 64})
<1>1. n \in Nat /\ n <= 900
  BY SMT DEF RankingConstants
<1> HIDE DEF n
<1>2. m = IF 2 * n <= 64 THEN 2 * n ELSE 64
  BY <1>1, SmallerOfTwo
<1> HIDE DEF m
<1>3. m \in Nat /\ m <= 64
  BY <1>1, <1>2
<1>4. Max({n, m}) = IF n >= m THEN n ELSE m
  BY <1>1, <1>3, LargerOfTwo
<1>5. SearchLimit = Max({n, m}) \/ SearchLimit = n
  BY DEF SearchLimit, n, m
<1> QED
  BY <1>1, <1>3, <1>4, <1>5, SMT DEF MaxRank

\* What a search finds are items, no chunk twice.
LEMMA FindingsAre ==
    ASSUME RankingConstants, NEW found \in Findings
    PROVE  /\ found \in Seq(ItemRecs)
           /\ \A i, j \in DOMAIN found : found[i].chunk = found[j].chunk => i = j
           /\ \A i \in DOMAIN found : found[i].raw = found[i].score
<1>1. PICK order \in SetToAllKPermutations(Chunks) : \E score \in [Range(order) -> Levels] :
          found = [i \in DOMAIN order |-> Item(order[i], score[order[i]], score[order[i]])]
  BY DEF Findings
<1>2. PICK score \in [Range(order) -> Levels] :
          found = [i \in DOMAIN order |-> Item(order[i], score[order[i]], score[order[i]])]
  BY <1>1
<1>3. PICK s \in SUBSET Chunks : order \in SetToSeqs(s)
  BY DEF SetToAllKPermutations
<1> DEFINE n == Cardinality(s)
<1>4. n \in Nat
  BY FS_Subset, FS_CardinalityType DEF RankingConstants
<1>5. order \in [1..n -> s] /\ \A i, j \in 1..n : i # j => order[i] # order[j]
  BY <1>3 DEF SetToSeqs
<1> HIDE DEF n
<1>6. \A i \in 1..n : order[i] \in Chunks /\ order[i] \in Range(order)
  <2>1. \A i \in 1..n : order[i] \in s
    BY <1>5
  <2>2. DOMAIN order = 1..n
    BY <1>5
  <2> SUFFICES ASSUME NEW i \in 1..n PROVE order[i] \in Chunks /\ order[i] \in Range(order)
    OBVIOUS
  <2>3. order[i] \in s /\ i \in DOMAIN order
    BY <2>1, <2>2
  <2>4. order[i] \in Range(order)
    BY <2>3 DEF Range
  <2> QED
    BY <2>3, <2>4
<1>7. \A i \in 1..n : score[order[i]] \in Int
  <2>1. \A c \in Range(order) : score[c] \in Int
    BY DEF RankingConstants
  <2> QED
    BY <1>6, <2>1
<1>8. DOMAIN found = 1..n /\ \A i \in 1..n : found[i] = Item(order[i], score[order[i]], score[order[i]])
  BY <1>2, <1>5
<1>9. \A i \in 1..n : found[i] \in ItemRecs /\ found[i].chunk = order[i] /\ found[i].raw = found[i].score
  BY <1>6, <1>7, <1>8 DEF Item, ItemRecs
<1>10. found \in [1..n -> ItemRecs]
  BY <1>2, <1>5, <1>8, <1>9
<1>11. found \in Seq(ItemRecs)
  BY <1>4, <1>10
<1> QED
  BY <1>5, <1>8, <1>9, <1>11
-----------------------------------------------------------------------------
(* The invariant *)

\* What is known of a search.
Replies == [status : {"pending", "found", "failed"}, items : Seq(ItemRecs)]

\* The answers that came through the channel are those of the queries that found.
Arrivals ==
    /\ arrived \in Seq(Searches) /\ IsInjective(arrived)
    /\ phase = "search" /\ ~hybrid => Range(arrived) = {q \in Searches : answers[q].status = "found"}

\* The steps of the pipeline.
Phases == {"search", "failed", "merged", "ranked", "selected", "gated", "cut", "tableCut"}

\* Types, sound answers, ranked lists, and the property.
RankingInv ==
    /\ phase \in Phases /\ hybrid \in BOOLEAN /\ answers \in [Searches -> Replies]
    /\ AnswersSound /\ Arrivals
    /\ Ranked(before) /\ Ranked(list)
    /\ RankingSound

\* A search may find nothing.
LEMMA NothingFound == FoundList(<<>>) /\ <<>> \in Seq(ItemRecs)
BY SMT DEF FoundList, MaxRank

\* The invariant holds at first.
LEMMA InvStarts ==
    ASSUME RankingConstants, RankingInit
    PROVE  RankingInv
<1>1. phase = "search" /\ hybrid \in BOOLEAN /\ arrived = <<>> /\ before = <<>> /\ list = <<>>
      /\ answers = [q \in Searches |-> Reply("pending", <<>>)]
  BY DEF RankingInit
<1>2. \A q \in Searches : answers[q].status = "pending" /\ answers[q].items = <<>>
  BY <1>1 DEF Reply
<1>3. answers \in [Searches -> Replies]
  BY <1>1, NothingFound DEF Reply, Replies
<1>4. AnswersSound
  BY <1>2, NothingFound DEF AnswersSound
<1>5. Arrivals
  <2>1. <<>> \in Seq(Searches) /\ IsInjective(<<>>) /\ Range(<<>>) = {}
    BY DEF IsInjective, Range
  <2> QED
    BY <1>1, <1>2, <2>1 DEF Arrivals
<1>6. RankingSound
  BY <1>1 DEF RankingSound, MergedAlike, FusedInOrder, ChosenWell, ContextFits
<1> QED
  BY <1>1, <1>3, <1>4, <1>5, <1>6, RankedNone DEF RankingInv, Phases

\* An answer of a search keeps it.
LEMMA AnsweredKeeps ==
    ASSUME RankingConstants, RankingInv, NEW q \in Searches, NEW found \in Findings, Answered(q, found)
    PROVE  RankingInv'
<1>1. /\ phase = "search" /\ answers[q].status = "pending" /\ Len(found) <= SearchLimit
      /\ answers' = [answers EXCEPT ![q] = Reply("found", found)]
      /\ arrived' = IF hybrid THEN arrived ELSE Append(arrived, q)
      /\ phase' = phase /\ hybrid' = hybrid /\ before' = before /\ list' = list /\ context' = context
  BY DEF Answered
<1>2. /\ phase \in Phases /\ hybrid \in BOOLEAN /\ answers \in [Searches -> Replies]
      /\ AnswersSound /\ Arrivals /\ Ranked(before) /\ Ranked(list)
  BY DEF RankingInv
<1>3. FoundList(found) /\ found \in Seq(ItemRecs)
  <2>1. found \in Seq(ItemRecs) /\ Len(found) \in Nat
    BY FindingsAre
  <2>2. PICK m : m = Len(found)
    OBVIOUS
  <2>3. m \in Nat /\ m <= SearchLimit
    BY <1>1, <2>1, <2>2, Zenon
  <2>4. m <= MaxRank
    BY <2>3, LimitIs, WorthFalls
  <2>5. Len(found) <= MaxRank
    BY <2>2, <2>4, Zenon
  <2> QED
    BY <2>1, <2>5, FindingsAre DEF FoundList
<1>4. \A p \in Searches : answers'[p] = IF p = q THEN Reply("found", found) ELSE answers[p]
  BY <1>1, <1>2
<1>5. Reply("found", found) \in Replies /\ Reply("found", found).items = found /\ Reply("found", found).status = "found"
  BY <1>3 DEF Reply, Replies
<1>6. answers' \in [Searches -> Replies]
  BY <1>1, <1>2, <1>5
<1>7. AnswersSound'
  <2> SUFFICES ASSUME NEW p \in Searches PROVE FoundList(answers'[p].items)
    BY DEF AnswersSound
  <2> QED
    BY <1>2, <1>3, <1>4, <1>5 DEF AnswersSound
<1>8. Arrivals'
  <2>1. CASE hybrid
    BY <1>1, <1>2, <2>1 DEF Arrivals
  <2>2. CASE ~hybrid
    <3>1. arrived' = Append(arrived, q) /\ arrived \in Seq(Searches) /\ IsInjective(arrived)
          /\ Range(arrived) = {p \in Searches : answers[p].status = "found"}
      BY <1>1, <1>2, <2>2 DEF Arrivals
    <3> DEFINE n == Len(arrived)
    <3>2. /\ arrived' \in Seq(Searches) /\ n \in Nat /\ DOMAIN arrived = 1..n /\ DOMAIN arrived' = 1..(n + 1)
          /\ arrived'[n + 1] = q /\ (\A i \in 1..n : arrived'[i] = arrived[i])
          /\ Range(arrived') = Range(arrived) \cup {q}
      BY <3>1, Appending
    <3> HIDE DEF n
    <3>3. q \notin Range(arrived)
      BY <1>1, <3>1
    <3>4. IsInjective(arrived')
      <4> SUFFICES ASSUME NEW i \in 1..(n + 1), NEW j \in 1..(n + 1), arrived'[i] = arrived'[j] PROVE i = j
        BY <3>2 DEF IsInjective
      <4>1. \A k \in 1..(n + 1) : k \in 1..n \/ k = n + 1
        BY <3>2
      <4>2. \A k \in 1..n : arrived[k] \in Range(arrived) /\ arrived[k] # q
        BY <3>2, <3>3 DEF Range
      <4>3. \A k, m \in 1..n : arrived[k] = arrived[m] => k = m
        BY <3>1, <3>2 DEF IsInjective
      <4> QED
        BY <3>2, <4>1, <4>2, <4>3
    <3>5. Range(arrived') = {p \in Searches : answers'[p].status = "found"}
      BY <1>4, <1>5, <3>1, <3>2
    <3> QED
      BY <3>2, <3>4, <3>5 DEF Arrivals
  <2> QED
    BY <1>2, <2>1, <2>2
<1>9. RankingSound'
  BY <1>1 DEF RankingSound, MergedAlike, FusedInOrder, ChosenWell, ContextFits
<1>10. phase' \in Phases /\ hybrid' \in BOOLEAN /\ Ranked(before)' /\ Ranked(list)'
  BY <1>1, <1>2
<1> QED
  BY <1>6, <1>7, <1>8, <1>9, <1>10 DEF RankingInv

\* A failed search keeps it.
LEMMA FailedKeeps ==
    ASSUME RankingConstants, RankingInv, NEW q \in Searches, SearchFailed(q)
    PROVE  RankingInv'
<1>1. /\ phase = "search" /\ answers[q].status = "pending"
      /\ answers' = [answers EXCEPT ![q] = Reply("failed", <<>>)]
      /\ arrived' = arrived
      /\ phase' = phase /\ hybrid' = hybrid /\ before' = before /\ list' = list /\ context' = context
  BY DEF SearchFailed
<1>2. /\ phase \in Phases /\ hybrid \in BOOLEAN /\ answers \in [Searches -> Replies]
      /\ AnswersSound /\ Arrivals /\ Ranked(before) /\ Ranked(list)
  BY DEF RankingInv
<1>3. Reply("failed", <<>>) \in Replies /\ Reply("failed", <<>>).items = <<>> /\ Reply("failed", <<>>).status = "failed"
  BY NothingFound DEF Reply, Replies
<1>4. \A p \in Searches : answers'[p] = IF p = q THEN Reply("failed", <<>>) ELSE answers[p]
  BY <1>1, <1>2
<1>5. answers' \in [Searches -> Replies]
  BY <1>1, <1>2, <1>3
<1>6. AnswersSound'
  <2> SUFFICES ASSUME NEW p \in Searches PROVE FoundList(answers'[p].items)
    BY DEF AnswersSound
  <2> QED
    BY <1>2, <1>3, <1>4, NothingFound DEF AnswersSound
<1>7. Arrivals'
  <2>1. {p \in Searches : answers'[p].status = "found"} = {p \in Searches : answers[p].status = "found"}
    BY <1>1, <1>3, <1>4
  <2> QED
    BY <1>1, <1>2, <2>1 DEF Arrivals
<1>8. RankingSound'
  BY <1>1 DEF RankingSound, MergedAlike, FusedInOrder, ChosenWell, ContextFits
<1>9. phase' \in Phases /\ hybrid' \in BOOLEAN /\ Ranked(before)' /\ Ranked(list)'
  BY <1>1, <1>2
<1> QED
  BY <1>5, <1>6, <1>7, <1>8, <1>9 DEF RankingInv

\* Merging or fusing the answers keeps it.
LEMMA CollectKeeps ==
    ASSUME RankingConstants, RankingInv, Collect
    PROVE  RankingInv'
<1>1. /\ phase = "search" /\ \A q \in Searches : answers[q].status # "pending"
      /\ hybrid' = hybrid /\ answers' = answers /\ arrived' = arrived /\ before' = before /\ context' = context
  BY DEF Collect
<1>2. /\ hybrid \in BOOLEAN /\ answers \in [Searches -> Replies]
      /\ AnswersSound /\ Arrivals /\ Ranked(before)
  BY DEF RankingInv
<1>3. AnswersSound' /\ Ranked(before)' /\ hybrid' \in BOOLEAN /\ answers' \in [Searches -> Replies]
  BY <1>1, <1>2 DEF AnswersSound
<1> DEFINE lost == {q \in Searches : answers[q].status = "failed"}
<1>4. \/ phase' = "failed" /\ list' = <<>>
      \/ ~hybrid /\ lost = {} /\ phase' = "merged" /\ list' = Merged
      \/ hybrid /\ phase' = "merged" /\ answers[Sparse].items = <<>> /\ list' = Sorted(Range(answers[Dense].items))
      \/ hybrid /\ phase' = "merged" /\ answers[Sparse].items # <<>> /\ list' = Fused
  BY DEF Collect
<1>5. Arrivals'
  <2>1. phase' # "search"
    BY <1>4
  <2> QED
    BY <1>1, <1>2, <2>1 DEF Arrivals
<1>6. CASE phase' = "failed" /\ list' = <<>>
  <2>1. Ranked(list)'
    BY <1>6, RankedNone
  <2>2. RankingSound'
    BY <1>6 DEF RankingSound, MergedAlike, FusedInOrder, ChosenWell, ContextFits
  <2> QED
    BY <1>3, <1>5, <1>6, <2>1, <2>2 DEF RankingInv, Phases
<1>7. CASE ~hybrid /\ lost = {} /\ phase' = "merged" /\ list' = Merged
  <2>1. arrived \in Seq(Searches) /\ Range(arrived) = Searches
    <3>1. Range(arrived) = {q \in Searches : answers[q].status = "found"}
      BY <1>1, <1>2, <1>7 DEF Arrivals
    <3>2. \A q \in Searches : answers[q].status = "found"
      BY <1>1, <1>2, <1>7 DEF Replies
    <3> QED
      BY <1>2, <3>1, <3>2 DEF Arrivals
  <2> DEFINE found == UNION {Range(answers[q].items) : q \in Searches}
             best == {a \in found : \A b \in found : b.chunk = a.chunk => b.score <= a.score}
  <2>2. Ranked(Merged) /\ Merged = Cut(Sorted(best), CandidateTopK)
    BY <1>2, <2>1, MergedIs
  <2>3. Ranked(list)' /\ list' = Cut(Sorted(best), CandidateTopK)
    BY <1>7, <2>2
  <2>4. MergedAlike'
    BY <1>1, <2>3 DEF MergedAlike
  <2>5. RankingSound'
    BY <1>1, <1>7, <2>4 DEF RankingSound, FusedInOrder, ChosenWell, ContextFits
  <2> QED
    BY <1>3, <1>5, <1>7, <2>3, <2>5 DEF RankingInv, Phases
<1>8. CASE hybrid /\ phase' = "merged" /\ answers[Sparse].items = <<>> /\ list' = Sorted(Range(answers[Dense].items))
  <2>1. Ranked(list)'
    BY <1>2, <1>8, DenseIs
  <2>2. RankingSound'
    BY <1>1, <1>8 DEF RankingSound, MergedAlike, FusedInOrder, ChosenWell, ContextFits
  <2> QED
    BY <1>3, <1>5, <1>8, <2>1, <2>2 DEF RankingInv, Phases
<1>9. CASE hybrid /\ phase' = "merged" /\ answers[Sparse].items # <<>> /\ list' = Fused
  <2>1. /\ Ranked(Fused)
        /\ \A i \in DOMAIN Fused : \A c \in Chunks \ {Fused[i].chunk} :
             /\ \E q \in Searches : c \in ChunksOf(answers[q].items)
             /\ Outranks(c, Fused[i].chunk)
             => \E j \in 1..i - 1 : Fused[j].chunk = c
    BY <1>2, FusedIs
  <2>2. FusedInOrder'
    <3>1. \A c, d : Outranks(c, d)' <=> Outranks(c, d)
      BY <1>1 DEF Outranks, RankIn
    <3> QED
      BY <1>1, <1>9, <2>1, <3>1 DEF FusedInOrder
  <2>3. RankingSound'
    BY <1>1, <1>9, <2>2 DEF RankingSound, MergedAlike, ChosenWell, ContextFits
  <2> QED
    BY <1>3, <1>5, <1>9, <2>1, <2>3 DEF RankingInv, Phases
<1> QED
  BY <1>4, <1>6, <1>7, <1>8, <1>9

\* A reranker keeps it.
LEMMA RerankKeeps ==
    ASSUME RankingConstants, RankingInv, Rerank
    PROVE  RankingInv'
<1>1. /\ phase = "merged" /\ phase' = "ranked" /\ before' = <<>> /\ arrived' = <<>> /\ answers' = Forgotten
      /\ hybrid' = hybrid /\ context' = context
      /\ \/ list' = list
         \/ \E score \in [ChunksOf(list) -> Levels] :
               list' = Sorted({Item(list[i].chunk, score[list[i].chunk], list[i].raw) : i \in DOMAIN list})
  BY DEF Rerank
<1>2. hybrid \in BOOLEAN /\ Ranked(list)
  BY DEF RankingInv
<1>3. Ranked(list)' /\ Ranked(before)'
  <2>1. CASE list' = list
    BY <1>1, <1>2, <2>1, RankedNone
  <2>2. ASSUME NEW score \in [ChunksOf(list) -> Levels],
               list' = Sorted({Item(list[i].chunk, score[list[i].chunk], list[i].raw) : i \in DOMAIN list})
        PROVE  Ranked(list') /\ Ranked(before')
    <3>1. Ranked(Sorted({Item(list[i].chunk, score[list[i].chunk], list[i].raw) : i \in DOMAIN list}))
      BY <1>2, RerankedIs
    <3>2. Ranked(list')
      BY <2>2, <3>1, Zenon
    <3> QED
      BY <1>1, <3>2, RankedNone
  <2> QED
    BY <1>1, <2>1, <2>2
<1>4. \A q \in Searches : Forgotten[q] = Reply("found", <<>>)
  BY DEF Forgotten
<1>5. Reply("found", <<>>) \in Replies /\ Reply("found", <<>>).items = <<>>
  BY NothingFound DEF Reply, Replies
<1>6. answers' \in [Searches -> Replies]
  BY <1>1, <1>4, <1>5 DEF Forgotten
<1>7. AnswersSound'
  <2> SUFFICES ASSUME NEW q \in Searches PROVE FoundList(answers'[q].items)
    BY DEF AnswersSound
  <2>1. answers'[q].items = <<>>
    BY <1>1, <1>4, <1>5
  <2> QED
    BY <2>1, NothingFound
<1>8. Arrivals'
  <2>1. <<>> \in Seq(Searches) /\ IsInjective(<<>>)
    BY DEF IsInjective
  <2> QED
    BY <1>1, <2>1 DEF Arrivals
<1>9. RankingSound'
  BY <1>1 DEF RankingSound, MergedAlike, FusedInOrder, ChosenWell, ContextFits
<1> QED
  BY <1>1, <1>2, <1>3, <1>6, <1>7, <1>8, <1>9 DEF RankingInv, Phases

\* The choice of chunks keeps it.
LEMMA SelectKeeps ==
    ASSUME RankingConstants, RankingInv, SelectChunks
    PROVE  RankingInv'
<1>1. /\ phase = "ranked" /\ phase' = "selected" /\ before' = list
      /\ list' = TakeTopChunks(list) \/ list' = SelectWithMMR(list)
      /\ hybrid' = hybrid /\ answers' = answers /\ arrived' = arrived /\ context' = context
  BY DEF SelectChunks
<1>2. hybrid \in BOOLEAN /\ answers \in [Searches -> Replies] /\ AnswersSound /\ Arrivals /\ Ranked(list)
  BY DEF RankingInv
<1>3. ChosenFrom(list', list)
  BY <1>1, <1>2, TakeTop, SelectMMR
<1>4. Ranked(list') /\ Ranked(before')
  BY <1>1, <1>2, <1>3 DEF ChosenFrom
<1>5. AnswersSound' /\ Arrivals'
  BY <1>1, <1>2 DEF AnswersSound, Arrivals
<1>6. ChosenWell'
  <2>1. \A c : TakenFrom(list, c)' = TakenFrom(list', c)
    BY DEF TakenFrom
  <2> QED
    BY <1>1, <1>3 DEF ChosenWell, ChosenFrom, TakenFrom
<1>7. RankingSound'
  BY <1>1, <1>6 DEF RankingSound, MergedAlike, FusedInOrder, ContextFits
<1> QED
  BY <1>1, <1>2, <1>4, <1>5, <1>7 DEF RankingInv, Phases

\* The evidence gate keeps it.
LEMMA GateKeeps ==
    ASSUME RankingConstants, RankingInv, NEW kind, NEW direct, Gate(kind, direct)
    PROVE  RankingInv'
<1>1. /\ phase = "selected" /\ phase' = "gated" /\ before' = list
      /\ list' = IF list = <<>> THEN list ELSE Gated(list, kind, direct)
      /\ hybrid' = hybrid /\ answers' = answers /\ arrived' = arrived /\ context' = context
  BY DEF Gate
<1>2. hybrid \in BOOLEAN /\ answers \in [Searches -> Replies] /\ AnswersSound /\ Arrivals /\ Ranked(list)
  BY DEF RankingInv
<1>3. Gated(list, kind, direct) = list \/ \E chunks : Gated(list, kind, direct) = ItemsOf(list, chunks)
  BY Zenon DEF Gated
<1>4. Ranked(Gated(list, kind, direct))
  <2>1. \A chunks : Ranked(ItemsOf(list, chunks))
    BY <1>2, ItemsOfRanked
  <2> QED
    BY <1>2, <1>3, <2>1
<1>5. Ranked(list') /\ Ranked(before')
  BY <1>1, <1>2, <1>4
<1>6. AnswersSound' /\ Arrivals'
  BY <1>1, <1>2 DEF AnswersSound, Arrivals
<1>7. RankingSound'
  BY <1>1 DEF RankingSound, MergedAlike, FusedInOrder, ChosenWell, ContextFits
<1> QED
  BY <1>1, <1>2, <1>5, <1>6, <1>7 DEF RankingInv, Phases

\* Texts have lengths.
LEMMA LengthsTyped ==
    ASSUME RankingConstants, NEW lengths \in Lengths
    PROVE  lengths \in Seq(Nat \ {0})
<1>1. PICK n \in 0..FinalTopK : lengths \in [1..n -> TextLengths]
  BY DEF Lengths
<1>2. n \in Nat /\ TextLengths \subseteq Nat \ {0}
  BY DEF RankingConstants
<1>3. lengths \in [1..n -> Nat \ {0}]
  BY <1>1, <1>2
<1> QED
  BY <1>2, <1>3

\* Trimming a context keeps it.
LEMMA TrimKeeps ==
    ASSUME RankingConstants, RankingInv, NEW lengths \in Lengths, NEW budget \in Budgets, NEW table \in BOOLEAN,
           Trim(lengths, budget, table)
    PROVE  RankingInv'
<1>0. PICK limit \in ChunkLimits :
         context' = [budget |-> budget, full |-> lengths,
                     cut |-> IF table THEN TrimmedTable(lengths, budget)
                             ELSE Trimmed(lengths, budget, limit)]
  BY DEF Trim
<1> DEFINE c == [budget |-> budget, full |-> lengths,
                 cut |-> IF table THEN TrimmedTable(lengths, budget) ELSE Trimmed(lengths, budget, limit)]
<1>1. /\ phase' = (IF table THEN "tableCut" ELSE "cut") /\ before' = <<>> /\ list' = <<>>
      /\ hybrid' = hybrid /\ answers' = answers /\ arrived' = arrived
      /\ context' = c
  BY <1>0 DEF Trim
<1>2. hybrid \in BOOLEAN /\ answers \in [Searches -> Replies] /\ AnswersSound /\ Arrivals
  BY DEF RankingInv
<1>3. lengths \in Seq(Nat \ {0}) /\ budget \in Nat /\ budget >= 4
  BY LengthsTyped DEF RankingConstants
<1>4. c.budget = budget /\ c.cut = IF table THEN TrimmedTable(lengths, budget) ELSE Trimmed(lengths, budget, limit)
  OBVIOUS
<1> HIDE DEF c
<1>5. ContextFits'
  <2>1. CASE table
    <3>1. phase' = "tableCut" /\ context'.budget = budget /\ context'.cut = TrimmedTable(lengths, budget)
      BY <1>1, <1>4, <2>1
    <3>2. /\ Len(TrimmedTable(lengths, budget)) > 1 => SumFunction(TrimmedTable(lengths, budget)) <= budget
          /\ \A i \in DOMAIN TrimmedTable(lengths, budget) : TrimmedTable(lengths, budget)[i] > 0
      BY <1>3, TableFits
    <3> QED
      BY <3>1, <3>2, Zenon DEF ContextFits
  <2>2. CASE ~table
    <3>1. phase' = "cut" /\ context'.budget = budget /\ context'.cut = Trimmed(lengths, budget, limit)
      BY <1>1, <1>4, <2>2
    <3>2. /\ SumFunction(Trimmed(lengths, budget, limit)) <= budget
          /\ \A i \in DOMAIN Trimmed(lengths, budget, limit) : Trimmed(lengths, budget, limit)[i] > 0
      BY <1>3, TrimmedFits
    <3> QED
      BY <3>1, <3>2, Zenon DEF ContextFits
  <2> QED
    BY <2>1, <2>2
<1>6. phase' \in {"cut", "tableCut"}
  BY <1>1
<1>7. AnswersSound' /\ Arrivals' /\ Ranked(list') /\ Ranked(before')
  BY <1>1, <1>2, <1>6, RankedNone DEF AnswersSound, Arrivals
<1>8. RankingSound'
  BY <1>5, <1>6 DEF RankingSound, MergedAlike, FusedInOrder, ChosenWell
<1> QED
  BY <1>1, <1>2, <1>6, <1>7, <1>8 DEF RankingInv, Phases

\* A step that leaves the variables alone keeps it.
LEMMA RankingStays ==
    ASSUME RankingConstants, RankingInv, UNCHANGED rankingVars
    PROVE  RankingInv'
<1>1. /\ phase' = phase /\ hybrid' = hybrid /\ answers' = answers /\ arrived' = arrived
      /\ before' = before /\ list' = list /\ context' = context
  BY DEF rankingVars
<1>2. \A c, d : Outranks(c, d)' <=> Outranks(c, d)
  BY <1>1 DEF Outranks, RankIn
<1>3. \A c : TakenFrom(list, c)' = TakenFrom(list, c)
  BY <1>1 DEF TakenFrom
<1>4. AnswersSound' /\ Arrivals' /\ Ranked(before)' /\ Ranked(list)'
  BY <1>1 DEF RankingInv, AnswersSound, Arrivals
<1>5. MergedAlike' /\ FusedInOrder' /\ ChosenWell' /\ ContextFits'
  <2>1. MergedAlike /\ FusedInOrder /\ ChosenWell /\ ContextFits
    BY DEF RankingInv, RankingSound
  <2>2. MergedAlike'
    BY <1>1, <2>1 DEF MergedAlike
  <2>3. FusedInOrder'
    BY <1>1, <1>2, <2>1 DEF FusedInOrder
  <2>4. ChosenWell'
    BY <1>1, <1>3, <2>1 DEF ChosenWell
  <2>5. ContextFits'
    BY <1>1, <2>1 DEF ContextFits
  <2> QED
    BY <2>2, <2>3, <2>4, <2>5
<1> QED
  BY <1>1, <1>4, <1>5 DEF RankingInv, RankingSound

\* Every step keeps the invariant.
LEMMA RankingStep ==
    ASSUME RankingConstants, RankingInv, [RankingNext]_rankingVars
    PROVE  RankingInv'
<1>1. CASE \E q \in Searches : SearchFailed(q)
  BY <1>1, FailedKeeps
<1>2. CASE \E q \in Searches, found \in Findings : Answered(q, found)
  BY <1>2, AnsweredKeeps
<1>3. CASE Collect
  BY <1>3, CollectKeeps
<1>4. CASE Rerank
  BY <1>4, RerankKeeps
<1>5. CASE SelectChunks
  BY <1>5, SelectKeeps
<1>6. CASE \E kind \in {"fact", "open", "bare", "other"}, direct \in SUBSET Chunks : Gate(kind, direct)
  BY <1>6, GateKeeps
<1>7. CASE \E lengths \in Lengths, budget \in Budgets, table \in BOOLEAN : Trim(lengths, budget, table)
  BY <1>7, TrimKeeps
<1>8. CASE UNCHANGED rankingVars
  BY <1>8, RankingStays
<1> QED
  BY <1>1, <1>2, <1>3, <1>4, <1>5, <1>6, <1>7, <1>8 DEF RankingNext

\* The invariant holds throughout.
LEMMA RankingInvIs == RankingSpec => []RankingInv
<1>1. RankingInit => RankingInv
  BY RankingConstants, InvStarts
<1>2. RankingInv /\ [RankingNext]_rankingVars => RankingInv'
  BY RankingConstants, RankingStep
<1> QED
  BY <1>1, <1>2, PTL DEF RankingSpec

\* For any chunks, scores, limits and lengths: MultiQuerySearchWithFilter merges alike
\* in whatever order the queries answered; in rrfFusion no chunk that both channels put
\* before another comes after it or is dropped for it; TakeTopChunks and selectWithMMR
\* keep the best candidate and leave out others only where the list or their document
\* is full; and the texts of a context fit its length, none of them cut to nothing.
THEOREM RankingsSound == RankingSpec => []RankingSound
<1>1. RankingInv => RankingSound
  BY DEF RankingInv
<1> QED
  BY <1>1, RankingInvIs, PTL

\* Every list of the pipeline has falling scores and no chunk twice, and no query
\* comes through the channel twice.
THEOREM RankingsTyped == RankingSpec => []RankingTypeOK
<1>1. RankingInv => RankingTypeOK
  <2> SUFFICES ASSUME RankingInv PROVE RankingTypeOK
    OBVIOUS
  <2>1. /\ phase \in Phases /\ hybrid \in BOOLEAN /\ answers \in [Searches -> Replies]
        /\ Arrivals /\ Ranked(before) /\ Ranked(list)
    BY DEF RankingInv
  <2>2. \A items \in {before, list} :
           items \in Lists /\ Falling(items) /\ Cardinality(ChunksOf(items)) = Len(items)
    BY <2>1, RankingConstants, RankedTyped
  <2> QED
    BY <2>1, <2>2 DEF RankingTypeOK, Phases, Arrivals
<1> QED
  BY <1>1, RankingInvIs, PTL
=============================================================================
