--------------------------- MODULE ReadingsProofs ---------------------------
(***************************************************************************)
(* What the operators the readers share return: sums, filtered sequences,  *)
(* folds from the left, sorted sequences.  Each is about sets, functions   *)
(* and sequences, never about operators, so that it can be cited with any; *)
(* the inductions are on sets of natural numbers.                          *)
(***************************************************************************)
EXTENDS Readings, FiniteSetTheorems, SequenceTheorems, WellFoundedInduction, TLAPS

-----------------------------------------------------------------------------
(* Natural numbers.                                                        *)

\* A non-empty set of naturals has a smallest element.
LEMMA SmallestOf ==
  ASSUME NEW T \in SUBSET Nat, T # {}
  PROVE  \E t \in T : \A y \in T : t <= y
<1>1. PICK t \in T : \A y \in T : ~(<<y, t>> \in OpToRel(<, Nat))
  BY NatLessThanWellFounded, WFMin
<1>2. \A y \in T : ~(y < t)
  BY <1>1 DEF OpToRel
<1> QED
  BY <1>2

\* What holds of 0, and of n + 1 whenever it holds of n, holds of every n.
LEMMA EveryNat ==
  ASSUME NEW P \in SUBSET Nat, 0 \in P, \A n \in P : n + 1 \in P
  PROVE  P = Nat
<1> SUFFICES ASSUME Nat \ P # {} PROVE FALSE
  OBVIOUS
<1>1. PICK t \in Nat \ P : \A y \in Nat \ P : t <= y
  BY SmallestOf
<1>2. t # 0 /\ t - 1 \in Nat /\ t - 1 \notin Nat \ P /\ (t - 1) + 1 = t
  BY <1>1
<1> QED
  BY <1>2

\* A non-empty set of naturals below a bound has a largest element.
LEMMA LargestIs ==
  ASSUME NEW n \in Nat, NEW S \in SUBSET (0..n), S # {}
  PROVE  Max(S) \in S /\ \A x \in S : x <= Max(S)
<1> DEFINE T == {k \in Nat : n - k \in S}
<1>1. T \subseteq Nat /\ T # {}
  <2>1. PICK x \in S : x \in 0..n
    OBVIOUS
  <2>2. n - x \in T
    BY <2>1
  <2> QED
    BY <2>2
<1>2. PICK t \in T : \A y \in T : t <= y
  BY <1>1, SmallestOf
<1>3. n - t \in S /\ \A x \in S : n - t >= x
  <2>1. \A x \in S : n - x \in T
    OBVIOUS
  <2> QED
    BY <1>2, <2>1
<1>4. Max(S) \in S /\ \A y \in S : Max(S) >= y
  BY <1>3 DEF Max
<1> QED
  BY <1>4

\* A non-empty finite set of integers has a largest element.
LEMMA FiniteMax ==
  ASSUME NEW S \in SUBSET Int, IsFiniteSet(S), S # {}
  PROVE  Max(S) \in S /\ \A x \in S : x <= Max(S)
<1> DEFINE P == {n \in Nat : \A T \in SUBSET S : Cardinality(T) = n /\ T # {} =>
                               \E m \in T : \A x \in T : x <= m}
<1>1. 0 \in P
  <2>1. \A T \in SUBSET S : Cardinality(T) = 0 => T = {}
    BY FS_Subset, FS_EmptySet
  <2> QED
    BY <2>1
<1>2. ASSUME NEW n \in P PROVE n + 1 \in P
  <2> SUFFICES ASSUME NEW T \in SUBSET S, Cardinality(T) = n + 1, T # {}
               PROVE  \E m \in T : \A x \in T : x <= m
    OBVIOUS
  <2>1. PICK a \in T : TRUE
    OBVIOUS
  <2>2. IsFiniteSet(T) /\ IsFiniteSet(T \ {a}) /\ Cardinality(T \ {a}) = n
    <3>1. IsFiniteSet(T) /\ n \in Nat
      BY FS_Subset
    <3>2. IsFiniteSet(T \ {a}) /\ Cardinality(T \ {a}) = Cardinality(T) - 1
      BY <2>1, <3>1, FS_RemoveElement, Zenon
    <3> QED
      BY <3>1, <3>2
  <2>3. CASE T \ {a} = {}
    BY <2>1, <2>3
  <2>4. CASE T \ {a} # {}
    <3>1. PICK m \in T \ {a} : \A x \in T \ {a} : x <= m
      BY <2>2, <2>4
    <3>2. CASE a <= m
      BY <3>1, <3>2
    <3>3. CASE ~(a <= m)
      <4>1. \A x \in T : x <= a
        BY <3>1, <3>3
      <4> QED
        BY <4>1
    <3> QED
      BY <3>2, <3>3
  <2> QED
    BY <2>3, <2>4
<1>3. P = Nat
  <2> HIDE DEF P
  <2>1. P \subseteq Nat
    BY DEF P
  <2> QED
    BY <1>1, <1>2, <2>1, EveryNat
<1>4. PICK m \in S : \A x \in S : x <= m
  <2>1. Cardinality(S) \in P
    BY <1>3, FS_CardinalityType
  <2> QED
    BY <2>1
<1> QED
  BY <1>4 DEF Max

-----------------------------------------------------------------------------
(* Folds over a finite set.                                                *)

\* c picks an element of each non-empty subset, g[x] stays within T, and w is
\* the fold that takes the element c[s] of a set s, and g of it and of the rest.
Picks(c, S) == \A s \in SUBSET S : s # {} => c[s] \in s

StaysIn(g, S, T) == \A x \in S : \A y \in T : g[x][y] \in T

IsFold(w, S, c, base, g) ==
  \A s \in SUBSET S : w[s] = IF s = {} THEN base ELSE g[c[s]][w[s \ {c[s]}]]

\* Over a finite set there is one.
LEMMA FoldExists ==
  ASSUME NEW S, IsFiniteSet(S), NEW c, Picks(c, S),
         NEW T, NEW base \in T, NEW g, StaysIn(g, S, T)
  PROVE  \E w \in [SUBSET S -> T] : IsFold(w, S, c, base, g)
<1> USE DEF Picks, StaysIn, IsFold
<1> DEFINE Sub(n) == {s \in SUBSET S : Cardinality(s) <= n}
           Solves(w, n) == \A s \in Sub(n) : w[s] = IF s = {} THEN base ELSE g[c[s]][w[s \ {c[s]}]]
           P == {n \in Nat : \E w \in [Sub(n) -> T] : Solves(w, n)}
<1>1. \A s \in SUBSET S : IsFiniteSet(s) /\ Cardinality(s) \in Nat
  BY FS_Subset, FS_CardinalityType
<1>2. 0 \in P
  <2>1. \A s \in Sub(0) : s = {}
    BY <1>1, FS_EmptySet
  <2>2. [s \in Sub(0) |-> base] \in [Sub(0) -> T] /\ Solves([s \in Sub(0) |-> base], 0)
    BY <2>1
  <2> QED
    BY <2>2
<1>3. ASSUME NEW n \in P PROVE n + 1 \in P
  <2>1. n \in Nat
    OBVIOUS
  <2>2. PICK w \in [Sub(n) -> T] : Solves(w, n)
    OBVIOUS
  <2> HIDE DEF P
  <2> DEFINE v == [s \in Sub(n + 1) |-> IF s \in Sub(n) THEN w[s] ELSE g[c[s]][w[s \ {c[s]}]]]
  <2>3. \A s \in Sub(n + 1) : s # {} => c[s] \in S /\ s \ {c[s]} \in Sub(n)
    <3> SUFFICES ASSUME NEW s \in Sub(n + 1), s # {} PROVE c[s] \in S /\ s \ {c[s]} \in Sub(n)
      OBVIOUS
    <3>1. c[s] \in s /\ s \ {c[s]} \in SUBSET S
      OBVIOUS
    <3>2. Cardinality(s \ {c[s]}) = Cardinality(s) - 1
      BY <1>1, <3>1, FS_RemoveElement, Zenon
    <3> QED
      BY <1>1, <2>1, <3>1, <3>2
  <2>4. \A s \in Sub(n) : s \in Sub(n + 1)
    BY <1>1, <2>1
  <2>5. {} \in Sub(n)
    BY <2>1, FS_EmptySet
  <2> HIDE DEF Sub
  <2>6. v \in [Sub(n + 1) -> T]
    BY <2>3, <2>5
  <2>7. ASSUME NEW s \in Sub(n + 1) PROVE v[s] = IF s = {} THEN base ELSE g[c[s]][v[s \ {c[s]}]]
    <3>1. CASE s \in Sub(n)
      <4>1. s # {} => s \ {c[s]} \in Sub(n)
        BY <2>3
      <4> QED
        BY <2>2, <2>4, <3>1, <4>1
    <3>2. CASE s \notin Sub(n)
      <4>1. s # {}
        BY <2>5, <3>2
      <4>2. s \ {c[s]} \in Sub(n) /\ s \ {c[s]} \in Sub(n + 1)
        BY <2>3, <2>4, <4>1
      <4> QED
        BY <3>2, <4>1, <4>2
    <3> QED
      BY <3>1, <3>2
  <2>8. Solves(v, n + 1)
    BY <2>7
  <2>9. \E u \in [Sub(n + 1) -> T] : Solves(u, n + 1)
    <3> HIDE DEF v, Solves
    <3> QED
      BY <2>6, <2>8
  <2>10. n + 1 \in Nat
    BY <2>1
  <2> HIDE DEF Solves
  <2> QED
    BY <2>9, <2>10 DEF P
<1>4. P = Nat
  <2>1. P \subseteq Nat
    OBVIOUS
  <2> HIDE DEF P
  <2> QED
    BY <1>2, <1>3, <2>1, EveryNat
<1>5. PICK w \in [Sub(Cardinality(S)) -> T] : Solves(w, Cardinality(S))
  <2>1. Cardinality(S) \in P
    BY <1>4, FS_CardinalityType
  <2> QED
    BY <2>1
<1>6. Sub(Cardinality(S)) = SUBSET S
  BY FS_Subset
<1> QED
  BY <1>5, <1>6

\* A subset has one value, whichever set the fold is taken over.
LEMMA FoldSame ==
  ASSUME NEW S, IsFiniteSet(S), NEW c, Picks(c, S),
         NEW base, NEW g, NEW R \in SUBSET S, NEW w, NEW v,
         IsFold(w, S, c, base, g), IsFold(v, R, c, base, g)
  PROVE  \A s \in SUBSET R : v[s] = w[s]
<1> USE DEF Picks, IsFold
<1> DEFINE P == {n \in Nat : \A s \in SUBSET R : Cardinality(s) = n => v[s] = w[s]}
<1>1. \A s \in SUBSET R : IsFiniteSet(s) /\ Cardinality(s) \in Nat /\ s \in SUBSET S
  BY FS_Subset, FS_CardinalityType
<1>2. 0 \in P
  <2>1. \A s \in SUBSET R : Cardinality(s) = 0 => s = {}
    BY <1>1, FS_EmptySet
  <2> QED
    BY <1>1, <2>1
<1>3. ASSUME NEW n \in P PROVE n + 1 \in P
  <2> SUFFICES ASSUME NEW s \in SUBSET R, Cardinality(s) = n + 1 PROVE v[s] = w[s]
    OBVIOUS
  <2>1. n \in Nat /\ s # {}
    <3>1. n \in Nat
      OBVIOUS
    <3> HIDE DEF P
    <3> QED
      BY <3>1, FS_EmptySet
  <2>2. c[s] \in s /\ s \ {c[s]} \in SUBSET R
    BY <1>1, <2>1
  <2>3. Cardinality(s \ {c[s]}) = Cardinality(s) - 1
    <3>1. IsFiniteSet(s)
      BY <1>1
    <3> QED
      BY <2>2, <3>1, FS_RemoveElement, Zenon
  <2>4. Cardinality(s \ {c[s]}) = n
    BY <2>1, <2>3
  <2>5. v[s \ {c[s]}] = w[s \ {c[s]}]
    BY <2>2, <2>4
  <2> HIDE DEF P
  <2> QED
    BY <1>1, <2>1, <2>5
<1>4. P = Nat
  <2>1. P \subseteq Nat
    OBVIOUS
  <2> HIDE DEF P
  <2> QED
    BY <1>2, <1>3, <2>1, EveryNat
<1> QED
  BY <1>1, <1>4

-----------------------------------------------------------------------------
(* Sums.                                                                   *)

\* w adds the elements of each subset of S one after another.
pick(s) == CHOOSE x \in s : TRUE

AddsUp(w, f, S) ==
  \A s \in SUBSET S : /\ w[s] \in Int
                      /\ w[s] = IF s = {} THEN 0 ELSE f[pick(s)] + w[s \ {pick(s)}]

\* A sum is what it comes to.
LEMMA SumFold ==
  ASSUME NEW S, IsFiniteSet(S), NEW f, \A x \in S : f[x] \in Int
  PROVE  \E w : SumFunctionOnSet(f, S) = w[S] /\ AddsUp(w, f, S)
<1> DEFINE body(h) == [s \in SUBSET S |-> IF s = {} THEN 0 ELSE f[pick(s)] + h[s \ {pick(s)}]]
           iter == CHOOSE h : h = body(h)
<1>1. SumFunctionOnSet(f, S) = iter[S]
  BY DEF SumFunctionOnSet, FoldFunctionOnSet, MapThenFoldSet, pick
<1>2. \A s \in SUBSET S : s # {} => pick(s) \in s
  BY DEF pick
<1>c. PICK c : c = [s \in SUBSET S |-> pick(s)]
  OBVIOUS
<1>g. PICK g : g = [x \in S |-> [y \in Int |-> f[x] + y]]
  OBVIOUS
<1>p. Picks(c, S) /\ StaysIn(g, S, Int) /\ 0 \in Int
  BY <1>2, <1>c, <1>g DEF Picks, StaysIn
<1>3. PICK w \in [SUBSET S -> Int] : IsFold(w, S, c, 0, g)
  BY <1>p, FoldExists
<1>r. \A s \in SUBSET S : s # {} => c[s] = pick(s) /\ pick(s) \in S /\ s \ {pick(s)} \in SUBSET S
  BY <1>2, <1>c
<1>4. w = body(w)
  <2>1. ASSUME NEW s \in SUBSET S PROVE w[s] = IF s = {} THEN 0 ELSE f[pick(s)] + w[s \ {pick(s)}]
    <3>1. s # {} => g[pick(s)][w[s \ {pick(s)}]] = f[pick(s)] + w[s \ {pick(s)}]
      BY <1>g, <1>r
    <3> QED
      BY <1>3, <1>r, <3>1 DEF IsFold
  <2>2. w = [s \in SUBSET S |-> w[s]]
    OBVIOUS
  <2> QED
    BY <2>1, <2>2
<1>5. iter = body(iter)
  <2> HIDE DEF body
  <2> QED
    BY <1>4
<1>6. \A s \in SUBSET S : iter[s] = IF s = {} THEN 0 ELSE f[pick(s)] + iter[s \ {pick(s)}]
  <2> HIDE DEF iter
  <2> QED
    BY <1>5
<1>7. \A s \in SUBSET S : w[s] = IF s = {} THEN 0 ELSE f[pick(s)] + w[s \ {pick(s)}]
  BY <1>4
<1>8. \A s \in SUBSET S : iter[s] = w[s]
  <2> HIDE DEF iter, body
  <2>1. PICK k : k = [x \in S |-> [y \in {iter[s] : s \in SUBSET S} \cup Int |-> f[x] + y]]
    OBVIOUS
  <2>2. \A x \in S : \A s \in SUBSET S : k[x][iter[s]] = f[x] + iter[s] /\ k[x][w[s]] = f[x] + w[s]
    BY <2>1
  <2>3. IsFold(iter, S, c, 0, k) /\ IsFold(w, S, c, 0, k)
    <3>1. ASSUME NEW s \in SUBSET S
          PROVE  /\ iter[s] = IF s = {} THEN 0 ELSE k[c[s]][iter[s \ {c[s]}]]
                 /\ w[s] = IF s = {} THEN 0 ELSE k[c[s]][w[s \ {c[s]}]]
      <4>1. CASE s = {}
        BY <1>6, <1>7, <4>1
      <4>2. CASE s # {}
        <5>1. c[s] = pick(s) /\ pick(s) \in S /\ s \ {pick(s)} \in SUBSET S
          BY <1>r, <4>2
        <5>2. iter[s] = f[pick(s)] + iter[s \ {pick(s)}] /\ w[s] = f[pick(s)] + w[s \ {pick(s)}]
          BY <1>6, <1>7, <4>2
        <5>3. /\ k[pick(s)][iter[s \ {pick(s)}]] = f[pick(s)] + iter[s \ {pick(s)}]
              /\ k[pick(s)][w[s \ {pick(s)}]] = f[pick(s)] + w[s \ {pick(s)}]
          BY <2>2, <5>1
        <5> QED
          BY <4>2, <5>1, <5>2, <5>3
      <4> QED
        BY <4>1, <4>2
    <3> QED
      BY <3>1 DEF IsFold
  <2>4. S \in SUBSET S
    OBVIOUS
  <2> QED
    BY <1>p, <2>3, <2>4, FoldSame
<1>9. SumFunctionOnSet(f, S) = w[S]
  <2> HIDE DEF iter
  <2> QED
    BY <1>1, <1>8
<1>10. \A s \in SUBSET S : w[s] \in Int
  OBVIOUS
<1> HIDE DEF iter, body
<1> QED
  BY <1>7, <1>9, <1>10 DEF AddsUp

\* What holds of the empty set, and stays true when an element is added, holds
\* of every subset of a finite set.
LEMMA EverySubset ==
  ASSUME NEW S, IsFiniteSet(S), NEW P \in SUBSET SUBSET S, {} \in P,
         \A s \in P : \A x \in S \ s : s \cup {x} \in P
  PROVE  P = SUBSET S
<1> DEFINE N == {n \in Nat : \A s \in SUBSET S : Cardinality(s) = n => s \in P}
<1>1. \A s \in SUBSET S : IsFiniteSet(s) /\ Cardinality(s) \in Nat
  BY FS_Subset, FS_CardinalityType
<1>2. 0 \in N
  <2>1. \A s \in SUBSET S : Cardinality(s) = 0 => s = {}
    BY <1>1, FS_EmptySet
  <2> QED
    BY <2>1
<1>3. ASSUME NEW n \in N PROVE n + 1 \in N
  <2> SUFFICES ASSUME NEW s \in SUBSET S, Cardinality(s) = n + 1 PROVE s \in P
    OBVIOUS
  <2>1. n \in Nat
    OBVIOUS
  <2>2. s # {}
    <3>1. s = {} => Cardinality(s) = 0
      BY FS_EmptySet, Zenon
    <3> HIDE DEF N
    <3> QED
      BY <2>1, <3>1
  <2>3. PICK x \in s : TRUE
    BY <2>2
  <2>4. Cardinality(s \ {x}) = Cardinality(s) - 1
    <3>1. IsFiniteSet(s)
      BY <1>1
    <3> QED
      BY <2>3, <3>1, FS_RemoveElement, Zenon
  <2>5. s \ {x} \in P
    BY <2>1, <2>4
  <2>6. (s \ {x}) \cup {x} = s /\ x \in S \ (s \ {x})
    BY <2>3
  <2> QED
    BY <2>5, <2>6
<1>4. N = Nat
  <2>1. N \subseteq Nat
    OBVIOUS
  <2> HIDE DEF N
  <2> QED
    BY <1>2, <1>3, <2>1, EveryNat
<1> QED
  BY <1>1, <1>4

\* A sum of integers is one; nothing adds up to 0; and any element may be added
\* first.
LEMMA SumRemove ==
  ASSUME NEW S, IsFiniteSet(S), NEW f, \A x \in S : f[x] \in Int
  PROVE  /\ SumFunctionOnSet(f, S) \in Int
         /\ SumFunctionOnSet(f, {}) = 0
         /\ \A x \in S : SumFunctionOnSet(f, S) = f[x] + SumFunctionOnSet(f, S \ {x})
<1> DEFINE sum(s) == SumFunctionOnSet(f, s)
<1> HIDE DEF sum
<1>1. \A s \in SUBSET S : IsFiniteSet(s) /\ \A x \in s : f[x] \in Int
  BY FS_Subset
<1>2. PICK c, g : /\ c = [s \in SUBSET S |-> pick(s)]
                  /\ g = [x \in S |-> [y \in Int |-> f[x] + y]]
  OBVIOUS
<1>3. \A s \in SUBSET S : s # {} => pick(s) \in s
  BY DEF pick
<1>4. Picks(c, S)
  BY <1>2, <1>3 DEF Picks
<1>5. ASSUME NEW s \in SUBSET S
      PROVE  \E w : sum(s) = w[s] /\ w[s] \in Int /\ IsFold(w, s, c, 0, g)
  <2>1. PICK w : sum(s) = w[s] /\ AddsUp(w, f, s)
    BY <1>1, SumFold DEF sum
  <2>2. ASSUME NEW r \in SUBSET s PROVE w[r] = IF r = {} THEN 0 ELSE g[c[r]][w[r \ {c[r]}]]
    <3>1. CASE r = {}
      BY <2>1, <3>1 DEF AddsUp
    <3>2. CASE r # {}
      <4>1. c[r] = pick(r) /\ pick(r) \in S /\ r \ {pick(r)} \in SUBSET s
        BY <1>2, <1>3, <3>2
      <4>2. w[r \ {pick(r)}] \in Int /\ w[r] = f[pick(r)] + w[r \ {pick(r)}]
        BY <2>1, <3>2, <4>1 DEF AddsUp
      <4>3. g[pick(r)][w[r \ {pick(r)}]] = f[pick(r)] + w[r \ {pick(r)}]
        BY <1>2, <4>1, <4>2
      <4> QED
        BY <3>2, <4>1, <4>2, <4>3
    <3> QED
      BY <3>1, <3>2
  <2>3. IsFold(w, s, c, 0, g)
    BY <2>2 DEF IsFold
  <2>4. w[s] \in Int
    BY <2>1 DEF AddsUp
  <2> QED
    BY <2>1, <2>3, <2>4
<1>6. \A s \in SUBSET S : sum(s) \in Int
  BY <1>5
<1>7. sum({}) = 0
  <2>1. PICK w : sum({}) = w[{}] /\ IsFold(w, {}, c, 0, g)
    BY <1>5
  <2> QED
    BY <2>1 DEF IsFold
<1>8. ASSUME NEW s \in SUBSET S, s # {}
      PROVE  pick(s) \in s /\ sum(s) = f[pick(s)] + sum(s \ {pick(s)})
  <2> DEFINE r == s \ {pick(s)}
  <2>1. pick(s) \in s /\ pick(s) \in S /\ r \in SUBSET s /\ s \in SUBSET s /\ c[s] = pick(s)
    BY <1>2, <1>3, <1>8
  <2>2. PICK w : sum(s) = w[s] /\ IsFold(w, s, c, 0, g)
    BY <1>5
  <2>3. PICK v : sum(r) = v[r] /\ IsFold(v, r, c, 0, g)
    BY <1>5, <2>1
  <2>4. Picks(c, s) /\ IsFiniteSet(s)
    BY <1>1, <1>4 DEF Picks
  <2>5. v[r] = w[r]
    <3> HIDE DEF r
    <3>1. r \in SUBSET r
      OBVIOUS
    <3>2. \A t \in SUBSET r : v[t] = w[t]
      BY <2>1, <2>2, <2>3, <2>4, FoldSame
    <3> QED
      BY <3>1, <3>2
  <2>6. w[s] = g[pick(s)][w[r]]
    BY <1>8, <2>1, <2>2 DEF IsFold
  <2>7. sum(r) \in Int
    BY <1>6, <2>1
  <2>8. g[pick(s)][sum(r)] = f[pick(s)] + sum(r)
    BY <1>2, <2>1, <2>7
  <2> QED
    BY <2>1, <2>2, <2>3, <2>5, <2>6, <2>8
<1> DEFINE P == {n \in Nat : \A r \in SUBSET S : Cardinality(r) = n =>
                               \A x \in r : sum(r) = f[x] + sum(r \ {x})}
<1>9. P = Nat
  <2>1. P \in SUBSET Nat
    OBVIOUS
  <2>2. 0 \in P
    <3>1. \A r \in SUBSET S : Cardinality(r) = 0 => r = {}
      BY <1>1, FS_EmptySet
    <3> QED
      BY <3>1
  <2>3. ASSUME NEW n \in P PROVE n + 1 \in P
    <3>1. n \in Nat
      OBVIOUS
    <3>2. ASSUME NEW r \in SUBSET S, Cardinality(r) = n + 1, NEW x \in r
          PROVE  sum(r) = f[x] + sum(r \ {x})
      <4>1. pick(r) \in r /\ sum(r) = f[pick(r)] + sum(r \ {pick(r)})
        BY <1>8
      <4>2. CASE pick(r) = x
        BY <4>1, <4>2
      <4>3. CASE pick(r) # x
        <5>1. PICK p : p = pick(r)
          OBVIOUS
        <5>2. p \in r /\ p # x /\ sum(r) = f[p] + sum(r \ {p})
          BY <4>1, <4>3, <5>1
        <5>3. Cardinality(r \ {p}) = Cardinality(r) - 1 /\ Cardinality(r \ {x}) = Cardinality(r) - 1
          <6>1. IsFiniteSet(r)
            BY <1>1
          <6> QED
            BY <5>2, <6>1, FS_RemoveElement, Zenon
        <5>4. Cardinality(r \ {p}) = n /\ Cardinality(r \ {x}) = n
          BY <3>1, <3>2, <5>3
        <5>5. /\ sum(r \ {p}) = f[x] + sum((r \ {p}) \ {x})
              /\ sum(r \ {x}) = f[p] + sum((r \ {x}) \ {p})
          <6>1. r \ {p} \in SUBSET S /\ r \ {x} \in SUBSET S /\ x \in r \ {p} /\ p \in r \ {x}
            BY <5>2
          <6> QED
            BY <5>4, <6>1
        <5>6. (r \ {p}) \ {x} = (r \ {x}) \ {p}
          OBVIOUS
        <5>7. f[p] \in Int /\ f[x] \in Int /\ sum((r \ {p}) \ {x}) \in Int
          <6>1. (r \ {p}) \ {x} \in SUBSET S
            OBVIOUS
          <6> QED
            BY <1>1, <1>6, <5>2, <6>1
        <5>8. PICK m : m = sum((r \ {p}) \ {x}) /\ m = sum((r \ {x}) \ {p}) /\ m \in Int
          BY <5>6, <5>7, Zenon
        <5> HIDE DEF P
        <5> QED
          BY <5>2, <5>5, <5>7, <5>8
      <4> QED
        BY <4>2, <4>3
    <3> QED
      BY <3>1, <3>2
  <2> HIDE DEF P
  <2> QED
    BY <2>1, <2>2, <2>3, EveryNat
<1>10. \A x \in S : sum(S) = f[x] + sum(S \ {x})
  <2>1. Cardinality(S) \in P /\ S \in SUBSET S
    BY <1>9, FS_CardinalityType
  <2> QED
    BY <2>1
<1>11. S \in SUBSET S
  OBVIOUS
<1> HIDE DEF P
<1> QED
  BY <1>6, <1>7, <1>10, <1>11 DEF sum

\* One number's sum, and two numbers'.
LEMMA SumOne ==
  ASSUME NEW f, NEW a, f[a] \in Int
  PROVE  SumFunctionOnSet(f, {a}) = f[a]
<1>1. IsFiniteSet({a}) /\ \A x \in {a} : f[x] \in Int
  BY FS_Singleton
<1>2. /\ SumFunctionOnSet(f, {}) = 0
      /\ \A x \in {a} : SumFunctionOnSet(f, {a}) = f[x] + SumFunctionOnSet(f, {a} \ {x})
  BY <1>1, SumRemove
<1>3. {a} \ {a} = {}
  OBVIOUS
<1> QED
  BY <1>2, <1>3

LEMMA SumTwo ==
  ASSUME NEW f, NEW a, NEW b, a # b, f[a] \in Int, f[b] \in Int
  PROVE  SumFunctionOnSet(f, {a, b}) = f[a] + f[b]
<1> DEFINE S == {a, b}
<1>1. \A x \in S : f[x] \in Int
  OBVIOUS
<1>2. IsFiniteSet(S)
  <2>1. IsFiniteSet({b}) /\ IsFiniteSet({b} \cup {a})
    BY FS_Singleton, FS_AddElement
  <2>2. S = {b} \cup {a}
    OBVIOUS
  <2> QED
    BY <2>1, <2>2
<1>3. S \ {a} = {b} /\ a \in S
  OBVIOUS
<1>4. SumFunctionOnSet(f, S) = f[a] + SumFunctionOnSet(f, S \ {a})
  <2> HIDE DEF S
  <2> QED
    BY <1>1, <1>2, <1>3, SumRemove
<1>5. SumFunctionOnSet(f, {b}) = f[b]
  BY SumOne
<1> QED
  BY <1>3, <1>4, <1>5

\* The greater the elements the greater the sum; so equal ones have one sum.
LEMMA SumLeq ==
  ASSUME NEW S, IsFiniteSet(S), NEW f, NEW h,
         \A x \in S : f[x] \in Int /\ h[x] \in Int /\ f[x] <= h[x]
  PROVE  SumFunctionOnSet(f, S) <= SumFunctionOnSet(h, S)
<1> DEFINE sum(k, s) == SumFunctionOnSet(k, s)
           P == {s \in SUBSET S : sum(f, s) <= sum(h, s)}
<1>1. \A s \in SUBSET S : IsFiniteSet(s) /\ (\A x \in s : f[x] \in Int) /\ (\A x \in s : h[x] \in Int)
  BY FS_Subset
<1> HIDE DEF sum
<1>2. {} \in P
  <2>1. sum(f, {}) = 0 /\ sum(h, {}) = 0
    BY <1>1, SumRemove DEF sum
  <2> QED
    BY <2>1
<1>3. ASSUME NEW s \in P, NEW x \in S \ s PROVE s \cup {x} \in P
  <2>0. PICK t : t = s \cup {x}
    OBVIOUS
  <2>1. t = s \cup {x} /\ t \in SUBSET S /\ x \in t /\ t \ {x} = s
    BY <2>0
  <2>2. sum(f, s) \in Int /\ sum(h, s) \in Int
    BY <1>1, SumRemove DEF sum
  <2>3. sum(f, t) = f[x] + sum(f, s) /\ sum(h, t) = h[x] + sum(h, s)
    <3>1. sum(f, t) = f[x] + sum(f, t \ {x}) /\ sum(h, t) = h[x] + sum(h, t \ {x})
      BY <1>1, <2>1, SumRemove DEF sum
    <3> QED
      BY <2>1, <3>1
  <2>4. sum(f, s) <= sum(h, s) /\ f[x] \in Int /\ h[x] \in Int /\ f[x] <= h[x]
    OBVIOUS
  <2>5. sum(f, t) <= sum(h, t)
    BY <2>2, <2>3, <2>4
  <2> QED
    BY <2>1, <2>5
<1>4. P = SUBSET S
  <2>1. P \in SUBSET SUBSET S
    OBVIOUS
  <2> HIDE DEF P
  <2> QED
    BY <1>2, <1>3, <2>1, EverySubset
<1>5. S \in P
  BY <1>4
<1> QED
  BY <1>5 DEF sum

LEMMA SumSame ==
  ASSUME NEW S, IsFiniteSet(S), NEW f, NEW h, \A x \in S : f[x] \in Int /\ h[x] = f[x]
  PROVE  SumFunctionOnSet(f, S) = SumFunctionOnSet(h, S)
<1>1. SumFunctionOnSet(f, S) <= SumFunctionOnSet(h, S)
  BY SumLeq
<1>2. SumFunctionOnSet(h, S) <= SumFunctionOnSet(f, S)
  BY SumLeq
<1>3. SumFunctionOnSet(h, S) \in Int /\ SumFunctionOnSet(f, S) \in Int
  BY SumRemove
<1> QED
  BY <1>1, <1>2, <1>3

\* Natural numbers add up to one, which is 0 only when each is.
LEMMA SumNat ==
  ASSUME NEW S, IsFiniteSet(S), NEW f, \A x \in S : f[x] \in Nat
  PROVE  /\ SumFunctionOnSet(f, S) \in Nat
         /\ \A x \in S : f[x] <= SumFunctionOnSet(f, S)
<1> DEFINE sum(s) == SumFunctionOnSet(f, s)
           P == {s \in SUBSET S : sum(s) \in Nat}
<1>1. \A s \in SUBSET S : IsFiniteSet(s) /\ \A x \in s : f[x] \in Int
  BY FS_Subset
<1> HIDE DEF sum
<1>2. {} \in P
  <2>1. sum({}) = 0
    BY <1>1, SumRemove DEF sum
  <2> QED
    BY <2>1
<1>3. ASSUME NEW s \in P, NEW x \in S \ s PROVE s \cup {x} \in P
  <2>0. PICK t : t = s \cup {x}
    OBVIOUS
  <2>1. t = s \cup {x} /\ t \in SUBSET S /\ x \in t /\ t \ {x} = s
    BY <2>0
  <2>2. sum(t) = f[x] + sum(t \ {x})
    BY <1>1, <2>1, SumRemove DEF sum
  <2>3. sum(t) = f[x] + sum(s) /\ sum(s) \in Nat
    BY <2>1, <2>2
  <2> QED
    BY <2>1, <2>3
<1>4. P = SUBSET S
  <2>1. P \in SUBSET SUBSET S
    OBVIOUS
  <2> HIDE DEF P
  <2> QED
    BY <1>2, <1>3, <2>1, EverySubset
<1>5. ASSUME NEW x \in S PROVE f[x] <= sum(S)
  <2>1. sum(S) = f[x] + sum(S \ {x})
    BY <1>1, SumRemove DEF sum
  <2>2. sum(S \ {x}) \in Nat
    BY <1>4
  <2> QED
    BY <2>1, <2>2
<1>6. sum(S) \in Nat
  BY <1>4
<1> QED
  BY <1>5, <1>6 DEF sum

\* The sum over two sets that have nothing in common.
LEMMA SumJoin ==
  ASSUME NEW S, NEW T, IsFiniteSet(S), IsFiniteSet(T), S \cap T = {},
         NEW f, \A x \in S \cup T : f[x] \in Int
  PROVE  SumFunctionOnSet(f, S \cup T) = SumFunctionOnSet(f, S) + SumFunctionOnSet(f, T)
<1> DEFINE sum(s) == SumFunctionOnSet(f, s)
           P == {s \in SUBSET S : sum(s \cup T) = sum(s) + sum(T)}
<1> HIDE DEF sum
<1>1. \A s \in SUBSET S : IsFiniteSet(s) /\ IsFiniteSet(s \cup T) /\ \A x \in s \cup T : f[x] \in Int
  BY FS_Subset, FS_Union
<1>2. sum(T) \in Int /\ sum({}) = 0
  BY SumRemove DEF sum
<1>3. {} \in P
  <2>1. {} \cup T = T
    OBVIOUS
  <2>2. sum({} \cup T) = sum(T)
    BY <2>1
  <2> QED
    BY <1>2, <2>2
<1>4. ASSUME NEW s \in P, NEW x \in S \ s PROVE s \cup {x} \in P
  <2>0. PICK t, u : t = s \cup {x} /\ u = s \cup {x} \cup T
    OBVIOUS
  <2>1. /\ t = s \cup {x} /\ t \in SUBSET S /\ x \in t /\ t \ {x} = s
        /\ u = t \cup T /\ x \in u /\ u \ {x} = s \cup T
    BY <2>0
  <2>2. sum(t) = f[x] + sum(t \ {x}) /\ sum(u) = f[x] + sum(u \ {x})
    <3>1. IsFiniteSet(t) /\ IsFiniteSet(u) /\ (\A y \in t : f[y] \in Int) /\ (\A y \in u : f[y] \in Int)
      BY <1>1, <2>1
    <3> QED
      BY <2>1, <3>1, SumRemove DEF sum
  <2>3. sum(s) \in Int /\ f[x] \in Int
    BY <1>1, SumRemove DEF sum
  <2>4. sum(s \cup T) = sum(s) + sum(T)
    OBVIOUS
  <2>5. sum(t) = f[x] + sum(s) /\ sum(u) = f[x] + (sum(s) + sum(T))
    BY <2>1, <2>2, <2>4, Zenon
  <2>6. sum(u) = sum(t) + sum(T)
    BY <1>2, <2>3, <2>5
  <2> QED
    BY <2>1, <2>6
<1>5. P = SUBSET S
  <2>1. P \in SUBSET SUBSET S
    OBVIOUS
  <2> HIDE DEF P
  <2> QED
    BY <1>3, <1>4, <2>1, EverySubset
<1>6. S \in P
  BY <1>5
<1> QED
  BY <1>6 DEF sum

LEMMA SumZero ==
  ASSUME NEW S, IsFiniteSet(S), NEW f, \A x \in S : f[x] = 0
  PROVE  SumFunctionOnSet(f, S) = 0
<1> DEFINE sum(s) == SumFunctionOnSet(f, s)
           P == {s \in SUBSET S : sum(s) = 0}
<1>1. \A s \in SUBSET S : IsFiniteSet(s) /\ \A x \in s : f[x] \in Int
  BY FS_Subset
<1> HIDE DEF sum
<1>2. {} \in P
  <2>1. sum({}) = 0
    BY <1>1, SumRemove DEF sum
  <2> QED
    BY <2>1
<1>3. ASSUME NEW s \in P, NEW x \in S \ s PROVE s \cup {x} \in P
  <2>0. PICK t : t = s \cup {x}
    OBVIOUS
  <2>1. t = s \cup {x} /\ t \in SUBSET S /\ x \in t /\ t \ {x} = s
    BY <2>0
  <2>2. sum(t) = f[x] + sum(t \ {x})
    BY <1>1, <2>1, SumRemove DEF sum
  <2> QED
    BY <2>1, <2>2
<1>4. P = SUBSET S
  <2>1. P \in SUBSET SUBSET S
    OBVIOUS
  <2> HIDE DEF P
  <2> QED
    BY <1>2, <1>3, <2>1, EverySubset
<1> QED
  BY <1>4 DEF sum

\* A part of natural numbers is no more than the whole, and the whole when the
\* rest are 0.
LEMMA SumWithin ==
  ASSUME NEW T, IsFiniteSet(T), NEW S \in SUBSET T, NEW f, \A x \in T : f[x] \in Nat
  PROVE  /\ SumFunctionOnSet(f, S) \in Nat /\ SumFunctionOnSet(f, T) \in Nat
         /\ SumFunctionOnSet(f, S) <= SumFunctionOnSet(f, T)
         /\ (\A x \in T \ S : f[x] = 0) => SumFunctionOnSet(f, S) = SumFunctionOnSet(f, T)
<1>1. PICK R : R = T \ S
  OBVIOUS
<1>2. IsFiniteSet(S) /\ IsFiniteSet(R) /\ S \cap R = {} /\ S \cup R = T
  BY <1>1, FS_Subset, FS_Difference
<1>3. (\A x \in S : f[x] \in Nat) /\ (\A x \in R : f[x] \in Nat) /\ \A x \in S \cup R : f[x] \in Int
  BY <1>2
<1>4. SumFunctionOnSet(f, S \cup R) = SumFunctionOnSet(f, S) + SumFunctionOnSet(f, R)
  BY <1>2, <1>3, SumJoin
<1>5. SumFunctionOnSet(f, S) \in Nat /\ SumFunctionOnSet(f, R) \in Nat
  BY <1>2, <1>3, SumNat
<1>6. ASSUME \A x \in T \ S : f[x] = 0 PROVE SumFunctionOnSet(f, R) = 0
  BY <1>1, <1>2, <1>6, SumZero
<1>7. SumFunctionOnSet(f, T) = SumFunctionOnSet(f, S) + SumFunctionOnSet(f, R)
  BY <1>2, <1>4, Zenon
<1>8. SumFunctionOnSet(f, T) \in Nat /\ SumFunctionOnSet(f, S) <= SumFunctionOnSet(f, T)
  BY <1>5, <1>7
<1>9. ASSUME \A x \in T \ S : f[x] = 0 PROVE SumFunctionOnSet(f, S) = SumFunctionOnSet(f, T)
  BY <1>5, <1>6, <1>7, <1>9
<1> QED
  BY <1>5, <1>8, <1>9

LEMMA SumSupport ==
  ASSUME NEW T, IsFiniteSet(T), NEW S \in SUBSET T, NEW f, \A x \in T : f[x] \in Nat,
         \A x \in T \ S : f[x] = 0
  PROVE  SumFunctionOnSet(f, S) = SumFunctionOnSet(f, T)
BY SumWithin

-----------------------------------------------------------------------------
(* A sequence at some of its indices.                                      *)

\* How many of a set's numbers are no greater than i.
UpTo(I, i) == Cardinality({j \in I : j <= i})

\* It grows with i, and by one from each number of the set to the next.
LEMMA UpToIs ==
  ASSUME NEW I \in SUBSET Nat, IsFiniteSet(I)
  PROVE  /\ Cardinality(I) \in Nat
         /\ \A i \in I : UpTo(I, i) \in 1..Cardinality(I)
         /\ \A i, j \in I : i < j => UpTo(I, i) < UpTo(I, j)
<1>1. \A i \in Nat : {j \in I : j <= i} \in SUBSET I
  OBVIOUS
<1>2. \A i \in Nat : /\ IsFiniteSet({j \in I : j <= i})
                     /\ Cardinality({j \in I : j <= i}) \in Nat
                     /\ Cardinality({j \in I : j <= i}) <= Cardinality(I)
  BY <1>1, FS_Subset, FS_CardinalityType
<1>3. Cardinality(I) \in Nat
  BY FS_CardinalityType
<1>4. ASSUME NEW i \in I PROVE UpTo(I, i) \in 1..Cardinality(I)
  <2>1. {i} \subseteq {j \in I : j <= i}
    OBVIOUS
  <2>2. Cardinality({i}) = 1 /\ Cardinality({i}) <= Cardinality({j \in I : j <= i})
    BY <1>2, <2>1, FS_Subset, FS_Singleton
  <2> QED
    BY <1>2, <1>3, <2>2 DEF UpTo
<1>5. ASSUME NEW i \in I, NEW j \in I, i < j PROVE UpTo(I, i) < UpTo(I, j)
  <2> DEFINE A == {x \in I : x <= i}
             B == {x \in I : x <= j}
  <2>1. A \in SUBSET B /\ j \in B /\ j \notin A
    <3>1. i \in Int /\ j \in Int /\ \A x \in I : x \in Int
      OBVIOUS
    <3>2. \A x \in I : x <= i => x <= j
      BY <1>5, <3>1
    <3>3. ~(j <= i) /\ j <= j
      BY <1>5, <3>1
    <3> QED
      BY <3>2, <3>3
  <2>2. IsFiniteSet(B) /\ Cardinality(A) \in Nat /\ Cardinality(B) \in Nat
    BY <1>2
  <2> HIDE DEF A, B
  <2>3. Cardinality(A) <= Cardinality(B) /\ Cardinality(A) # Cardinality(B)
    <3>1. A # B
      BY <2>1
    <3> QED
      BY <2>1, <2>2, <3>1, FS_Subset
  <2>4. Cardinality(A) < Cardinality(B)
    BY <2>2, <2>3
  <2> QED
    BY <2>4 DEF A, B, UpTo
<1> QED
  BY <1>3, <1>4, <1>5

\* The k-th number of a set is in it, and k of the set's are no greater.
LEMMA NthIs ==
  ASSUME NEW I \in SUBSET Nat, IsFiniteSet(I), NEW k \in 1..Cardinality(I)
  PROVE  Nth(I, k) \in I /\ UpTo(I, Nth(I, k)) = k
<1> DEFINE T == {i \in I : UpTo(I, i) >= k}
<1>1. Cardinality(I) \in Nat
  BY FS_CardinalityType
<1>2. \A i \in I : UpTo(I, i) \in 1..Cardinality(I)
  BY UpToIs
<1>3. T # {}
  <2>1. I # {}
    <3>1. I = {} => Cardinality(I) = 0
      BY FS_EmptySet, Zenon
    <3> QED
      BY <1>1, <3>1
  <2>2. Max(I) \in I /\ \A x \in I : x <= Max(I)
    BY <2>1, FiniteMax
  <2>3. {j \in I : j <= Max(I)} = I
    BY <2>2
  <2>4. UpTo(I, Max(I)) = Cardinality(I)
    BY <2>3 DEF UpTo
  <2> QED
    BY <1>1, <2>2, <2>4
<1>4. PICK i \in T : \A y \in T : i <= y
  BY <1>3, SmallestOf
<1>5. UpTo(I, i) = k
  <2> DEFINE A == {j \in I : j <= i}
             B == {j \in I : j < i}
  <2>1. A = B \cup {i} /\ i \notin B /\ B \in SUBSET I
    <3>1. \A x \in I : x <= i <=> x < i \/ x = i
      OBVIOUS
    <3>2. i \in I /\ ~(i < i)
      OBVIOUS
    <3> HIDE DEF T
    <3> QED
      BY <3>1, <3>2
  <2>2. IsFiniteSet(B) /\ Cardinality(B) \in Nat
    BY <2>1, FS_Subset, FS_CardinalityType
  <2>3. Cardinality(A) = Cardinality(B) + 1
    <3> HIDE DEF A, B
    <3> QED
      BY <2>1, <2>2, FS_AddElement
  <2>4. Cardinality(B) < k
    <3>1. CASE B = {}
      BY <3>1, FS_EmptySet
    <3>2. CASE B # {}
      <4>1. PICK m \in B : \A x \in B : x <= m
        <5> HIDE DEF B
        <5>1. B \in SUBSET Int
          BY <2>1
        <5>2. Max(B) \in B /\ \A x \in B : x <= Max(B)
          BY <2>2, <3>2, <5>1, FiniteMax
        <5> QED
          BY <5>2
      <4>2. m \in I /\ m < i /\ i \in Nat /\ \A j \in I : j \in Nat
        OBVIOUS
      <4>3. \A j \in I : j <= m <=> j < i
        <5>1. \A j \in I : j < i => j <= m
          BY <4>1
        <5>2. \A j \in I : j <= m => j < i
          BY <4>2
        <5> QED
          BY <5>1, <5>2
      <4>4. {j \in I : j <= m} = B
        BY <4>3
      <4>5. ~(i <= m)
        BY <4>2
      <4>6. ~(UpTo(I, m) >= k)
        BY <1>4, <4>2, <4>5
      <4>7. UpTo(I, m) = Cardinality(B)
        BY <4>4 DEF UpTo
      <4> QED
        BY <2>2, <4>6, <4>7
    <3> QED
      BY <3>1, <3>2
  <2>5. UpTo(I, i) = Cardinality(A)
    BY DEF UpTo
  <2> QED
    BY <1>4, <2>2, <2>3, <2>4, <2>5
<1>6. \E x \in I : Cardinality({j \in I : j <= x}) = k
  BY <1>5 DEF UpTo
<1> QED
  BY <1>6 DEF Nth, UpTo

\* Different ones are in order, and each number of the set is one of them.
LEMMA NthOrder ==
  ASSUME NEW I \in SUBSET Nat, IsFiniteSet(I)
  PROVE  /\ \A k, m \in 1..Cardinality(I) : k < m => Nth(I, k) < Nth(I, m)
         /\ \A i \in I : UpTo(I, i) \in 1..Cardinality(I) /\ Nth(I, UpTo(I, i)) = i
<1>1. \A k \in 1..Cardinality(I) : Nth(I, k) \in I /\ UpTo(I, Nth(I, k)) = k
  BY NthIs
<1>2. /\ \A i \in I : UpTo(I, i) \in 1..Cardinality(I)
      /\ \A i, j \in I : i < j => UpTo(I, i) < UpTo(I, j)
      /\ Cardinality(I) \in Nat
  BY UpToIs
<1>3. ASSUME NEW k \in 1..Cardinality(I), NEW m \in 1..Cardinality(I), k < m
      PROVE  Nth(I, k) < Nth(I, m)
  <2>1. PICK i \in I, j \in I : i = Nth(I, k) /\ j = Nth(I, m) /\ UpTo(I, i) = k /\ UpTo(I, j) = m
    BY <1>1
  <2>2. i \in Nat /\ j \in Nat /\ i # j /\ ~(j < i)
    BY <1>2, <1>3, <2>1
  <2> QED
    BY <2>1, <2>2
<1>4. ASSUME NEW i \in I PROVE Nth(I, UpTo(I, i)) = i
  <2>1. PICK j \in I : j = Nth(I, UpTo(I, i)) /\ UpTo(I, j) = UpTo(I, i)
    BY <1>1, <1>2
  <2>2. i \in Nat /\ j \in Nat /\ UpTo(I, i) \in Nat /\ ~(i < j) /\ ~(j < i)
    BY <1>2, <2>1
  <2> QED
    BY <2>1, <2>2
<1> QED
  BY <1>2, <1>3, <1>4

\* All indices from 1 on.
LEMMA NthOfAll ==
  ASSUME NEW n \in Nat
  PROVE  \A k \in 1..n : Nth(1..n, k) = k
<1>1. IsFiniteSet(1..n) /\ Cardinality(1..n) = n /\ 1..n \in SUBSET Nat
  BY FS_Interval
<1>2. \A k \in 1..n : UpTo(1..n, k) = k
  <2>1. \A k \in 1..n : {j \in 1..n : j <= k} = 1..k /\ Cardinality(1..k) = k
    BY FS_Interval
  <2> QED
    BY <2>1 DEF UpTo
<1>3. \A k \in 1..n : Nth(1..n, UpTo(1..n, k)) = k
  BY <1>1, NthOrder
<1> QED
  BY <1>2, <1>3

\* What a filtered sequence holds: as many elements as there are indices, each
\* once and in order.
LEMMA OnlyIs ==
  ASSUME NEW s, NEW n \in Nat, NEW I \in SUBSET (1..n)
  PROVE  /\ IsFiniteSet(I) /\ Cardinality(I) \in 0..n
         /\ DOMAIN Only(s, I) = 1..Cardinality(I)
         /\ Len(Only(s, I)) = Cardinality(I)
         /\ \A k \in 1..Cardinality(I) : Only(s, I)[k] = s[Nth(I, k)] /\ Nth(I, k) \in I
         /\ \A k, m \in 1..Cardinality(I) : k < m => Nth(I, k) < Nth(I, m)
         /\ \A i \in I : UpTo(I, i) \in 1..Cardinality(I) /\ Only(s, I)[UpTo(I, i)] = s[i]
         /\ \A T : (\A i \in I : s[i] \in T) => Only(s, I) \in Seq(T)
<1>1. IsFiniteSet(1..n) /\ Cardinality(1..n) = n
  BY FS_Interval
<1>2. IsFiniteSet(I) /\ Cardinality(I) <= n /\ I \in SUBSET Nat
  <2>1. IsFiniteSet(I) /\ Cardinality(I) <= Cardinality(1..n)
    BY <1>1, FS_Subset, Zenon
  <2> QED
    BY <1>1, <2>1
<1>3. Cardinality(I) \in 0..n
  BY <1>2, FS_CardinalityType
<1>4. DOMAIN Only(s, I) = 1..Cardinality(I)
  BY DEF Only
<1>5. \A k \in 1..Cardinality(I) : Only(s, I)[k] = s[Nth(I, k)] /\ Nth(I, k) \in I
  BY <1>2, NthIs DEF Only
<1>6. /\ \A k, m \in 1..Cardinality(I) : k < m => Nth(I, k) < Nth(I, m)
      /\ \A i \in I : UpTo(I, i) \in 1..Cardinality(I) /\ Nth(I, UpTo(I, i)) = i
  BY <1>2, NthOrder
<1>7. \A i \in I : Only(s, I)[UpTo(I, i)] = s[i]
  BY <1>5, <1>6
<1>8. Len(Only(s, I)) = Cardinality(I)
  BY <1>3, <1>4 DEF Only
<1>9. ASSUME NEW T, \A i \in I : s[i] \in T PROVE Only(s, I) \in Seq(T)
  <2>1. \A k \in 1..Cardinality(I) : s[Nth(I, k)] \in T
    BY <1>5, <1>9
  <2>2. Only(s, I) \in [1..Cardinality(I) -> T]
    BY <2>1 DEF Only
  <2> QED
    BY <1>3, <2>2
<1> QED
  BY <1>2, <1>3, <1>4, <1>5, <1>6, <1>7, <1>8, <1>9

\* The same, with the indices in their order as a sequence.
Takes(t, at, s, I) ==
  /\ DOMAIN t = 1..Len(t) /\ Len(t) = Cardinality(I)
  /\ at \in [1..Len(t) -> I]
  /\ \A k \in 1..Len(t) : t[k] = s[at[k]]
  /\ \A k, l \in 1..Len(t) : k < l => at[k] < at[l]
  /\ \A i \in I : \E k \in 1..Len(t) : at[k] = i

LEMMA OnlyAt ==
  ASSUME NEW s, NEW n \in Nat, NEW I \in SUBSET (1..n)
  PROVE  Len(Only(s, I)) \in 0..n /\ \E at : Takes(Only(s, I), at, s, I)
<1> DEFINE m == Cardinality(I)
           at == [k \in 1..m |-> Nth(I, k)]
           t == Only(s, I)
<1>1. /\ m \in 0..n
      /\ DOMAIN t = 1..m /\ Len(t) = m
      /\ \A k \in 1..m : t[k] = s[Nth(I, k)] /\ Nth(I, k) \in I
      /\ \A k, l \in 1..m : k < l => Nth(I, k) < Nth(I, l)
  BY OnlyIs
<1>2. IsFiniteSet(I) /\ I \in SUBSET Nat
  <2>1. IsFiniteSet(I)
    BY OnlyIs
  <2>2. \A i \in 1..n : i \in Nat
    OBVIOUS
  <2> QED
    BY <2>1, <2>2
<1>3. \A i \in I : UpTo(I, i) \in 1..m /\ Nth(I, UpTo(I, i)) = i
  BY <1>2, NthOrder
<1> HIDE DEF t
<1>4. Takes(t, at, s, I)
  <2>1. at \in [1..m -> I] /\ \A k \in 1..m : at[k] = Nth(I, k)
    BY <1>1
  <2>2. \A k \in 1..m : t[k] = s[at[k]]
    BY <1>1, <2>1
  <2>3. \A k, l \in 1..m : k < l => at[k] < at[l]
    BY <1>1, <2>1
  <2>4. \A i \in I : \E k \in 1..m : at[k] = i
    BY <1>3, <2>1
  <2> HIDE DEF at
  <2> QED
    BY <1>1, <2>1, <2>2, <2>3, <2>4 DEF Takes
<1> HIDE DEF at, m
<1> QED
  BY <1>1, <1>4 DEF t

LEMMA OnlyEmpty ==
  ASSUME NEW s, NEW n \in Nat, NEW I \in SUBSET (1..n)
  PROVE  Only(s, I) = <<>> <=> I = {}
<1>1. IsFiniteSet(I) /\ Len(Only(s, I)) = Cardinality(I) /\ DOMAIN Only(s, I) = 1..Cardinality(I)
  BY OnlyIs
<1>2. Cardinality(I) = 0 <=> I = {}
  BY <1>1, FS_EmptySet
<1>3. Cardinality(I) = 0 => Only(s, I) = <<>>
  BY DEF Only
<1>4. Only(s, I) = <<>> => Cardinality(I) = 0
  BY <1>1
<1> QED
  BY <1>2, <1>3, <1>4

-----------------------------------------------------------------------------
(* Folds from the left.                                                    *)

\* A fold over the indices of a sequence that takes the greatest one last has
\* a value for each set of them.
IsLastFold(w, n, base, g) ==
  \A s \in SUBSET (1..n) : /\ s # {} => Max(s) \in s
                           /\ w[s] = IF s = {} THEN base ELSE g[Max(s)][w[s \ {Max(s)}]]

LEMMA LastExists ==
  ASSUME NEW n \in Nat, NEW T, NEW base, base \in T, NEW g, StaysIn(g, 1..n, T)
  PROVE  \E w \in [SUBSET (1..n) -> T] : IsLastFold(w, n, base, g)
<1>1. PICK c : c = [s \in SUBSET (1..n) |-> Max(s)]
  OBVIOUS
<1>2. ASSUME NEW s \in SUBSET (1..n), s # {} PROVE Max(s) \in s
  <2>1. s \in SUBSET (0..n)
    OBVIOUS
  <2> QED
    BY <1>2, <2>1, LargestIs
<1>3. IsFiniteSet(1..n) /\ Picks(c, 1..n)
  <2>1. IsFiniteSet(1..n)
    BY FS_Interval
  <2>2. \A s \in SUBSET (1..n) : s # {} => c[s] \in s
    BY <1>1, <1>2
  <2> QED
    BY <2>1, <2>2 DEF Picks
<1>4. PICK w \in [SUBSET (1..n) -> T] : IsFold(w, 1..n, c, base, g)
  BY <1>3, FoldExists
<1>5. \A s \in SUBSET (1..n) : w[s] = IF s = {} THEN base ELSE g[Max(s)][w[s \ {Max(s)}]]
  BY <1>1, <1>4 DEF IsFold
<1>6. IsLastFold(w, n, base, g)
  BY <1>2, <1>5 DEF IsLastFold
<1> QED
  BY <1>6

\* From one prefix to the next.
LEMMA LastOfPrefix ==
  ASSUME NEW k \in Nat \ {0}
  PROVE  Max(1..k) = k /\ (1..k) \ {k} = 1..(k - 1) /\ 1..k # {}
<1>1. 1..k \in SUBSET (0..k) /\ k \in 1..k /\ 1..k # {}
  OBVIOUS
<1>2. Max(1..k) \in 1..k /\ \A x \in 1..k : x <= Max(1..k)
  BY <1>1, LargestIs
<1>3. Max(1..k) = k
  BY <1>1, <1>2
<1> QED
  BY <1>1, <1>3

\* The mean of rates, one rate after another.
LEMMA MeanIs ==
  ASSUME NEW s \in Seq(Int \X Int)
  PROVE  \E acc \in [0..Len(s) -> Int \X Int] :
           /\ acc[0] = <<0, 1>>
           /\ \A k \in 1..Len(s) : acc[k] = <<acc[k - 1][1] * s[k][2] + s[k][1] * acc[k - 1][2],
                                              acc[k - 1][2] * s[k][2]>>
           /\ MeanRate(s) = <<acc[Len(s)][1], acc[Len(s)][2] * Len(s)>>
<1> DEFINE n == Len(s)
           op(p, q) == <<p[1] * q[2] + q[1] * p[2], p[2] * q[2]>>
           body(h) == [r \in SUBSET DOMAIN s |-> IF r = {} THEN <<0, 1>>
                                                 ELSE op(h[r \ {Max(r)}], s[Max(r)])]
           iter == CHOOSE h : h = body(h)
<1>1. n \in Nat /\ DOMAIN s = 1..n /\ \A k \in 1..n : s[k] \in Int \X Int
  OBVIOUS
<1>2. MeanRate(s) = <<iter[DOMAIN s][1], iter[DOMAIN s][2] * n>>
  BY DEF MeanRate, FoldLeft, MapThenFoldSet
<1>3. \A p, q \in Int \X Int : op(p, q) \in Int \X Int
  OBVIOUS
<1> HIDE DEF op
<1>4. PICK g : g = [k \in 1..n |-> [p \in Int \X Int |-> op(p, s[k])]]
  OBVIOUS
<1>5. StaysIn(g, 1..n, Int \X Int)
  BY <1>1, <1>3, <1>4 DEF StaysIn
<1>6. PICK w \in [SUBSET (1..n) -> Int \X Int] : IsLastFold(w, n, <<0, 1>>, g)
  <2>1. PICK T, z, m : T = Int \X Int /\ z = <<0, 1>> /\ m = n
    OBVIOUS
  <2> HIDE DEF n
  <2>2. m \in Nat /\ z \in T /\ StaysIn(g, 1..m, T)
    BY <1>1, <1>5, <2>1
  <2>3. \E v \in [SUBSET (1..m) -> T] : IsLastFold(v, m, z, g)
    BY <2>2, LastExists, Zenon
  <2> QED
    BY <2>1, <2>3
<1>7. w = body(w)
  <2>1. ASSUME NEW r \in SUBSET (1..n)
        PROVE  w[r] = IF r = {} THEN <<0, 1>> ELSE op(w[r \ {Max(r)}], s[Max(r)])
    <3>1. r # {} => Max(r) \in 1..n /\ w[r \ {Max(r)}] \in Int \X Int
      BY <1>6 DEF IsLastFold
    <3> QED
      BY <1>4, <1>6, <3>1 DEF IsLastFold
  <2>2. w = [r \in SUBSET (1..n) |-> w[r]]
    OBVIOUS
  <2> HIDE DEF n
  <2> QED
    BY <1>1, <2>1, <2>2
<1>8. iter = body(iter)
  <2> HIDE DEF body
  <2> QED
    BY <1>7
<1>9. \A r \in SUBSET (1..n) : iter[r] = IF r = {} THEN <<0, 1>> ELSE op(iter[r \ {Max(r)}], s[Max(r)])
  <2> HIDE DEF iter, n
  <2> QED
    BY <1>1, <1>8
<1> DEFINE acc == [k \in 0..n |-> iter[1..k]]
<1> HIDE DEF iter, n
<1>10. acc[0] = <<0, 1>>
  <2>1. 1..0 = {} /\ {} \in SUBSET (1..n) /\ 0 \in 0..n
    BY <1>1
  <2> QED
    BY <1>9, <2>1
<1>11. ASSUME NEW k \in 1..n PROVE acc[k] = op(acc[k - 1], s[k])
  <2>1. k \in Nat \ {0} /\ k \in 0..n /\ k - 1 \in 0..n /\ 1..k \in SUBSET (1..n)
    BY <1>1
  <2>2. Max(1..k) = k /\ (1..k) \ {k} = 1..(k - 1) /\ 1..k # {}
    BY <2>1, LastOfPrefix
  <2>3. iter[1..k] = op(iter[1..(k - 1)], s[k])
    BY <1>9, <2>1, <2>2
  <2> QED
    BY <2>1, <2>3
<1> HIDE DEF acc
<1>12. \A k \in 0..n : acc[k] \in Int \X Int
  <2>1. PICK P : P = {k \in Nat : k <= n => acc[k] \in Int \X Int}
    OBVIOUS
  <2>2. P \in SUBSET Nat /\ 0 \in P
    <3>1. acc[0] \in Int \X Int
      <4>1. <<0, 1>> \in Int \X Int
        OBVIOUS
      <4> QED
        BY <1>10, <4>1
    <3> QED
      BY <2>1, <3>1
  <2>3. ASSUME NEW k \in P PROVE k + 1 \in P
    <3>1. k \in Nat /\ (k <= n => acc[k] \in Int \X Int)
      BY <2>1
    <3>2. ASSUME k + 1 <= n PROVE acc[k + 1] \in Int \X Int
      <4>1. n \in Nat
        BY <1>1
      <4>2. k + 1 \in 1..n /\ (k + 1) - 1 = k /\ k <= n
        BY <3>1, <3>2, <4>1
      <4>3. acc[k + 1] = op(acc[k], s[k + 1])
        BY <1>11, <4>2
      <4>4. s[k + 1] \in Int \X Int
        BY <1>1, <4>2
      <4> QED
        BY <1>3, <3>1, <4>2, <4>3, <4>4
    <3>3. k + 1 \in Nat
      BY <3>1
    <3> QED
      BY <2>1, <3>2, <3>3
  <2>4. P = Nat
    BY <2>2, <2>3, EveryNat
  <2> QED
    BY <1>1, <2>1, <2>4
<1>13. MeanRate(s) = <<acc[n][1], acc[n][2] * n>>
  <2>1. acc[n] = iter[DOMAIN s]
    <3>1. n \in 0..n
      BY <1>1
    <3> QED
      BY <1>1, <3>1 DEF acc
  <2> QED
    BY <1>2, <2>1
<1>14. acc = [k \in 0..n |-> acc[k]]
  BY DEF acc
<1>15. acc \in [0..n -> Int \X Int]
  BY <1>12, <1>14
<1> QED
  BY <1>10, <1>11, <1>13, <1>15 DEF op, n

-----------------------------------------------------------------------------
(* Rates from the slowest to the fastest.                                  *)

RateDoc == Int \X (Nat \ {0})

LEMMA SlowerOrder ==
  ASSUME NEW p \in RateDoc, NEW q \in RateDoc, NEW r \in RateDoc
  PROVE  /\ Slower(p, q) => ~Slower(q, p)
         /\ ~Slower(q, p) /\ ~Slower(r, q) => ~Slower(r, p)
<1>1. /\ p[1] \in Int /\ q[1] \in Int /\ r[1] \in Int
      /\ p[2] \in Nat /\ q[2] \in Nat /\ r[2] \in Nat
      /\ p[2] > 0 /\ q[2] > 0 /\ r[2] > 0
  BY DEF RateDoc
<1>2. ASSUME NEW a \in Int, NEW b \in Int, a * 1 \in Int, NEW c \in Nat, c > 0, a * c <= b * c
      PROVE  a <= b
  BY <1>2
<1>3. ASSUME NEW a \in Int, NEW b \in Int, NEW c \in Nat, a <= b
      PROVE  a * c <= b * c
  BY <1>3
<1>4. Slower(p, q) => ~Slower(q, p)
  <2>1. p[1] * q[2] \in Int /\ q[1] * p[2] \in Int
    BY <1>1
  <2> QED
    BY <2>1 DEF Slower
<1>5. ASSUME ~Slower(q, p), ~Slower(r, q) PROVE ~Slower(r, p)
  <2>1. PICK a, b, c, d, e, f : /\ a = p[1] * q[2] /\ b = q[1] * p[2]
                                /\ c = q[1] * r[2] /\ d = r[1] * q[2]
                                /\ e = p[1] * r[2] /\ f = r[1] * p[2]
    OBVIOUS
  <2>2. a \in Int /\ b \in Int /\ c \in Int /\ d \in Int /\ e \in Int /\ f \in Int
    BY <1>1, <2>1
  <2>3. a <= b /\ c <= d
    BY <1>5, <2>1, <2>2 DEF Slower
  <2>4. a * r[2] <= b * r[2] /\ c * p[2] <= d * p[2]
    BY <1>1, <1>3, <2>2, <2>3
  <2>5. a * r[2] = e * q[2] /\ b * r[2] = c * p[2] /\ d * p[2] = f * q[2]
    BY <1>1, <2>1
  <2>6. e * q[2] <= f * q[2]
    BY <1>1, <2>2, <2>4, <2>5
  <2>7. e <= f
    BY <1>1, <1>2, <2>2, <2>6
  <2> QED
    BY <2>1, <2>2, <2>7 DEF Slower
<1> QED
  BY <1>4, <1>5

\* How many rates of a sequence are no faster than its j-th.
Rank(s, j) == Cardinality({i \in DOMAIN s : ~Slower(s[j], s[i])})

LEMMA RankIs ==
  ASSUME NEW s \in Seq(RateDoc)
  PROVE  /\ \A j \in DOMAIN s : Rank(s, j) \in 0 .. Len(s)
         /\ \A i, j \in DOMAIN s : Slower(s[j], s[i]) => Rank(s, j) < Rank(s, i)
<1>1. PICK n \in Nat : n = Len(s) /\ DOMAIN s = 1 .. n /\ \A j \in 1 .. n : s[j] \in RateDoc
  OBVIOUS
<1>2. IsFiniteSet(1 .. n) /\ Cardinality(1 .. n) = n
  BY FS_Interval
<1>3. ASSUME NEW j \in 1 .. n PROVE Rank(s, j) \in 0 .. n
  <2>1. PICK A : A = {i \in 1 .. n : ~Slower(s[j], s[i])}
    OBVIOUS
  <2>2. A \in SUBSET (1 .. n)
    BY <2>1
  <2>3. Cardinality(A) \in Nat /\ Cardinality(A) <= n
    BY <1>2, <2>2, FS_Subset, FS_CardinalityType
  <2> QED
    BY <1>1, <2>1, <2>3 DEF Rank
<1>4. ASSUME NEW i \in 1 .. n, NEW j \in 1 .. n, Slower(s[j], s[i]) PROVE Rank(s, j) < Rank(s, i)
  <2>1. PICK A, B : /\ A = {k \in 1 .. n : ~Slower(s[j], s[k])}
                    /\ B = {k \in 1 .. n : ~Slower(s[i], s[k])}
    OBVIOUS
  <2>2. i \notin A /\ i \in B
    <3>1. ~Slower(s[i], s[i])
      BY <1>1, SlowerOrder
    <3> QED
      BY <1>4, <2>1, <3>1
  <2>3. A \in SUBSET B
    <3>1. ASSUME NEW k \in A PROVE k \in B
      <4>1. k \in 1 .. n /\ ~Slower(s[j], s[k])
        BY <2>1
      <4>2. ~Slower(s[i], s[j])
        BY <1>1, <1>4, SlowerOrder
      <4>3. ~Slower(s[i], s[k])
        BY <1>1, <4>1, <4>2, SlowerOrder
      <4> QED
        BY <2>1, <4>1, <4>3
    <3> QED
      BY <3>1
  <2>4. IsFiniteSet(B)
    BY <1>2, <2>1, FS_Subset
  <2>5. Cardinality(A) < Cardinality(B)
    <3>1. IsFiniteSet(A)
      BY <2>3, <2>4, FS_Subset
    <3>2. Cardinality(A) <= Cardinality(B) /\ (Cardinality(A) = Cardinality(B) => A = B)
      BY <2>3, <2>4, FS_Subset
    <3>3. Cardinality(A) \in Nat /\ Cardinality(B) \in Nat
      BY <2>4, <3>1, FS_CardinalityType
    <3> QED
      BY <2>2, <3>2, <3>3
  <2> QED
    BY <1>1, <2>1, <2>5 DEF Rank
<1> QED
  BY <1>1, <1>3, <1>4

\* Of some rates one is the fastest.
LEMMA FastestIs ==
  ASSUME NEW s \in Seq(RateDoc), NEW B \in SUBSET DOMAIN s, B # {}
  PROVE  \E k \in B : \A i \in B : ~Slower(s[k], s[i])
<1>1. PICK S : S = {Rank(s, j) : j \in B}
  OBVIOUS
<1>2. S \in SUBSET (0 .. Len(s)) /\ S # {} /\ Len(s) \in Nat
  BY <1>1, RankIs
<1>3. PICK x \in S : \A y \in S : y <= x
  BY <1>2, LargestIs
<1>4. PICK k \in B : x = Rank(s, k)
  BY <1>1
<1>5. ASSUME NEW i \in B, Slower(s[k], s[i]) PROVE FALSE
  <2>1. Rank(s, k) < Rank(s, i)
    BY <1>5, RankIs
  <2>2. Rank(s, i) \in S /\ Rank(s, i) <= x
    BY <1>1, <1>3
  <2>3. Rank(s, i) \in Nat /\ Rank(s, k) \in Nat
    BY RankIs
  <2> QED
    BY <1>4, <2>1, <2>2, <2>3
<1> QED
  BY <1>5

\* The upper median of rates is one of them.
LEMMA MedianIs ==
  ASSUME NEW s \in Seq(RateDoc), s # <<>>
  PROVE  UpperMedian(s) \in {s[i] : i \in DOMAIN s}
<1>1. PICK n \in Nat \ {0} : n = Len(s) /\ DOMAIN s = 1 .. n /\ \A j \in 1 .. n : s[j] \in RateDoc
  OBVIOUS
<1>2. PICK half \in Nat : half = n \div 2 /\ half < n
  OBVIOUS
<1>3. IsFiniteSet(1 .. n) /\ Cardinality(1 .. n) = n
  BY FS_Interval
<1>4. PICK A : A = {j \in 1 .. n : Rank(s, j) > half}
  OBVIOUS
<1>5. A # {}
  <2>1. 1 .. n \in SUBSET DOMAIN s /\ 1 .. n # {}
    BY <1>1
  <2>2. PICK k \in 1 .. n : \A i \in 1 .. n : ~Slower(s[k], s[i])
    BY <2>1, FastestIs
  <2>3. {i \in 1 .. n : ~Slower(s[k], s[i])} = 1 .. n
    BY <2>2
  <2>4. Rank(s, k) = n
    BY <1>1, <1>3, <2>3 DEF Rank
  <2> QED
    BY <1>2, <1>4, <2>4
<1>6. PICK m \in A : \A j \in A : Rank(s, m) <= Rank(s, j)
  <2>1. PICK S : S = {Rank(s, j) : j \in A}
    OBVIOUS
  <2>2. S \in SUBSET Nat /\ S # {}
    BY <1>1, <1>4, <1>5, <2>1, RankIs
  <2>3. PICK x \in S : \A y \in S : x <= y
    BY <2>2, SmallestOf
  <2> QED
    BY <2>1, <2>3
<1>7. m \in 1 .. n /\ Rank(s, m) > half /\ Rank(s, m) \in Nat
  BY <1>1, <1>4, RankIs
<1>8. PICK B : B = {i \in 1 .. n : Slower(s[i], s[m])}
  OBVIOUS
<1>9. Cardinality(B) <= half
  <2>1. B \in SUBSET (1 .. n)
    BY <1>8
  <2>2. IsFiniteSet(B) /\ Cardinality(B) \in Nat
    BY <1>3, <2>1, FS_Subset, FS_CardinalityType
  <2>0. SUFFICES ASSUME Cardinality(B) > half PROVE FALSE
    BY <1>2, <2>2
  <2>3. B # {}
    <3>1. Cardinality({}) = 0
      BY FS_EmptySet
    <3> QED
      <4>1. B = {} => Cardinality(B) = 0
        BY <3>1, Zenon
      <4> QED
        BY <1>2, <2>0, <4>1
  <2>4. PICK k \in B : \A i \in B : ~Slower(s[k], s[i])
    <3>1. B \in SUBSET DOMAIN s
      BY <1>1, <2>1
    <3> QED
      BY <2>3, <3>1, FastestIs
  <2>5. k \in 1 .. n /\ Slower(s[k], s[m])
    BY <1>8
  <2>6. Rank(s, k) < Rank(s, m)
    BY <1>1, <1>7, <2>5, RankIs
  <2>7. Cardinality(B) <= Rank(s, k)
    <3>1. PICK D : D = {i \in 1 .. n : ~Slower(s[k], s[i])}
      OBVIOUS
    <3>2. B \in SUBSET D /\ D \in SUBSET (1 .. n)
      BY <2>1, <2>4, <3>1
    <3>3. IsFiniteSet(D)
      BY <1>3, <3>2, FS_Subset
    <3>4. Cardinality(B) <= Cardinality(D)
      BY <3>2, <3>3, FS_Subset
    <3> QED
      BY <1>1, <3>1, <3>4 DEF Rank
  <2>8. Rank(s, k) \in Nat
    BY <1>1, <2>5, RankIs
  <2>9. k \in A
    BY <1>2, <1>4, <2>0, <2>2, <2>5, <2>7, <2>8
  <2> QED
    BY <1>6, <1>7, <2>6, <2>8, <2>9
<1>10. \E x \in ToSet(s) : /\ Cardinality({i \in DOMAIN s : Slower(s[i], x)}) <= Len(s) \div 2
                           /\ Cardinality({i \in DOMAIN s : ~Slower(x, s[i])}) > Len(s) \div 2
  <2>1. s[m] \in ToSet(s)
    BY <1>1, <1>7 DEF ToSet
  <2>2. /\ Cardinality({i \in DOMAIN s : Slower(s[i], s[m])}) <= Len(s) \div 2
        /\ Cardinality({i \in DOMAIN s : ~Slower(s[m], s[i])}) > Len(s) \div 2
    BY <1>1, <1>2, <1>7, <1>8, <1>9 DEF Rank
  <2> QED
    BY <2>1, <2>2
<1>11. UpperMedian(s) \in ToSet(s)
  BY <1>10 DEF UpperMedian
<1> QED
  BY <1>11 DEF ToSet

-----------------------------------------------------------------------------
(* Totals.                                                                 *)

\* A sum in another order.
Moves(S, at, T) == T = {at[x] : x \in S} /\ \A x, y \in S : at[x] = at[y] => x = y

Along(h, at, f, S) == \A x \in S : f[at[x]] \in Int /\ h[x] = f[at[x]]

LEMMA SumMoved ==
  ASSUME NEW S, IsFiniteSet(S), NEW T, IsFiniteSet(T), NEW at, Moves(S, at, T),
         NEW h, NEW f, Along(h, at, f, S)
  PROVE  SumFunctionOnSet(h, S) = SumFunctionOnSet(f, T)
<1> USE DEF Moves, Along
<1> DEFINE img(s) == {at[x] : x \in s}
           P == {s \in SUBSET S : SumFunctionOnSet(h, s) = SumFunctionOnSet(f, img(s))}
<1>1. ASSUME NEW s \in SUBSET S
      PROVE  /\ IsFiniteSet(s) /\ IsFiniteSet(img(s))
             /\ (\A x \in s : h[x] \in Int) /\ \A y \in img(s) : f[y] \in Int
  <2>1. IsFiniteSet(s)
    BY FS_Subset
  <2>2. IsFiniteSet(img(s))
    <3>1. img(s) \in SUBSET T
      OBVIOUS
    <3> QED
      BY <3>1, FS_Subset
  <2> QED
    BY <2>1, <2>2
<1>2. {} \in P
  <2>1. img({}) = {}
    OBVIOUS
  <2>2. SumFunctionOnSet(h, {}) = 0 /\ SumFunctionOnSet(f, {}) = 0
    BY SumZero, FS_EmptySet
  <2> QED
    BY <2>1, <2>2
<1>3. ASSUME NEW s \in P, NEW x \in S \ s PROVE s \cup {x} \in P
  <2>1. PICK t, u, v, y : t = s \cup {x} /\ u = img(t) /\ v = img(s) /\ y = at[x]
    OBVIOUS
  <2>2. t \in SUBSET S /\ x \in t /\ t \ {x} = s
    BY <2>1
  <2>3. y \in u /\ u \ {y} = v
    <3>1. y \notin v
      BY <2>1
    <3> QED
      BY <2>1, <3>1
  <2>4. /\ IsFiniteSet(t) /\ IsFiniteSet(u) /\ IsFiniteSet(s) /\ IsFiniteSet(v)
        /\ (\A z \in t : h[z] \in Int) /\ (\A z \in u : f[z] \in Int)
        /\ (\A z \in s : h[z] \in Int) /\ (\A z \in v : f[z] \in Int)
    BY <1>1, <2>1, <2>2
  <2> HIDE DEF img
  <2>5. SumFunctionOnSet(h, t) = h[x] + SumFunctionOnSet(h, t \ {x})
    <3>1. IsFiniteSet(t) /\ \A z \in t : h[z] \in Int
      BY <2>4
    <3>2. \A z \in t : SumFunctionOnSet(h, t) = h[z] + SumFunctionOnSet(h, t \ {z})
      BY <3>1, SumRemove
    <3> QED
      BY <2>2, <3>2
  <2>6. SumFunctionOnSet(f, u) = f[y] + SumFunctionOnSet(f, u \ {y})
    <3>1. IsFiniteSet(u) /\ \A z \in u : f[z] \in Int
      BY <2>4
    <3>2. \A z \in u : SumFunctionOnSet(f, u) = f[z] + SumFunctionOnSet(f, u \ {z})
      BY <3>1, SumRemove
    <3> QED
      BY <2>3, <3>2
  <2>7. SumFunctionOnSet(h, s) = SumFunctionOnSet(f, v) /\ h[x] = f[y]
    BY <2>1
  <2>8. SumFunctionOnSet(h, t) = SumFunctionOnSet(f, u)
    BY <2>2, <2>3, <2>5, <2>6, <2>7
  <2> QED
    BY <2>1, <2>2, <2>8
<1>4. P = SUBSET S
  <2>1. P \in SUBSET SUBSET S
    OBVIOUS
  <2> HIDE DEF P
  <2> QED
    BY <1>2, <1>3, <2>1, EverySubset
<1>5. S \in P
  BY <1>4
<1> QED
  BY <1>5

\* The total of a sequence at some of its indices.
LEMMA OnlyTotal ==
  ASSUME NEW s, NEW n \in Nat, NEW I \in SUBSET (1..n), NEW field,
         \A i \in I : s[i][field] \in Nat
  PROVE  Total(Only(s, I), field) = SumFunctionOnSet([i \in I |-> s[i][field]], I)
<1>1. PICK t, at : t = Only(s, I) /\ Takes(t, at, s, I) /\ Len(t) \in Nat
  BY OnlyAt
<1>2. /\ DOMAIN t = 1..Len(t) /\ at \in [1..Len(t) -> I]
      /\ \A k \in 1..Len(t) : t[k] = s[at[k]]
      /\ \A k, l \in 1..Len(t) : k < l => at[k] < at[l]
      /\ \A i \in I : \E k \in 1..Len(t) : at[k] = i
  BY <1>1 DEF Takes
<1>3. PICK m, S : m \in Nat /\ m = Len(t) /\ S = 1..m /\ IsFiniteSet(S)
  <2>1. PICK m \in Nat : m = Len(t)
    BY <1>1
  <2>2. IsFiniteSet(1..m)
    BY FS_Interval
  <2> QED
    BY <2>1, <2>2
<1>4. PICK f, h : f = [i \in I |-> s[i][field]] /\ h = [k \in DOMAIN t |-> OrElse(t[k][field], 0)]
  OBVIOUS
<1>5. \A x, y \in S : at[x] = at[y] => x = y
  <2>1. ASSUME NEW x \in S, NEW y \in S, at[x] = at[y], x < y PROVE FALSE
    <3>1. x \in 1..Len(t) /\ y \in 1..Len(t) /\ at[x] \in 1..n
      BY <1>2, <1>3
    <3>2. at[x] < at[y] /\ at[x] \in Nat
      BY <1>2, <2>1, <3>1
    <3> QED
      BY <2>1, <3>2
  <2> QED
    BY <1>3, <2>1
<1>6. \A x \in S : f[at[x]] \in Int /\ h[x] = f[at[x]]
  <2>1. SUFFICES ASSUME NEW x \in S PROVE f[at[x]] \in Int /\ h[x] = f[at[x]]
    OBVIOUS
  <2>2. PICK i \in I : i = at[x] /\ t[x] = s[i]
    BY <1>2, <1>3
  <2>3. s[i][field] \in Nat /\ s[i][field] # None
    BY NoneAssumption
  <2> QED
    BY <1>2, <1>3, <1>4, <2>2, <2>3 DEF OrElse
<1>7. I = {at[x] : x \in S} /\ IsFiniteSet(I)
  <2>1. IsFiniteSet(I)
    BY OnlyIs
  <2> QED
    BY <1>2, <1>3, <2>1
<1>8. SumFunctionOnSet(h, S) = SumFunctionOnSet(f, I)
  <2>1. Moves(S, at, I) /\ Along(h, at, f, S)
    BY <1>5, <1>6, <1>7 DEF Moves, Along
  <2> QED
    BY <1>3, <1>7, <2>1, SumMoved
<1>9. Total(t, field) = SumFunctionOnSet(h, S)
  BY <1>2, <1>3, <1>4 DEF Total, SumFunction
<1> QED
  BY <1>1, <1>4, <1>8, <1>9

\* Numbers each e-th of t times another add up to such a sum.
LEMMA SumRatio ==
  ASSUME NEW S, IsFiniteSet(S), NEW f, NEW h, NEW t \in Int, NEW e \in Int,
         \A x \in S : f[x] \in Int /\ h[x] \in Int /\ f[x] * e = t * h[x]
  PROVE  SumFunctionOnSet(f, S) * e = t * SumFunctionOnSet(h, S)
<1> DEFINE P == {s \in SUBSET S : SumFunctionOnSet(f, s) * e = t * SumFunctionOnSet(h, s)}
<1>1. ASSUME NEW s \in SUBSET S
      PROVE  IsFiniteSet(s) /\ (\A x \in s : f[x] \in Int) /\ \A x \in s : h[x] \in Int
  BY FS_Subset
<1>2. {} \in P
  <2>1. SumFunctionOnSet(h, {}) = 0 /\ SumFunctionOnSet(f, {}) = 0
    BY SumZero, FS_EmptySet
  <2> QED
    BY <2>1
<1>3. ASSUME NEW s \in P, NEW x \in S \ s PROVE s \cup {x} \in P
  <2>0. PICK u : u = s \cup {x}
    OBVIOUS
  <2>1. u = s \cup {x} /\ u \in SUBSET S /\ x \in u /\ u \ {x} = s
    BY <2>0
  <2>2. /\ SumFunctionOnSet(f, u) = f[x] + SumFunctionOnSet(f, u \ {x})
        /\ SumFunctionOnSet(h, u) = h[x] + SumFunctionOnSet(h, u \ {x})
    BY <1>1, <2>1, SumRemove
  <2>3. PICK a \in Int, b \in Int, c \in Int, d \in Int :
          /\ a = f[x] /\ b = SumFunctionOnSet(f, s) /\ c = h[x] /\ d = SumFunctionOnSet(h, s)
    <3>1. SumFunctionOnSet(f, s) \in Int /\ SumFunctionOnSet(h, s) \in Int
      BY <1>1, SumRemove
    <3> QED
      BY <3>1
  <2>4. a * e = t * c /\ b * e = t * d
    BY <2>3
  <2>5. (a + b) * e = t * (c + d)
    BY <2>4
  <2> QED
    BY <2>1, <2>2, <2>3, <2>5
<1>4. P = SUBSET S
  <2>1. P \in SUBSET SUBSET S
    OBVIOUS
  <2> HIDE DEF P
  <2> QED
    BY <1>2, <1>3, <2>1, EverySubset
<1>5. S \in P
  BY <1>4
<1> QED
  BY <1>5

\* The mean of rates that are all t / e is t / e.
LEMMA MeanSame ==
  ASSUME NEW s \in Seq(Int \X Int), NEW t \in Int, NEW e \in Int,
         \A k \in DOMAIN s : s[k][1] * e = t * s[k][2]
  PROVE  MeanRate(s)[1] * e = t * MeanRate(s)[2]
<1>1. PICK n \in Nat : n = Len(s) /\ DOMAIN s = 1..n /\ \A k \in 1..n : s[k] \in Int \X Int
  OBVIOUS
<1>2. PICK acc \in [0..n -> Int \X Int] :
           /\ acc[0] = <<0, 1>>
           /\ \A k \in 1..n : acc[k] = <<acc[k - 1][1] * s[k][2] + s[k][1] * acc[k - 1][2],
                                         acc[k - 1][2] * s[k][2]>>
           /\ MeanRate(s) = <<acc[n][1], acc[n][2] * n>>
  BY <1>1, MeanIs
<1>3. PICK P : P = {k \in Nat : k <= n => acc[k][1] * e = t * (acc[k][2] * k)}
  OBVIOUS
<1>4. 0 \in P /\ P \in SUBSET Nat
  BY <1>2, <1>3
<1>5. ASSUME NEW k \in P PROVE k + 1 \in P
  <2>1. k \in Nat /\ k + 1 \in Nat
    BY <1>3
  <2>2. ASSUME k + 1 <= n PROVE acc[k + 1][1] * e = t * (acc[k + 1][2] * (k + 1))
    <3>1. k \in 0..n /\ k + 1 \in 1..n /\ (k + 1) - 1 = k /\ k <= n
      BY <2>1, <2>2
    <3>2. PICK a \in Int, b \in Int : a = acc[k][1] /\ b = acc[k][2]
      BY <3>1
    <3>3. PICK c \in Int, d \in Int : c = s[k + 1][1] /\ d = s[k + 1][2]
      BY <1>1, <3>1
    <3>4. acc[k + 1] = <<a * d + c * b, b * d>>
      BY <1>2, <3>1, <3>2, <3>3
    <3>5. a * e = t * (b * k) /\ c * e = t * d
      BY <1>1, <1>3, <3>1, <3>2, <3>3
    <3>6. (a * d + c * b) * e = (a * e) * d + (c * e) * b
      OBVIOUS
    <3>7. (a * e) * d + (c * e) * b = (t * (b * k)) * d + (t * d) * b
      BY <3>5
    <3>8. (t * (b * k)) * d + (t * d) * b = t * ((b * d) * (k + 1))
      BY <2>1
    <3> QED
      BY <3>4, <3>6, <3>7, <3>8
  <2> QED
    BY <1>3, <2>1, <2>2
<1>6. n \in P
  <2>1. P = Nat
    BY <1>4, <1>5, EveryNat
  <2> QED
    BY <2>1
<1>7. acc[n][1] * e = t * (acc[n][2] * n)
  BY <1>3, <1>6
<1> QED
  BY <1>2, <1>7

-----------------------------------------------------------------------------
(* Sorting.                                                                *)

\* The indices of a sequence, with those that go before others as a relation.
Asymmetric(B, n) == \A i, j \in 1..n : <<i, j>> \in B => <<j, i>> \notin B

NegativelyTransitive(B, n) ==
  \A i, j, k \in 1..n : <<i, j>> \notin B /\ <<j, k>> \notin B => <<i, k>> \notin B

\* Which of two indices goes first, an earlier one of two that B leaves open.
First(B, j, i) == <<j, i>> \in B \/ (j < i /\ <<i, j>> \notin B)

Ahead(B, n, i) == {j \in 1..n : First(B, j, i)}

Seats(B, n) == [i \in 1..n |-> Cardinality(Ahead(B, n, i)) + 1]

\* Sorted, of the relation.
SortedOn(s, n, B) ==
  LET place == Seats(B, n) IN [k \in 1..n |-> s[CHOOSE i \in 1..n : place[i] = k]]

\* First is a strict linear order.
LEMMA FirstOrder ==
  ASSUME NEW n \in Nat, NEW B, Asymmetric(B, n), NegativelyTransitive(B, n)
  PROVE  /\ \A i \in 1..n : ~First(B, i, i)
         /\ \A i, j \in 1..n : i # j => First(B, i, j) \/ First(B, j, i)
         /\ \A i, j, k \in 1..n : First(B, i, j) /\ First(B, j, k) => First(B, i, k)
<1>1. \A i \in 1..n : ~First(B, i, i)
  BY DEF First, Asymmetric
<1>2. ASSUME NEW i \in 1..n, NEW j \in 1..n, i # j PROVE First(B, i, j) \/ First(B, j, i)
  <2>1. i < j \/ j < i
    BY <1>2
  <2> QED
    BY <2>1 DEF First
<1>3. ASSUME NEW i \in 1..n, NEW j \in 1..n, NEW k \in 1..n, First(B, i, j), First(B, j, k)
      PROVE  First(B, i, k)
  <2>1. <<j, i>> \notin B /\ <<k, j>> \notin B
    BY <1>3 DEF First, Asymmetric
  <2>2. <<k, i>> \notin B
    BY <2>1 DEF NegativelyTransitive
  <2>3. CASE <<i, j>> \in B
    <3>1. <<i, k>> \in B
      BY <2>1, <2>3 DEF NegativelyTransitive
    <3> QED
      BY <3>1 DEF First
  <2>4. CASE <<j, k>> \in B
    <3>1. <<i, k>> \in B
      BY <2>1, <2>4 DEF NegativelyTransitive
    <3> QED
      BY <3>1 DEF First
  <2>5. CASE <<i, j>> \notin B /\ <<j, k>> \notin B
    <3>1. i < j /\ j < k
      BY <1>3, <2>5 DEF First
    <3>2. i < k
      BY <3>1
    <3> QED
      BY <2>2, <3>2 DEF First
  <2> QED
    BY <2>3, <2>4, <2>5
<1> QED
  BY <1>1, <1>2, <1>3

\* Each index has a place of its own, and there is one for every place.
LEMMA PlacesAre ==
  ASSUME NEW n \in Nat, NEW B, Asymmetric(B, n), NegativelyTransitive(B, n)
  PROVE  /\ Seats(B, n) \in [1..n -> 1..n]
         /\ \A i, j \in 1..n : First(B, i, j) => Seats(B, n)[i] < Seats(B, n)[j]
         /\ \A k \in 1..n : \E i \in 1..n : Seats(B, n)[i] = k
<1>1. IsFiniteSet(1..n) /\ Cardinality(1..n) = n
  BY FS_Interval
<1>2. PICK place : place = [i \in 1..n |-> Cardinality(Ahead(B, n, i)) + 1]
  OBVIOUS
<1>3. ASSUME NEW i \in 1..n
      PROVE  /\ Ahead(B, n, i) \in SUBSET (1..n) /\ IsFiniteSet(Ahead(B, n, i))
             /\ Cardinality(Ahead(B, n, i)) \in Nat /\ place[i] \in 1..n
             /\ i \notin Ahead(B, n, i)
  <2>1. PICK A : A = Ahead(B, n, i)
    OBVIOUS
  <2>2. A \in SUBSET (1..n) /\ i \notin A
    <3>1. ~First(B, i, i)
      BY FirstOrder
    <3> QED
      BY <2>1, <3>1 DEF Ahead
  <2>3. IsFiniteSet(A) /\ Cardinality(A) <= n /\ (Cardinality(A) = n => A = 1..n)
    BY <1>1, <2>2, FS_Subset
  <2>4. Cardinality(A) \in Nat
    BY <2>3, FS_CardinalityType
  <2>5. Cardinality(A) + 1 \in 1..n
    BY <2>2, <2>3, <2>4
  <2> QED
    BY <1>2, <2>1, <2>2, <2>3, <2>4, <2>5
<1>4. ASSUME NEW i \in 1..n, NEW j \in 1..n, First(B, i, j)
      PROVE  place[i] < place[j]
  <2>1. PICK A, C : A = Ahead(B, n, i) /\ C = Ahead(B, n, j)
    OBVIOUS
  <2>2. A \in SUBSET C /\ i \in C /\ i \notin A
    <3>1. \A k \in 1..n : First(B, k, i) => First(B, k, j)
      BY <1>4, FirstOrder
    <3> QED
      BY <1>3, <1>4, <2>1, <3>1 DEF Ahead
  <2>3. IsFiniteSet(C) /\ Cardinality(A) \in Nat /\ Cardinality(C) \in Nat
    BY <1>3, <2>1
  <2>4. Cardinality(A) <= Cardinality(C) /\ (Cardinality(C) = Cardinality(A) => C = A)
    BY <2>2, <2>3, FS_Subset
  <2>5. Cardinality(A) < Cardinality(C)
    BY <2>2, <2>3, <2>4
  <2> QED
    BY <1>2, <2>1, <2>3, <2>5
<1>5. place \in [1..n -> 1..n]
  BY <1>2, <1>3
<1>6. \A i, j \in 1..n : place[i] = place[j] => i = j
  <2>1. SUFFICES ASSUME NEW i \in 1..n, NEW j \in 1..n, i # j PROVE place[i] # place[j]
    OBVIOUS
  <2>2. First(B, i, j) \/ First(B, j, i)
    BY <2>1, FirstOrder
  <2>3. place[i] \in Int /\ place[j] \in Int
    BY <1>5
  <2> QED
    BY <1>4, <2>2, <2>3
<1>7. place \in Injection(1..n, 1..n)
  BY <1>5, <1>6 DEF Injection, IsInjective
<1>8. place \in Surjection(1..n, 1..n)
  BY <1>1, <1>7, FS_Injection
<1>9. \A k \in 1..n : \E i \in 1..n : place[i] = k
  BY <1>8 DEF Surjection
<1> QED
  BY <1>2, <1>4, <1>5, <1>9 DEF Seats

\* t is s in another order.
Arranges(t, at, s, n) ==
  /\ DOMAIN t = 1..n /\ t \in Seq({s[i] : i \in 1..n})
  /\ at \in [1..n -> 1..n]
  /\ \A k \in 1..n : t[k] = s[at[k]]
  /\ \A i \in 1..n : \E k \in 1..n : at[k] = i

\* A sorted sequence is the same one in an order in which none goes after one
\* that it goes before.
LEMMA SortIs ==
  ASSUME NEW n \in Nat, NEW s, NEW B, Asymmetric(B, n), NegativelyTransitive(B, n)
  PROVE  \E at : /\ Arranges(SortedOn(s, n, B), at, s, n)
                 /\ \A k, l \in 1..n : k < l => <<at[l], at[k]>> \notin B
<1> DEFINE place == Seats(B, n)
<1>1. /\ place \in [1..n -> 1..n]
      /\ \A i, j \in 1..n : First(B, i, j) => place[i] < place[j]
      /\ \A k \in 1..n : \E i \in 1..n : place[i] = k
  BY PlacesAre
<1> HIDE DEF place
<1>2. PICK at : at = [k \in 1..n |-> CHOOSE i \in 1..n : place[i] = k]
  OBVIOUS
<1>3. \A k \in 1..n : at[k] \in 1..n /\ place[at[k]] = k
  <2>1. SUFFICES ASSUME NEW k \in 1..n PROVE at[k] \in 1..n /\ place[at[k]] = k
    OBVIOUS
  <2>2. \E i \in 1..n : place[i] = k
    BY <1>1
  <2> QED
    BY <1>2, <2>2
<1>4. at \in [1..n -> 1..n]
  BY <1>2, <1>3
<1>5. PICK t : t = SortedOn(s, n, B)
  OBVIOUS
<1>6. DOMAIN t = 1..n /\ \A k \in 1..n : t[k] = s[at[k]]
  BY <1>2, <1>5 DEF SortedOn, place
<1>7. ASSUME NEW i \in 1..n, NEW j \in 1..n, place[i] < place[j] PROVE <<j, i>> \notin B
  <2>1. SUFFICES ASSUME <<j, i>> \in B PROVE FALSE
    OBVIOUS
  <2>2. First(B, j, i)
    BY <2>1 DEF First
  <2>3. place[j] < place[i] /\ place[i] \in Int /\ place[j] \in Int
    BY <1>1, <2>2
  <2> QED
    BY <1>7, <2>3
<1>8. ASSUME NEW k \in 1..n, NEW l \in 1..n, k < l PROVE <<at[l], at[k]>> \notin B
  <2>1. place[at[k]] < place[at[l]] /\ at[k] \in 1..n /\ at[l] \in 1..n
    BY <1>3, <1>8
  <2> QED
    BY <1>7, <2>1
<1>9. \A i \in 1..n : \E k \in 1..n : at[k] = i
  <2>1. SUFFICES ASSUME NEW i \in 1..n PROVE \E k \in 1..n : at[k] = i
    OBVIOUS
  <2>2. PICK k \in 1..n : k = place[i]
    BY <1>1
  <2>3. place[at[k]] = place[i] /\ at[k] \in 1..n
    BY <1>3, <2>2
  <2>4. place[i] \in Int
    BY <1>1
  <2>5. CASE at[k] # i
    <3>1. First(B, at[k], i) \/ First(B, i, at[k])
      BY <2>3, <2>5, FirstOrder
    <3>2. place[at[k]] < place[i] \/ place[i] < place[at[k]]
      BY <1>1, <2>3, <3>1
    <3> QED
      BY <2>3, <2>4, <3>2
  <2> QED
    BY <2>5
<1>10. t \in Seq({s[i] : i \in 1..n})
  <2>1. PICK S : S = {s[i] : i \in 1..n}
    OBVIOUS
  <2>2. \A k \in 1..n : t[k] \in S
    BY <1>3, <1>6, <2>1
  <2>3. t = [k \in 1..n |-> t[k]]
    BY <1>5 DEF SortedOn, place
  <2>4. t \in Seq(S)
    BY <2>2, <2>3
  <2> QED
    BY <2>1, <2>4
<1>11. Arranges(t, at, s, n)
  BY <1>4, <1>6, <1>9, <1>10 DEF Arranges
<1> QED
  BY <1>5, <1>8, <1>11

\* The elements of a sequence are those of a set.
Holds(t, S) ==
  /\ DOMAIN t = 1..Len(t) /\ Len(t) \in Nat
  /\ (\A k \in 1..Len(t) : t[k] \in S)
  /\ (\A x \in S : \E k \in 1..Len(t) : t[k] = x)

\* A filter keeps those that pass.
LEMMA OnlyHolds ==
  ASSUME NEW s, NEW S, Holds(s, S), NEW T \in SUBSET S,
         NEW I, I = {i \in DOMAIN s : s[i] \in T}
  PROVE  Holds(Only(s, I), T) /\ (Only(s, I) = <<>> <=> T = {})
<1>1. PICK n \in Nat : n = Len(s) /\ DOMAIN s = 1..n
  BY DEF Holds
<1>2. (\A k \in 1..n : s[k] \in S) /\ (\A x \in S : \E k \in 1..n : s[k] = x)
  BY <1>1 DEF Holds
<1>3. I \in SUBSET (1..n) /\ \A i \in 1..n : i \in I <=> s[i] \in T
  BY <1>1
<1>4. PICK t, at : t = Only(s, I) /\ Takes(t, at, s, I) /\ Len(t) \in Nat
  <2>1. I \in SUBSET (1..n)
    BY <1>3
  <2>2. Len(Only(s, I)) \in 0..n /\ \E at : Takes(Only(s, I), at, s, I)
    BY <2>1, OnlyAt
  <2>3. \A j \in 0..n : j \in Nat
    OBVIOUS
  <2> QED
    BY <2>2, <2>3
<1>5. /\ DOMAIN t = 1..Len(t) /\ at \in [1..Len(t) -> I]
      /\ \A k \in 1..Len(t) : t[k] = s[at[k]]
      /\ \A i \in I : \E k \in 1..Len(t) : at[k] = i
  BY <1>4 DEF Takes
<1>6. \A k \in 1..Len(t) : t[k] \in T
  BY <1>3, <1>5
<1>7. \A x \in T : \E k \in 1..Len(t) : t[k] = x
  <2>1. SUFFICES ASSUME NEW x \in T PROVE \E k \in 1..Len(t) : t[k] = x
    OBVIOUS
  <2>2. PICK i \in 1..n : s[i] = x
    BY <1>2
  <2>3. i \in I
    BY <1>3, <2>2
  <2>4. PICK k \in 1..Len(t) : at[k] = i
    BY <1>5, <2>3
  <2>5. t[k] = x
    BY <1>5, <2>2, <2>4
  <2> QED
    BY <2>5
<1>8. Holds(t, T)
  BY <1>4, <1>5, <1>6, <1>7 DEF Holds
<1>9. t = <<>> <=> I = {}
  BY <1>3, <1>4, OnlyEmpty
<1>10. I = {} <=> T = {}
  <2>1. ASSUME NEW x \in T PROVE I # {}
    <3>1. PICK i \in 1..n : s[i] = x
      BY <1>2
    <3> QED
      BY <1>3, <3>1
  <2>2. ASSUME NEW i \in I PROVE T # {}
    BY <1>3
  <2> QED
    BY <2>1, <2>2
<1> QED
  BY <1>4, <1>8, <1>9, <1>10

\* A sort keeps them all.
LEMMA SortHolds ==
  ASSUME NEW s, NEW S, Holds(s, S), NEW n \in Nat, n = Len(s),
         NEW B, Asymmetric(B, n), NegativelyTransitive(B, n)
  PROVE  Holds(SortedOn(s, n, B), S)
<1>1. DOMAIN s = 1..n /\ (\A k \in 1..n : s[k] \in S) /\ (\A x \in S : \E k \in 1..n : s[k] = x)
  BY DEF Holds
<1>2. PICK t, at : t = SortedOn(s, n, B) /\ Arranges(t, at, s, n)
  BY SortIs
<1>3. /\ DOMAIN t = 1..n /\ t \in Seq({s[i] : i \in 1..n})
      /\ at \in [1..n -> 1..n]
      /\ \A k \in 1..n : t[k] = s[at[k]]
      /\ \A i \in 1..n : \E k \in 1..n : at[k] = i
  BY <1>2 DEF Arranges
<1>4. Len(t) = n
  BY <1>3
<1>5. \A k \in 1..n : t[k] \in S
  BY <1>1, <1>3
<1>6. \A x \in S : \E k \in 1..n : t[k] = x
  <2>1. SUFFICES ASSUME NEW x \in S PROVE \E k \in 1..n : t[k] = x
    OBVIOUS
  <2>2. PICK i \in 1..n : s[i] = x
    BY <1>1
  <2>3. PICK k \in 1..n : at[k] = i
    BY <1>3
  <2>4. t[k] = x
    BY <1>3, <2>2, <2>3
  <2> QED
    BY <2>4
<1>7. Holds(t, S)
  BY <1>3, <1>4, <1>5, <1>6 DEF Holds
<1> QED
  BY <1>2, <1>7

\* An element of some of s's with none of them before it.
IsFirst(y, T, s, n, B) ==
  /\ y \in T
  /\ \A x \in T : x = y \/ \E w \in (1..n) \X (1..n) : s[w[1]] = x /\ s[w[2]] = y /\ w \notin B

\* The first of those of some elements that a sorted sequence has goes after
\* none of them.
LEMMA FirstOfSorted ==
  ASSUME NEW s, NEW S, Holds(s, S), NEW n \in Nat, n = Len(s),
         NEW B, Asymmetric(B, n), NegativelyTransitive(B, n),
         NEW t, t = SortedOn(s, n, B), NEW T \in SUBSET S, T # {},
         NEW I, I = {i \in DOMAIN t : t[i] \in T}
  PROVE  IsFirst(Only(t, I)[1], T, s, n, B)
<1>1. Holds(t, S)
  BY SortHolds
<1>2. PICK at : /\ Arranges(t, at, s, n)
                /\ \A k, l \in 1..n : k < l => <<at[l], at[k]>> \notin B
  BY SortIs
<1>3. /\ DOMAIN t = 1..n
      /\ at \in [1..n -> 1..n]
      /\ \A k \in 1..n : t[k] = s[at[k]]
  BY <1>2 DEF Arranges
<1>4. PICK f : f = Only(t, I)
  OBVIOUS
<1>5. Holds(f, T) /\ (f = <<>> <=> T = {})
  BY <1>1, <1>4, OnlyHolds
<1>6. I \in SUBSET (1..n)
  BY <1>3
<1>7. PICK of : Takes(f, of, t, I)
  BY <1>4, <1>6, OnlyAt
<1>8. /\ of \in [1..Len(f) -> I]
      /\ \A k \in 1..Len(f) : f[k] = t[of[k]]
      /\ \A k, l \in 1..Len(f) : k < l => of[k] < of[l]
  BY <1>7 DEF Takes
<1>9. PICK m \in Nat : m = Len(f) /\ (\A k \in 1..m : f[k] \in T)
                       /\ (\A x \in T : \E k \in 1..m : f[k] = x)
  BY <1>5 DEF Holds
<1>10. 1 \in 1..m
  <2>1. PICK x \in T : TRUE
    OBVIOUS
  <2>2. PICK k \in 1..m : f[k] = x
    BY <1>9, <2>1
  <2> QED
    BY <2>2
<1>11. ASSUME NEW x \in T, x # f[1]
       PROVE  \E w \in (1..n) \X (1..n) : s[w[1]] = x /\ s[w[2]] = f[1] /\ w \notin B
  <2>1. PICK k \in 1..m : f[k] = x
    BY <1>9
  <2>2. 1 < k
    BY <1>11, <2>1
  <2>3. of[1] < of[k] /\ of[1] \in 1..n /\ of[k] \in 1..n
    BY <1>6, <1>8, <1>9, <1>10, <2>1, <2>2
  <2>4. <<at[of[k]], at[of[1]]>> \notin B /\ at[of[k]] \in 1..n /\ at[of[1]] \in 1..n
    BY <1>2, <1>3, <2>3
  <2>5. s[at[of[k]]] = x /\ s[at[of[1]]] = f[1]
    BY <1>3, <1>8, <1>9, <1>10, <2>1, <2>3
  <2>6. PICK w : w = <<at[of[k]], at[of[1]]>>
    OBVIOUS
  <2>7. w \in (1..n) \X (1..n) /\ s[w[1]] = x /\ s[w[2]] = f[1] /\ w \notin B
    BY <2>4, <2>5, <2>6
  <2> QED
    BY <2>7
<1>12. f[1] \in T
  BY <1>9, <1>10
<1> QED
  BY <1>4, <1>11, <1>12 DEF IsFirst
==============================================================================
