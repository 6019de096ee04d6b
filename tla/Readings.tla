------------------------------ MODULE Readings ------------------------------
(***************************************************************************)
(* The vocabulary of the modules that read measurements: a value that may  *)
(* be missing, a dictionary that may lack a key, and rates.  A rate is     *)
(* kept as the pair <<numerator, denominator>> it is divided from, its     *)
(* denominator positive, so that two rates are compared exactly; the       *)
(* rounding the code applies on the way to the page is left out.           *)
(***************************************************************************)
EXTENDS Integers, SequencesExt

\* What the code writes as None and the page draws as a dash.
CONSTANT None

\* It is no number.
ASSUME NoneAssumption == None \notin Nat

\* dict.get(key).
Get(dict, key) == IF key \in DOMAIN dict THEN dict[key] ELSE None

\* x if x is not None else y.
OrElse(x, y) == IF x = None THEN y ELSE x

\* {**old, **new}: the entries of both, a new one before an old one.
Merged(old, new) ==
  [k \in DOMAIN old \cup DOMAIN new |-> IF k \in DOMAIN new THEN new[k] ELSE old[k]]

\* sum(r[field] for r in rows): a row without the field adds nothing.
Total(rows, field) == SumFunction([i \in DOMAIN rows |-> OrElse(rows[i][field], 0)])

\* A sequence at some of its indices, in their order.
Nth(I, k) == CHOOSE i \in I : Cardinality({j \in I : j <= i}) = k

Only(s, I) == [k \in 1 .. Cardinality(I) |-> s[Nth(I, k)]]

\* [x for x in s if Test(x)].
Filter(s, Test(_)) == Only(s, {i \in DOMAIN s : Test(s[i])})

\* sorted(s): Python's sort is stable, so that of two elements neither of which
\* goes before the other the earlier one stays the earlier.
Sorted(s, Before(_, _)) ==
  LET first(j, i) == Before(s[j], s[i]) \/ (j < i /\ ~Before(s[i], s[j]))
      place       == [i \in DOMAIN s |-> Cardinality({j \in DOMAIN s : first(j, i)}) + 1]
  IN  [k \in DOMAIN s |-> s[CHOOSE i \in DOMAIN s : place[i] = k]]

Slower(p, q) == p[1] * q[2] < q[1] * p[2]
SameRate(p, q) == p[1] * q[2] = q[1] * p[2]

\* statistics.mean of a sequence of rates.
MeanRate(s) ==
  LET sum == FoldLeft(LAMBDA p, q : <<p[1] * q[2] + q[1] * p[2], p[2] * q[2]>>,
                      <<0, 1>>, s)
  IN  <<sum[1], sum[2] * Len(s)>>

\* Python's round() of a / b: to the nearest, a tie to the even neighbour.
Round(a, b) ==
  LET q == a \div b
      r == a % b
  IN  IF 2 * r < b \/ (2 * r = b /\ q % 2 = 0) THEN q ELSE q + 1

\* sorted(s)[len(s) // 2] of a sequence of rates.
UpperMedian(s) ==
  CHOOSE m \in ToSet(s) :
    /\ Cardinality({i \in DOMAIN s : Slower(s[i], m)}) <= Len(s) \div 2
    /\ Cardinality({i \in DOMAIN s : ~Slower(m, s[i])}) > Len(s) \div 2
=============================================================================
