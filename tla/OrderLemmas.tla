----------------------------- MODULE OrderLemmas -----------------------------
(***************************************************************************)
(* The least and the greatest member of a set of numbers, what the CHOOSE  *)
(* of a lowest free descriptor or of the newest value returns; induction   *)
(* over the numbers in a set; and the folds, which exist by it.            *)
(***************************************************************************)
EXTENDS Integers, FiniteSetsExt, WellFoundedInduction, TLAPS

\* A set of naturals that is not empty has a least member.
LEMMA LeastExists ==
    ASSUME NEW S \in SUBSET Nat, S # {}
    PROVE  \E n \in S : \A m \in S : n <= m
<1> DEFINE R == OpToRel(<, Nat)
<1>1. IsWellFoundedOn(R, Nat)
  BY NatLessThanWellFounded
<1>2. \A x, y \in Nat : <<y, x>> \in R <=> y < x
  BY DEF OpToRel
<1> HIDE DEF R
<1>3. PICK n \in S : \A m \in S : ~ (<<m, n>> \in R)
  BY <1>1, WFMin
<1>4. \A m \in S : ~ (m < n)
  BY <1>2, <1>3
<1>5. \A m \in S : n \in Nat /\ m \in Nat
  OBVIOUS
<1> QED
  BY <1>4, <1>5

\* A set of naturals that is not empty and has a bound has a greatest member.
LEMMA GreatestExists ==
    ASSUME NEW S \in SUBSET Nat, S # {}, NEW b \in Nat, \A s \in S : s <= b
    PROVE  \E n \in S : \A m \in S : n >= m
<1> DEFINE D == {b - s : s \in S}
<1>1. D \in SUBSET Nat /\ D # {}
  <2>1. \A s \in S : b - s \in Nat
    OBVIOUS
  <2>2. PICK s \in S : TRUE
    OBVIOUS
  <2> QED
    BY <2>1, <2>2
<1> HIDE DEF D
<1>2. PICK d \in D : \A e \in D : d <= e
  BY <1>1, LeastExists
<1> USE DEF D
<1>3. PICK n \in S : d = b - n
  OBVIOUS
<1>4. \A m \in S : b - m \in D
  OBVIOUS
<1>5. \A m \in S : n >= m
  BY <1>2, <1>3, <1>4
<1> QED
  BY <1>5

\* What Max and Min return, and how to know it.
LEMMA MaxFacts ==
    ASSUME NEW S \in SUBSET Nat, S # {}, NEW b \in Nat, \A s \in S : s <= b
    PROVE  Max(S) \in S /\ \A s \in S : s <= Max(S)
<1>1. \E n \in S : \A m \in S : n >= m
  BY GreatestExists
<1>2. Max(S) \in S /\ \A m \in S : Max(S) >= m
  BY <1>1 DEF Max
<1> QED
  BY <1>2

LEMMA MaxIs ==
    ASSUME NEW S \in SUBSET Nat, NEW n \in S, \A s \in S : s <= n
    PROVE  Max(S) = n
<1>1. Max(S) \in S /\ \A s \in S : s <= Max(S)
  BY MaxFacts
<1>2. n <= Max(S) /\ Max(S) <= n /\ n \in Nat /\ Max(S) \in Nat
  BY <1>1
<1> QED
  BY <1>2

LEMMA MinFacts ==
    ASSUME NEW S \in SUBSET Nat, S # {}
    PROVE  Min(S) \in S /\ \A s \in S : Min(S) <= s
<1>1. \E n \in S : \A m \in S : n <= m
  BY LeastExists
<1> QED
  BY <1>1 DEF Min

LEMMA MinIs ==
    ASSUME NEW S \in SUBSET Nat, NEW n \in S, \A s \in S : n <= s
    PROVE  Min(S) = n
<1>1. Min(S) \in S /\ \A s \in S : Min(S) <= s
  BY MinFacts
<1>2. n <= Min(S) /\ Min(S) <= n /\ n \in Nat /\ Min(S) \in Nat
  BY <1>1
<1> QED
  BY <1>2

-----------------------------------------------------------------------------
(* Induction, and the folds it is needed for. A predicate is given by the  *)
(* set of the numbers it holds for, an operator as a function.             *)

\* A set with 0 and the successor of each number in it has all numbers.
LEMMA SetInduction ==
    ASSUME NEW P, 0 \in P, \A n \in Nat : n \in P => n + 1 \in P
    PROVE  Nat \subseteq P
<1> DEFINE Bad == Nat \ P
<1> SUFFICES ASSUME Bad # {} PROVE FALSE
  OBVIOUS
<1>1. PICK n \in Bad : \A m \in Bad : n <= m
  <2> Bad \in SUBSET Nat
    OBVIOUS
  <2> HIDE DEF Bad
  <2> QED
    BY LeastExists
<1>2. n \in Nat /\ n # 0 /\ n \notin P
  OBVIOUS
<1>3. n - 1 \in Nat /\ n - 1 \in P
  BY <1>1, <1>2
<1>4. (n - 1) + 1 \in P
  BY <1>3
<1> QED
  BY <1>2, <1>4

\* g is what FoldLeft evaluates on the sets of s's indices, when its operator is
\* the function f on the values S.
FoldFunctionIs(g, S, f, b, N, s) ==
    /\ g \in [SUBSET (1..N) -> S]
    /\ \A x \in SUBSET (1..N) : g[x] = IF x = {} THEN b ELSE f[g[x \ {Max(x)}]][s[Max(x)]]

\* It exists.
LEMMA FoldExists ==
    ASSUME NEW S, NEW E, NEW f \in [S -> [E -> S]], NEW b \in S, NEW N \in Nat, NEW s \in [1..N -> E]
    PROVE  \E g : FoldFunctionIs(g, S, f, b, N, s)
<1> DEFINE Val(g, x) == IF x = {} THEN b ELSE f[g[x \ {Max(x)}]][s[Max(x)]]
           Good(g, n) == g \in [SUBSET (1..n) -> S] /\ \A x \in SUBSET (1..n) : g[x] = Val(g, x)
           P == {n \in Nat : n <= N => \E g : Good(g, n)}
<1>1. 0 \in P
  <2> DEFINE g == [x \in SUBSET (1..0) |-> b]
  <2>1. \A x \in SUBSET (1..0) : x = {}
    OBVIOUS
  <2>2. g \in [SUBSET (1..0) -> S] /\ \A x \in SUBSET (1..0) : g[x] = b
    OBVIOUS
  <2> HIDE DEF g
  <2>3. Good(g, 0)
    BY <2>1, <2>2
  <2> QED
    BY <2>3
<1>2. ASSUME NEW m \in Nat, m \in P PROVE m + 1 \in P
  <2> DEFINE n == m + 1
  <2> SUFFICES ASSUME n <= N PROVE \E g : Good(g, n)
    <3> HIDE DEF Good
    <3> QED
      OBVIOUS
  <2>1. n \in Nat /\ n \in 1..N /\ m <= N /\ s[n] \in E
    OBVIOUS
  <2>2. PICK g : Good(g, m)
    <3> HIDE DEF Good
    <3> QED
      BY <1>2, <2>1
  <2> DEFINE h == [x \in SUBSET (1..n) |-> IF n \in x THEN f[g[x \ {n}]][s[n]] ELSE g[x]]
  <2>3. \A x \in SUBSET (1..n) : x \ {n} \in SUBSET (1..m)
    BY <2>1
  <2>4. ASSUME NEW x \in SUBSET (1..n) PROVE h[x] \in S
    <3>1. x \ {n} \in SUBSET (1..m)
      BY <2>3
    <3>2. g[x \ {n}] \in S
      BY <2>2, <3>1
    <3>3. f[g[x \ {n}]][s[n]] \in S
      BY <2>1, <3>2
    <3>4. n \notin x => g[x] = g[x \ {n}]
      <4>1. n \notin x => x = x \ {n}
        OBVIOUS
      <4> QED
        BY <4>1
    <3> QED
      BY <3>2, <3>3, <3>4
  <2>5. h \in [SUBSET (1..n) -> S]
    BY <2>4
  <2>6. ASSUME NEW x \in SUBSET (1..m) PROVE h[x] = g[x]
    <3>1. x \in SUBSET (1..n) /\ n \notin x
      BY <2>1
    <3> QED
      BY <3>1
  <2>7. ASSUME NEW x \in SUBSET (1..n) PROVE h[x] = Val(h, x)
    <3>1. CASE n \in x
      <4>1. x \in SUBSET Nat /\ \A y \in x : y <= n
        BY <2>1
      <4>2. Max(x) = n
        BY <3>1, <4>1, MaxIs
      <4>3. h[x \ {n}] = g[x \ {n}]
        BY <2>3, <2>6
      <4>4. h[x] = f[g[x \ {n}]][s[n]]
        BY <3>1
      <4> HIDE DEF h
      <4> QED
        BY <3>1, <4>2, <4>3, <4>4
    <3>2. CASE n \notin x
      <4>1. x \in SUBSET (1..m)
        BY <2>1, <3>2
      <4>2. h[x] = g[x] /\ h[x \ {Max(x)}] = g[x \ {Max(x)}]
        BY <2>6, <4>1
      <4>3. g[x] = Val(g, x)
        BY <2>2, <4>1
      <4> HIDE DEF h
      <4> QED
        BY <4>2, <4>3
    <3> QED
      BY <3>1, <3>2
  <2>8. Good(h, n)
    <3> HIDE DEF h
    <3> QED
      BY <2>5, <2>7
  <2> HIDE DEF Good
  <2> QED
    BY <2>8
<1>3. N \in P
  <2>1. \A m \in Nat : m \in P => m + 1 \in P
    BY <1>2
  <2> HIDE DEF P
  <2> QED
    BY <1>1, <2>1, SetInduction
<1>4. PICK g : Good(g, N)
  <2> HIDE DEF Good
  <2> QED
    BY <1>3
<1> QED
  BY <1>4 DEF FoldFunctionIs
=============================================================================
