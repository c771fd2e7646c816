------------------------------- MODULE Extrema -------------------------------
(***************************************************************************)
(* Least and greatest elements, for the modules that take minima, maxima   *)
(* and roots. What ranges over all sequences or all numbers is proved by   *)
(* the least counterexample.                                               *)
(***************************************************************************)
EXTENDS Integers, Sequences, FiniteSetsExt, WellFoundedInduction, TLAPS

LEMMA LeastNatural ==
  ASSUME NEW T, T \subseteq Nat, T # {}
  PROVE  \E n \in T : \A m \in T : n <= m
<1> DEFINE R == {pair \in Nat \X Nat : pair[1] < pair[2]}
<1>1. IsWellFoundedOn(R, Nat)
  BY NatLessThanWellFounded, Zenon DEF OpToRel
<1>2. PICK n \in T : \A m \in T : <<m, n>> \notin R
  <2> HIDE DEF R
  <2> QED BY <1>1, WFMin, Zenon
<1>3. \A m \in T : <<m, n>> \in Nat \X Nat
  OBVIOUS
<1>4. \A m \in T : ~(m < n)
  BY <1>2, <1>3
<1> QED BY <1>4

\* A set of integers with a lower bound has a minimum, and one with an upper bound
\* a maximum.
LEMMA MinExists ==
  ASSUME NEW S, S \subseteq Int, S # {}, NEW b \in Int, \A x \in S : b <= x
  PROVE  Min(S) \in S /\ \A x \in S : Min(S) <= x
<1> DEFINE T == {n \in Nat : b + n \in S}
<1>1. T \subseteq Nat /\ T # {}
  <2>1. PICK x \in S : TRUE
    OBVIOUS
  <2>2. x - b \in Nat /\ b + (x - b) = x
    OBVIOUS
  <2> QED BY <2>1, <2>2
<1>2. PICK n \in T : \A m \in T : n <= m
  <2> HIDE DEF T
  <2> QED BY <1>1, LeastNatural
<1>3. b + n \in S /\ \A x \in S : b + n <= x
  <2>1. ASSUME NEW x \in S PROVE b + n <= x
    <3>1. x - b \in T
      OBVIOUS
    <3> QED BY <1>2, <3>1
  <2> QED BY <2>1
<1> QED BY <1>3 DEF Min

LEMMA MaxExists ==
  ASSUME NEW S, S \subseteq Int, S # {}, NEW b \in Int, \A x \in S : x <= b
  PROVE  Max(S) \in S /\ \A x \in S : x <= Max(S)
<1> DEFINE T == {n \in Nat : b - n \in S}
<1>1. T \subseteq Nat /\ T # {}
  <2>1. PICK x \in S : TRUE
    OBVIOUS
  <2>2. b - x \in Nat /\ b - (b - x) = x
    OBVIOUS
  <2> QED BY <2>1, <2>2
<1>2. PICK n \in T : \A m \in T : n <= m
  <2> HIDE DEF T
  <2> QED BY <1>1, LeastNatural
<1>3. b - n \in S /\ \A x \in S : x <= b - n
  <2>1. ASSUME NEW x \in S PROVE x <= b - n
    <3>1. b - x \in T
      OBVIOUS
    <3> QED BY <1>2, <3>1
  <2> QED BY <2>1
<1>4. \A x \in S : b - n >= x
  BY <1>3
<1> QED BY <1>3, <1>4 DEF Max

\* Finitely many integers have bounds.
LEMMA BoundsExist ==
  ASSUME NEW n \in Nat, NEW f, \A i \in 1..n : f[i] \in Int
  PROVE  \E b \in Nat : \A i \in 1..n : -b <= f[i] /\ f[i] <= b
<1> DEFINE Bounded(k) == \E b \in Nat : \A i \in 1..k : -b <= f[i] /\ f[i] <= b
<1> DEFINE T == {k \in 0..n : ~Bounded(k)}
<1>1. SUFFICES ASSUME T # {} PROVE FALSE
  <2>1. n \in 0..n
    OBVIOUS
  <2>2. T = {} => Bounded(n)
    <3> HIDE DEF Bounded
    <3> QED BY <2>1
  <2> QED BY <2>2
<1>2. PICK k \in T : \A m \in T : k <= m
  <2>1. T \subseteq Nat
    OBVIOUS
  <2> HIDE DEF T
  <2> QED BY <1>1, <2>1, LeastNatural
<1>3. CASE k = 0
  <2>1. Bounded(0)
    <3>1. \A i \in 1..0 : -0 <= f[i] /\ f[i] <= 0
      OBVIOUS
    <3> QED BY <3>1
  <2> QED BY <1>2, <1>3, <2>1
<1>4. CASE k # 0
  <2>1. k - 1 \in 0..n /\ k - 1 \notin T
    <3>1. k \in 0..n
      OBVIOUS
    <3> HIDE DEF Bounded
    <3> QED BY <1>2, <1>4, <3>1
  <2>2. PICK b \in Nat : \A i \in 1..(k - 1) : -b <= f[i] /\ f[i] <= b
    BY <2>1
  <2>3. k \in 1..n /\ f[k] \in Int
    BY <1>2, <1>4
  <2> DEFINE c == b + (IF f[k] < 0 THEN -f[k] ELSE f[k])
  <2>4. c \in Nat /\ b <= c /\ -c <= f[k] /\ f[k] <= c
    BY <2>3
  <2>5. \A i \in 1..k : -c <= f[i] /\ f[i] <= c
    <3> SUFFICES ASSUME NEW i \in 1..k PROVE -c <= f[i] /\ f[i] <= c
      OBVIOUS
    <3> HIDE DEF c
    <3>1. CASE i = k
      BY <2>4, <3>1
    <3>2. CASE i # k
      <4>1. i \in 1..(k - 1) /\ f[i] \in Int
        BY <2>3, <3>2
      <4> QED BY <2>2, <2>4, <4>1
    <3> QED BY <3>1, <3>2
  <2>6. Bounded(k)
    BY <2>4, <2>5
  <2> QED BY <1>2, <2>6
<1> QED BY <1>3, <1>4

\* The values a function takes on 1..n have a minimum and a maximum.
LEMMA ExtremaOfValues ==
  ASSUME NEW n \in Nat \ {0}, NEW f, \A i \in 1..n : f[i] \in Int
  PROVE  LET S == {f[i] : i \in 1..n} IN
         /\ Min(S) \in S /\ \A x \in S : Min(S) <= x
         /\ Max(S) \in S /\ \A x \in S : x <= Max(S)
<1> DEFINE S == {f[i] : i \in 1..n}
<1>1. PICK b \in Nat : \A i \in 1..n : -b <= f[i] /\ f[i] <= b
  BY BoundsExist
<1>2. S \subseteq Int /\ \A x \in S : -b <= x /\ x <= b
  BY <1>1
<1>3. S # {}
  <2>1. f[1] \in S
    OBVIOUS
  <2> QED BY <2>1
<1>4. -b \in Int /\ b \in Int
  OBVIOUS
<1> HIDE DEF S
<1>5. Min(S) \in S /\ \A x \in S : Min(S) <= x
  BY <1>2, <1>3, <1>4, MinExists
<1>6. Max(S) \in S /\ \A x \in S : x <= Max(S)
  BY <1>2, <1>3, <1>4, MaxExists
<1> QED BY <1>5, <1>6 DEF S

LEMMA ExtremaOfPair ==
  ASSUME NEW a \in Int, NEW b \in Int
  PROVE  /\ Min({a, b}) = IF a <= b THEN a ELSE b
         /\ Max({a, b}) = IF a <= b THEN b ELSE a
<1>1. \E c \in Int : c <= a /\ c <= b
  OBVIOUS
<1>2. \E c \in Int : a <= c /\ b <= c
  OBVIOUS
<1>3. Min({a, b}) \in {a, b} /\ Min({a, b}) <= a /\ Min({a, b}) <= b
  BY <1>1, MinExists
<1>4. Max({a, b}) \in {a, b} /\ a <= Max({a, b}) /\ b <= Max({a, b})
  BY <1>2, MaxExists
<1> QED BY <1>3, <1>4

\* Every natural number has a root, rounded down.
LEMMA RootExists ==
  ASSUME NEW n \in Nat
  PROVE  \E r \in Nat : r * r <= n /\ n < (r + 1) * (r + 1)
<1> DEFINE T == {r \in Nat : n < (r + 1) * (r + 1)}
<1>1. T \subseteq Nat /\ n \in T
  <2>1. (n + 1) * (n + 1) = n * n + 2 * n + 1 /\ n * n \in Nat
    OBVIOUS
  <2> QED BY <2>1
<1>2. PICK r \in T : \A m \in T : r <= m
  <2> HIDE DEF T
  <2> QED BY <1>1, LeastNatural
<1>3. CASE r = 0
  BY <1>2, <1>3
<1>4. CASE r # 0
  <2>1. r - 1 \in Nat /\ r - 1 \notin T
    BY <1>2, <1>4
  <2>2. (r - 1) + 1 = r
    BY <1>2
  <2>3. ~(n < r * r)
    BY <2>1, <2>2
  <2> QED BY <1>2, <2>3
<1> QED BY <1>3, <1>4

=============================================================================
