------------------------------ MODULE NumberLemmas ------------------------------
(***************************************************************************)
(* Arithmetic that the proofs of the other modules cite.                   *)
(***************************************************************************)
EXTENDS Integers, FiniteSetsExt, TLAPS, WellFoundedInduction

\* A number below the modulus is its own remainder.
LEMMA SmallMod ==
  ASSUME NEW n \in Nat, NEW m \in Nat, n < m
  PROVE  n % m = n
BY SMT

LEMMA MaxOfTwo ==
  ASSUME NEW i \in Int, NEW j \in Int
  PROVE  /\ Max({i, j}) \in {i, j}
         /\ Max({i, j}) >= i /\ Max({i, j}) >= j
<1>1. \E x \in {i, j} : \A y \in {i, j} : x >= y
  <2>1. CASE i >= j BY <2>1
  <2>2. CASE ~(i >= j) BY <2>2
  <2>3. QED BY <2>1, <2>2
<1>2. Max({i, j}) \in {i, j} /\ \A y \in {i, j} : Max({i, j}) >= y
  BY <1>1, Zenon DEF Max
<1>3. QED BY <1>2

LEMMA MinOfTwo ==
  ASSUME NEW i \in Int, NEW j \in Int
  PROVE  /\ Min({i, j}) \in {i, j}
         /\ Min({i, j}) <= i /\ Min({i, j}) <= j
<1>1. \E x \in {i, j} : \A y \in {i, j} : x =< y
  <2>1. CASE i =< j BY <2>1
  <2>2. CASE ~(i =< j) BY <2>2
  <2>3. QED BY <2>1, <2>2
<1>2. Min({i, j}) \in {i, j} /\ \A y \in {i, j} : Min({i, j}) =< y
  BY <1>1, Zenon DEF Min
<1>3. QED BY <1>2

\* A non-empty set of naturals has a least element.
LEMMA MinOfNaturals ==
  ASSUME NEW S \in SUBSET Nat, S # {}
  PROVE  Min(S) \in S /\ \A x \in S : Min(S) =< x
<1> DEFINE Less == {p \in Nat \X Nat : p[1] < p[2]}
<1>1. OpToRel(<, Nat) = Less
  BY DEF OpToRel
<1>2. IsWellFoundedOn(Less, Nat)
  BY <1>1, NatLessThanWellFounded, Zenon
<1> HIDE DEF Less
<1>3. PICK n \in S : \A x \in S : ~(<<x, n>> \in Less)
  BY <1>2, WFMin, Zenon
<1>4. \A y \in S : n =< y
  <2> TAKE y \in S
  <2>1. y \in Nat /\ n \in Nat OBVIOUS
  <2>2. y < n => <<y, n>> \in Less BY <2>1 DEF Less
  <2>3. QED BY <1>3, <2>1, <2>2
<1>5. QED BY <1>4, Zenon DEF Min

\* A non-empty set of naturals below a bound has a greatest element.
LEMMA MaxOfNaturals ==
  ASSUME NEW S \in SUBSET Nat, S # {}, NEW b \in Nat, \A x \in S : x =< b
  PROVE  Max(S) \in S /\ \A x \in S : Max(S) >= x
<1> DEFINE D == {n \in Nat : \A x \in S : x =< n}
           n == Min(D)
<1>1. D \in SUBSET Nat /\ D # {}
  <2>1. b \in D OBVIOUS
  <2>2. QED BY <2>1
<1>2. n \in D /\ \A y \in D : n =< y
  <2> HIDE DEF D
  <2>1. QED BY <1>1, MinOfNaturals
<1>3. n \in Nat /\ \A x \in S : x =< n
  BY <1>2
<1>4. n \in S
  <2> SUFFICES ASSUME n \notin S PROVE FALSE
    OBVIOUS
  <2> HIDE DEF n
  <2>1. PICK x \in S : TRUE OBVIOUS
  <2>2. \A y \in S : y =< n - 1
    BY <1>3
  <2>3. n - 1 \in Nat
    BY <1>3, <2>1, <2>2
  <2>4. n - 1 \in D
    BY <2>2, <2>3
  <2>5. QED BY <1>2, <1>3, <2>4
<1>5. \E x \in S : \A y \in S : x >= y
  <2> HIDE DEF n, D
  <2>1. \A y \in S : n >= y
    BY <1>3
  <2>2. QED BY <1>4, <2>1
<1>6. QED BY <1>5, Zenon DEF Max

LEMMA ProductSteps ==
  ASSUME NEW w \in Int, NEW s \in Int
  PROVE  /\ w * s \in Int
         /\ (w - 1) * s = w * s - s
         /\ (w + 1) * s = w * s + s
OBVIOUS

LEMMA Quotient ==
  ASSUME NEW x \in Nat, NEW d \in Nat \ {0}
  PROVE  /\ x \div d \in Nat
         /\ (x \div d) * d <= x
         /\ x < (x \div d) * d + d
OBVIOUS

\* Remainders of numbers that are not far from the modulus.
LEMMA RemainderIs ==
  ASSUME NEW x \in Int, NEW m \in Nat \ {0}
  PROVE  /\ x % m \in 0..(m - 1)
         /\ 0 <= x /\ x < m => x % m = x
         /\ -m <= x /\ x < 0 => x % m = x + m
         /\ m <= x /\ x < 2 * m => x % m = x - m
OBVIOUS

LEMMA ProductOfNaturals ==
  ASSUME NEW x \in Nat, NEW y \in Nat
  PROVE  x * y \in Nat
OBVIOUS

=============================================================================
