-------------------------------- MODULE NatExtrema --------------------------------
(***************************************************************************)
(* Least and greatest elements of sets of naturals: the facts behind every *)
(* `ORDER BY', `min' and `max' of the specifications, which are written as *)
(* CHOOSE of the element that no other one precedes.                       *)
(***************************************************************************)
EXTENDS Naturals, FiniteSetTheorems, FiniteSetsExt, TLAPS

(* A set of naturals that is not empty has a least element.                *)
LEMMA Least ==
  ASSUME NEW S \in SUBSET Nat, S # {}
  PROVE  \E n \in S : \A m \in S : n <= m
<1> DEFINE R == OpToRel(<, Nat)
<1>1. IsWellFoundedOn(R, Nat)
  BY NatLessThanWellFounded
<1>2. R = {p \in Nat \X Nat : p[1] < p[2]}
  BY Zenon DEF OpToRel
<1> HIDE DEF R
<1>3. \E n \in S : \A m \in S : ~(<<m, n>> \in R)
  BY <1>1, WFMin
<1>4. PICK n \in S : \A m \in S : ~(<<m, n>> \in R)
  BY <1>3, Zenon
<1>5. \A m \in S : ~(m < n)
  BY <1>2, <1>4
<1> QED BY <1>4, <1>5

(* One that is also bounded has a greatest element: its least bound.       *)
LEMMA Greatest ==
  ASSUME NEW S \in SUBSET Nat, S # {}, NEW b \in Nat, \A n \in S : n <= b
  PROVE  \E n \in S : \A m \in S : m <= n
<1> DEFINE Bounds == {k \in Nat : \A n \in S : n <= k}
<1>1. PICK k \in Bounds : \A j \in Bounds : k <= j
  BY Least
<1>2. CASE k \in S
  BY <1>2
<1>3. CASE k \notin S
  <2>1. \A n \in S : n < k
    BY <1>1, <1>3
  <2>2. PICK n \in S : n < k
    BY <2>1
  <2>3. n \in Nat /\ k \in Nat /\ k - 1 \in Nat
    BY <2>2
  <2>4. k - 1 \in Bounds
    BY <1>1, <2>1, <2>3
  <2> QED BY <1>1, <2>4
<1> QED BY <1>2, <1>3

(* A finite set of naturals is bounded: were it not, some initial part of  *)
(* its enumeration would be the longest one that is.                       *)
LEMMA FiniteBounded ==
  ASSUME NEW S \in SUBSET Nat, IsFiniteSet(S)
  PROVE  \E b \in Nat : \A n \in S : n <= b
<1> DEFINE N == Cardinality(S)
<1>1. N \in Nat /\ ExistsBijection(1..N, S)
  BY FS_CardinalityType
<1> HIDE DEF N
<1>2. PICK f : f \in Bijection(1..N, S)
  BY <1>1 DEF ExistsBijection
<1>3. /\ f \in [1..N -> S]
      /\ \A s \in S : \E i \in 1..N : f[i] = s
  BY <1>2 DEF Bijection, Surjection
<1> DEFINE Done == {k \in 0..N : \E b \in Nat : \A i \in 1..k : f[i] <= b}
<1>4. 0 \in Done /\ Done \in SUBSET Nat /\ \A j \in Done : j <= N
  BY <1>1
<1>5. PICK k \in Done : \A j \in Done : j <= k
  <2> HIDE DEF Done
  <2> QED BY <1>1, <1>4, Greatest
<1>6. k \in 0..N /\ \E b \in Nat : \A i \in 1..k : f[i] <= b
  OBVIOUS
<1>7. PICK b \in Nat : \A i \in 1..k : f[i] <= b
  BY <1>6
<1>8. CASE k = N
  BY <1>3, <1>7, <1>8
<1>9. CASE k # N
  <2>1. k + 1 \in 1..N /\ k + 1 \in 0..N
    BY <1>1, <1>6, <1>9
  <2>2. \A i \in 1..N : f[i] \in Nat
    BY <1>3
  <2> DEFINE c == IF f[k + 1] <= b THEN b ELSE f[k + 1]
  <2>3. c \in Nat /\ b <= c /\ f[k + 1] <= c
    BY <2>1, <2>2
  <2> HIDE DEF c
  <2>4. ASSUME NEW i \in 1..(k + 1) PROVE f[i] <= c
    <3>1. CASE i = k + 1
      BY <2>3, <3>1
    <3>2. CASE i # k + 1
      <4>1. i \in 1..k /\ f[i] \in Nat
        BY <1>1, <1>6, <2>2, <3>2
      <4> QED BY <1>7, <2>3, <4>1
    <3> QED BY <3>1, <3>2
  <2>5. k + 1 \in Done
    BY <2>1, <2>3, <2>4
  <2>6. k + 1 <= k
    <3> HIDE DEF Done
    <3> QED BY <1>5, <2>5
  <2> QED BY <1>1, <1>6, <2>6
<1> QED BY <1>8, <1>9

(* Min and Max of the community modules, where they are what they say.     *)
LEMMA MinIs ==
  ASSUME NEW S \in SUBSET Nat, S # {}
  PROVE  Min(S) \in S /\ \A n \in S : Min(S) <= n
<1>1. \E n \in S : \A m \in S : n <= m
  BY Least
<1> QED BY <1>1 DEF Min

LEMMA MaxIs ==
  ASSUME NEW S \in SUBSET Nat, S # {}, IsFiniteSet(S)
  PROVE  Max(S) \in S /\ \A n \in S : n <= Max(S)
<1>1. PICK b \in Nat : \A n \in S : n <= b
  BY FiniteBounded
<1>2. \E n \in S : \A m \in S : m <= n
  BY <1>1, Greatest
<1>3. \E n \in S : \A m \in S : n >= m
  BY <1>2
<1> QED BY <1>3 DEF Max
================================================================================
