---------------------------- MODULE NumberLemmas ----------------------------
(***************************************************************************)
(* Facts about quotients and remainders that the proofs about counters of  *)
(* fixed range, addresses and offsets rest on, and the least element of a  *)
(* set of numbers.                                                         *)
(***************************************************************************)
EXTENDS Integers, WellFoundedInduction, TLAPS

LEMMA Division ==
  ASSUME NEW n \in Int, NEW D \in Nat \ {0}
  PROVE  /\ n = D * (n \div D) + (n % D)
         /\ n \div D \in Int
         /\ n % D \in 0 .. D - 1
  OBVIOUS

LEMMA UniqueRemainder ==
  ASSUME NEW D \in Nat \ {0}, NEW q \in Int, NEW s \in 0 .. D - 1
  PROVE  ((D * q) + s) % D = s
  OBVIOUS

LEMMA UniqueQuotient ==
  ASSUME NEW D \in Nat \ {0}, NEW q \in Int, NEW s \in 0 .. D - 1
  PROVE  ((D * q) + s) \div D = q
  OBVIOUS

LEMMA MultiplesInOrder ==
  ASSUME NEW D \in Nat, NEW a \in Int, NEW b \in Int, a <= b
  PROVE  D * a <= D * b /\ D * a \in Int /\ D * b \in Int
<1>1. D * (b - a) \in Nat
  OBVIOUS
<1>2. D * b = D * a + D * (b - a)
  OBVIOUS
<1> QED
  BY <1>1, <1>2

(* Multiples of D do not show in the remainder.                            *)
LEMMA Congruent ==
  ASSUME NEW D \in Nat \ {0}, NEW x \in Int, NEW k \in Int
  PROVE  (x + D * k) % D = x % D
<1> DEFINE q == x \div D
           s == x % D
<1>1. x = D * q + s /\ q \in Int /\ s \in 0 .. D - 1
  BY Division
<1> HIDE DEF q, s
<1>2. x + D * k = D * (q + k) + s
  BY <1>1
<1>3. (D * (q + k) + s) % D = s
  BY <1>1, UniqueRemainder
<1> QED
  BY <1>2, <1>3 DEF s

(* ... nor does a reduction modulo a multiple of D.                        *)
LEMMA Reduced ==
  ASSUME NEW D \in Nat \ {0}, NEW x \in Int
  PROVE  (x % (D * D)) % D = x % D
<1> DEFINE q == x \div (D * D)
           s == x % (D * D)
<1>1. D * D \in Nat \ {0}
  OBVIOUS
<1>2. x = (D * D) * q + s /\ q \in Int /\ s \in 0 .. (D * D) - 1
  <2> DEFINE E == D * D
  <2> HIDE DEF E
  <2>1. E \in Nat \ {0}
    BY <1>1 DEF E
  <2>2. x = E * (x \div E) + (x % E) /\ x \div E \in Int /\ x % E \in 0 .. E - 1
    BY <2>1, Division
  <2> QED
    BY <2>2 DEF E
<1> HIDE DEF q, s
<1>3. s \in Int /\ D * q \in Int /\ x = s + D * (D * q)
  BY <1>1, <1>2
<1>4. (s + D * (D * q)) % D = s % D
  BY <1>2, <1>3, Congruent
<1> QED
  BY <1>3, <1>4 DEF s

(* Counting on from a remainder is counting on from the number itself.     *)
LEMMA NextRemainder ==
  ASSUME NEW n \in Int, NEW D \in Nat \ {0}
  PROVE  ((n % D) + 1) % D = (n + 1) % D
<1> DEFINE q == n \div D
           s == n % D
<1>1. n = D * q + s /\ q \in Int /\ s \in 0 .. D - 1
  BY Division
<1> HIDE DEF q, s
<1>2. CASE s + 1 < D
  <2>1. (s + 1) % D = s + 1
    BY <1>1, <1>2
  <2>2. (D * q + (s + 1)) % D = s + 1
    BY <1>1, <1>2, UniqueRemainder
  <2> QED
    BY <1>1, <2>1, <2>2 DEF s
<1>3. CASE s + 1 = D
  <2>1. (s + 1) % D = 0
    BY <1>1, <1>3
  <2>2. (D * (q + 1) + 0) % D = 0
    BY <1>1, <1>3, UniqueRemainder
  <2>3. n + 1 = D * (q + 1) + 0
    BY <1>1, <1>3
  <2> QED
    BY <2>1, <2>2, <2>3 DEF s
<1> QED
  BY <1>1, <1>2, <1>3

(* The distance of two numbers less than D apart shows in their remainders.*)
LEMMA RemainderDistance ==
  ASSUME NEW a \in Int, NEW b \in Int, NEW D \in Nat \ {0},
         b <= a, a - b < D
  PROVE  ((a % D) - (b % D)) % D = a - b
<1> DEFINE p == a \div D
           q == b \div D
           s == a % D
           t == b % D
<1>1. a = D * p + s /\ p \in Int /\ s \in 0 .. D - 1
  BY Division
<1>2. b = D * q + t /\ q \in Int /\ t \in 0 .. D - 1
  BY Division
<1> HIDE DEF p, q, s, t
<1>3. s - t = D * (q - p) + (a - b)
  BY <1>1, <1>2
<1>4. (D * (q - p) + (a - b)) % D = a - b
  BY <1>1, <1>2, UniqueRemainder
<1> QED
  BY <1>3, <1>4 DEF s, t

LEMMA SameRemainder ==
  ASSUME NEW a \in Int, NEW b \in Int, NEW D \in Nat \ {0},
         b <= a, a - b < D, a % D = b % D
  PROVE  a = b
<1>1. b % D \in 0 .. D - 1
  BY Division
<1>2. ((a % D) - (b % D)) % D = a - b
  BY RemainderDistance
<1> QED
  BY <1>1, <1>2

(* A set of numbers that is not empty has a least element.                 *)
LEMMA LeastElement ==
  ASSUME NEW Z, Z \subseteq Nat, Z # {}
  PROVE  \E m \in Z : \A k \in Z : m <= k
<1> DEFINE R == {ss \in Nat \X Nat : ss[1] < ss[2]}
<1>1. IsWellFoundedOn(R, Nat)
  BY NatLessThanWellFounded, Zenon DEF OpToRel
<1>2. PICK m \in Z : \A k \in Z : ~(<<k, m>> \in R)
  <2> HIDE DEF R
  <2> QED
    BY <1>1, WFMin
<1>3. ASSUME NEW k \in Z, k < m
      PROVE  FALSE
  <2>1. <<k, m>> \in Nat \X Nat /\ <<k, m>>[1] = k /\ <<k, m>>[2] = m
    OBVIOUS
  <2>2. <<k, m>> \in R
    BY <1>3, <2>1, Zenon
  <2> QED
    BY <1>2, <2>2
<1> QED
  BY <1>3
=============================================================================
