----------------------------- MODULE Arithmetic -----------------------------
(***************************************************************************)
(* Quotients and remainders, for the proofs about bit numbers and logical  *)
(* blocks, and least elements, for those about the first free one.         *)
(***************************************************************************)
EXTENDS Integers, WellFoundedInduction, TLAPS

\* A set of numbers that is not empty has a least one.
LEMMA LeastElement ==
    ASSUME NEW S \in SUBSET Nat, S # {}
    PROVE  \E p \in S : \A q \in S : p <= q
<1> DEFINE R == {pair \in Nat \X Nat : pair[1] < pair[2]}
<1>1. IsWellFoundedOn(R, Nat)
  BY NatLessThanWellFounded DEF OpToRel
<1> HIDE DEF R
<1>2. PICK p \in S : \A q \in S : ~ (<<q, p>> \in R)
  BY <1>1, WFMin
<1>3. ASSUME NEW q \in S PROVE p <= q
  <2>1. q < p => <<q, p>> \in R
    BY DEF R
  <2> QED
    BY <1>2, <2>1
<1> QED
  BY <1>3

\* Division with remainder.
LEMMA Division ==
    ASSUME NEW a \in Nat, NEW b \in Nat \ {0}
    PROVE  a \div b \in Nat /\ a % b \in 0 .. b - 1 /\ a = b * (a \div b) + (a % b)
OBVIOUS

\* What b is more than a.
LEMMA Excess ==
    ASSUME NEW a \in Nat, NEW b \in Nat, a <= b
    PROVE  \E d \in Nat : b = a + d
<1> WITNESS b - a \in Nat
<1> QED
  OBVIOUS

\* A number below a * b has a quotient by a below b.
LEMMA QuotientBound ==
    ASSUME NEW a \in Nat \ {0}, NEW b \in Nat, NEW p \in 0 .. a * b - 1
    PROVE  p \div a \in 0 .. b - 1
<1>1. p \div a \in Nat /\ p % a >= 0 /\ p = a * (p \div a) + (p % a)
  BY Division
<1>2. SUFFICES ASSUME p \div a >= b PROVE FALSE
  BY <1>1
<1>3. PICK d \in Nat : p \div a = b + d
  BY <1>1, <1>2
<1>4. a * (b + d) = a * b + a * d /\ a * d >= 0
  OBVIOUS
<1> QED
  BY <1>1, <1>3, <1>4

\* Digits: a base and two digits below it determine both parts.
LEMMA Digits ==
    ASSUME NEW b \in Nat \ {0}, NEW x \in Nat, NEW y \in Nat,
           NEW r \in 0 .. b - 1, NEW s \in 0 .. b - 1,
           x * b + r = y * b + s
    PROVE  x = y /\ r = s
<1>1. ASSUME NEW u \in Nat, NEW v \in Nat, u < v PROVE v * b >= u * b + b
  <2>1. PICK d \in Nat : v = u + 1 + d
    BY <1>1
  <2>2. (u + 1 + d) * b = u * b + b + d * b /\ d * b >= 0
    OBVIOUS
  <2> QED
    BY <2>1, <2>2
<1>2. ~ x < y
  BY <1>1
<1>3. ~ y < x
  BY <1>1
<1> QED
  BY <1>2, <1>3

\* A number written as a multiple of b and a rest below b has these as its quotient
\* and its remainder.
LEMMA QuotientUnique ==
    ASSUME NEW b \in Nat \ {0}, NEW x \in Nat, NEW r \in 0 .. b - 1
    PROVE  (x * b + r) \div b = x /\ (x * b + r) % b = r
<1> DEFINE p == x * b + r
<1>1. p \in Nat
  OBVIOUS
<1>2. p \div b \in Nat /\ p % b \in 0 .. b - 1 /\ p = b * (p \div b) + (p % b)
  BY <1>1, Division
<1>3. (p \div b) * b + (p % b) = x * b + r
  BY <1>2
<1> HIDE DEF p
<1>4. p \div b = x /\ p % b = r
  BY <1>2, <1>3, Digits
<1> QED
  BY <1>4 DEF p

\* A larger number has no smaller quotient.
LEMMA QuotientMonotone ==
    ASSUME NEW b \in Nat \ {0}, NEW p \in Nat, NEW q \in Nat, p <= q
    PROVE  p \div b <= q \div b
<1>1. /\ p \div b \in Nat /\ p % b \in 0 .. b - 1 /\ p = b * (p \div b) + (p % b)
      /\ q \div b \in Nat /\ q % b \in 0 .. b - 1 /\ q = b * (q \div b) + (q % b)
  BY Division
<1>2. SUFFICES ASSUME p \div b > q \div b PROVE FALSE
  BY <1>1
<1>3. PICK d \in Nat : p \div b = (q \div b + 1) + d
  BY <1>1, <1>2, Excess
<1>4. ASSUME NEW x \in Nat PROVE b * ((x + 1) + d) = b * x + b + b * d /\ b * d >= 0
  OBVIOUS
<1> QED
  BY <1>1, <1>3, <1>4

=============================================================================
