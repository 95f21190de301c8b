------------------------- MODULE ModularArithmetic -------------------------
(***************************************************************************)
(* Facts about the remainder that counting with wrapping sequence numbers  *)
(* rests on.                                                               *)
(***************************************************************************)
EXTENDS Integers, WellFoundedInduction, TLAPS

(* Quotient and remainder.                                                  *)
LEMMA Division ==
  ASSUME NEW M \in Nat \ {0}, NEW a \in Nat
  PROVE  /\ a = M * (a \div M) + (a % M)
         /\ a % M \in 0 .. M - 1
         /\ a \div M \in Int
OBVIOUS

(* The only multiple of M strictly between -M and M is 0.                   *)
LEMMA SmallMultiple ==
  ASSUME NEW M \in Nat \ {0}, NEW k \in Int, M * k < M, -M < M * k
  PROVE  k = 0
<1>1. CASE k >= 1
  <2>1. M * k >= M * 1
    BY <1>1
  <2>2. QED BY <2>1
<1>2. CASE k <= -1
  <2>1. M * k <= -M
    BY <1>2
  <2>2. QED BY <2>1
<1>3. QED BY <1>1, <1>2

(* Numbers less than M apart are told apart by their remainders.            *)
LEMMA CloseRemainders ==
  ASSUME NEW M \in Nat \ {0}, NEW a \in Nat, NEW b \in Nat,
         a % M = b % M, a - b < M, b - a < M
  PROVE  a = b
<1> DEFINE k == (a \div M) - (b \div M)
<1>1. k \in Int
  BY Division
<1>2. a - b = M * k
  BY Division
<1>3. k = 0
  BY <1>1, <1>2, SmallMultiple
<1>4. QED BY <1>2, <1>3

(* Quotient and remainder are unique.                                       *)
LEMMA UniqueRemainder ==
  ASSUME NEW M \in Nat \ {0}, NEW a \in Nat,
         NEW q \in Int, NEW r \in 0 .. M - 1, a = M * q + r
  PROVE  a % M = r
<1> DEFINE k == (a \div M) - q
<1>1. k \in Int /\ a % M \in 0 .. M - 1
  BY Division
<1>2. M * k = r - (a % M)
  BY Division
<1>3. k = 0
  <2> HIDE DEF k
  <2>1. QED BY <1>1, <1>2, SmallMultiple
<1>4. QED BY <1>1, <1>2, <1>3

(* What is in range is its own remainder, and M itself leaves none.         *)
LEMMA SmallRemainder ==
  ASSUME NEW M \in Nat \ {0}
  PROVE  /\ \A r \in 0 .. M - 1 : r % M = r
         /\ M % M = 0
<1>1. ASSUME NEW r \in 0 .. M - 1 PROVE r % M = r
  <2> DEFINE q == 0
  <2>1. r \in Nat /\ q \in Int /\ r = M * q + r
    OBVIOUS
  <2> HIDE DEF q
  <2>2. QED BY <2>1, UniqueRemainder
<1>2. M % M = 0
  <2> DEFINE q == 1
             r == 0
  <2>1. r \in 0 .. M - 1 /\ q \in Int /\ M = M * q + r
    OBVIOUS
  <2> HIDE DEF q
  <2>2. QED BY <2>1, UniqueRemainder
<1>3. QED BY <1>1, <1>2

(* Counting modulo M.                                                       *)
LEMMA NextRemainder ==
  ASSUME NEW M \in Nat \ {0}, NEW a \in Nat
  PROVE  ((a % M) + 1) % M = (a + 1) % M
<1>1. PICK q \in Int, r \in 0 .. M - 1 : a = M * q + r /\ r = a % M
  BY Division
<1>2. CASE r + 1 < M
  <2>1. r + 1 \in 0 .. M - 1 /\ a + 1 = M * q + (r + 1)
    BY <1>1, <1>2
  <2>2. (a + 1) % M = r + 1
    BY <1>1, <2>1, UniqueRemainder
  <2>3. (r + 1) % M = r + 1
    BY <2>1, SmallRemainder
  <2>4. QED BY <1>1, <2>2, <2>3
<1>3. CASE r + 1 = M
  <2> DEFINE p == q + 1
             zero == 0
  <2>1. p \in Int /\ a + 1 = M * p + zero
    <3>1. M * (q + 1) = M * q + M
      OBVIOUS
    <3>2. a = M * q + r
      BY <1>1
    <3>3. a + 1 = M * p
      BY <1>3, <3>1, <3>2
    <3>4. QED BY <3>3
  <2>2. zero \in 0 .. M - 1 /\ a + 1 \in Nat
    OBVIOUS
  <2> HIDE DEF p, zero
  <2>3. (a + 1) % M = zero
    BY <2>1, <2>2, UniqueRemainder
  <2>4. (r + 1) % M = 0
    BY <1>3, SmallRemainder
  <2>5. QED BY <1>1, <2>3, <2>4 DEF zero
<1>4. QED BY <1>1, <1>2, <1>3

(* One more than a remainder, where that does not wrap.                     *)
LEMMA SuccessorRemainder ==
  ASSUME NEW M \in Nat \ {0}, NEW a \in Nat, NEW b \in Nat,
         (a % M) + 1 = b % M
  PROVE  (a + 1) % M = b % M
<1>1. b % M \in 0 .. M - 1
  BY Division
<1>2. (b % M) % M = b % M
  BY <1>1, SmallRemainder
<1>3. QED BY <1>2, NextRemainder

(* Factors may be reduced first.                                            *)
LEMMA ProductRemainder ==
  ASSUME NEW M \in Nat \ {0}, NEW a \in Nat, NEW b \in Nat
  PROVE  /\ ((a % M) * b) % M = (a * b) % M
         /\ (a * (b % M)) % M = (a * b) % M
         /\ (a % M) % M = a % M
<1>1. ASSUME NEW c \in Nat, NEW d \in Nat PROVE ((c % M) * d) % M = (c * d) % M
  <2>1. PICK q \in Int, r \in 0 .. M - 1 : c = M * q + r /\ r = c % M
    BY Division
  <2>2. r * d \in Nat /\ c * d \in Nat
    OBVIOUS
  <2>3. PICK p \in Int, s \in 0 .. M - 1 : r * d = M * p + s /\ s = (r * d) % M
    BY <2>2, Division
  <2> DEFINE k == q * d + p
  <2>4. c * d = M * k + s
    <3>1. c * d = M * (q * d) + r * d
      <4>1. r \in Nat /\ q \in Int /\ M \in Int
        OBVIOUS
      <4>2. (M * q + r) * d = M * (q * d) + r * d
        BY <4>1
      <4> QED
        BY <2>1, <4>2
    <3>2. M * k = M * (q * d) + M * p
      OBVIOUS
    <3> QED
      BY <2>3, <3>1, <3>2
  <2>5. k \in Int
    OBVIOUS
  <2> HIDE DEF k
  <2>6. (c * d) % M = s
    BY <2>2, <2>4, <2>5, UniqueRemainder
  <2> QED
    BY <2>1, <2>3, <2>6
<1>2. (a * (b % M)) % M = (a * b) % M
  <2>1. b % M \in Nat
    BY Division
  <2>2. a * (b % M) = (b % M) * a /\ a * b = b * a
    BY <2>1
  <2> QED
    BY <1>1, <2>2
<1>3. (a % M) % M = a % M
  <2>1. a % M \in 0 .. M - 1
    BY Division
  <2> QED
    BY <2>1, SmallRemainder
<1> QED
  BY <1>1, <1>2, <1>3

(* What holds of some natural number holds of a first one: induction, in    *)
(* the form that a proof here can use.                                      *)
LEMMA LeastNumber ==
  ASSUME NEW S, S \subseteq Nat, S # {}
  PROVE  \E m \in S : \A n \in S : m <= n
<1>1. IsWellFoundedOn(OpToRel(<, Nat), Nat)
  BY NatLessThanWellFounded
<1>2. PICK m \in S : \A n \in S : ~ (<<n, m>> \in OpToRel(<, Nat))
  BY <1>1, WFMin
<1>3. \A n \in S : ~ (n < m)
  BY <1>2 DEF OpToRel
<1> QED
  BY <1>3
=============================================================================
