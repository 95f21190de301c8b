---------------------------- MODULE SmsPduProofs ----------------------------
(***************************************************************************)
(* A message of the modem is read as it was meant, whatever its class, its   *)
(* fields and their lengths are: the reader follows the writer.             *)
(*                                                                         *)
(* Whatever bits come after those that the writer has written so far, the   *)
(* reader that has come as far (In) reads the next field as it was written, *)
(* and stops where the writer stopped (Carried, Follows).  That holds for   *)
(* each field of each class, so by as many steps as a class has fields for   *)
(* the whole message, and for the PDU under way, which is one that Encode    *)
(* wrote (PduUnderWay).                                                    *)
(***************************************************************************)
EXTENDS SmsPdu, ModularArithmetic, SequenceTheorems, FiniteSetTheorems, TLAPS

(***************************************************************************)
(* Numbers as bits.                                                        *)
(***************************************************************************)
Bit == 0 .. 1
Begins(B, s) == Len(s) <= Len(B) /\ \A i \in 1 .. Len(s) : B[i] = s[i]
Carries(B, at, s) == at + Len(s) <= Len(B) /\ \A i \in 1 .. Len(s) : B[at + i] = s[i]
Fits(v, n) == v \in Nat /\ v < 2 * Weights[n]
AllFit(numbers, n) == \A i \in 1 .. Len(numbers) : Fits(numbers[i], n)
FirstFew(numbers, count) == [i \in 1 .. count |-> numbers[i]]
Sizes == {1, 2, 3, 4, 7, 8}

LEMMA SeqWider ==
  ASSUME NEW S, NEW T, S \subseteq T, NEW s \in Seq(S)
  PROVE  s \in Seq(T)
<1>1. PICK n \in Nat : n = Len(s)
  BY LenProperties
<1>2. s \in [1 .. n -> T]
  BY <1>1, LenProperties
<1>3. QED BY <1>2

LEMMA BeginsApart ==
  ASSUME NEW B \in Seq(Bit), NEW s \in Seq(Bit), NEW t \in Seq(Bit), Begins(B, s \o t)
  PROVE  Begins(B, s) /\ Carries(B, Len(s), t)
<1>1. /\ s \o t \in Seq(Bit) /\ Len(s \o t) = Len(s) + Len(t)
      /\ Len(s) \in Nat /\ Len(t) \in Nat /\ Len(B) \in Nat
  BY LenProperties, ConcatProperties
<1>2. \A i \in 1 .. Len(s) : (s \o t)[i] = s[i]
  BY <1>1, ConcatProperties
<1>3. \A i \in 1 .. Len(t) : (s \o t)[Len(s) + i] = t[i]
  BY <1>1, ConcatProperties
<1>4. Len(s \o t) <= Len(B) /\ \A i \in 1 .. Len(s \o t) : B[i] = (s \o t)[i]
  BY DEF Begins
<1>5. \A i \in 1 .. Len(s) : B[i] = s[i]
  BY ONLY <1>1, <1>2, <1>4
<1>6. \A i \in 1 .. Len(t) : B[Len(s) + i] = t[i]
  BY ONLY <1>1, <1>3, <1>4
<1>7. QED BY ONLY <1>1, <1>4, <1>5, <1>6 DEF Begins, Carries

LEMMA BeginsWhole ==
  ASSUME NEW B \in Seq(Bit)
  PROVE  Begins(B, B)
BY LenProperties DEF Begins

LEMMA Halving ==
  ASSUME NEW v \in Nat, NEW w \in Nat \ {0}
  PROVE  \E q \in Nat, b \in Bit :
           /\ q = v \div (2 * w) /\ b = (v \div w) % 2 /\ v \div w = 2 * q + b
           /\ v < 2 * w => q = 0
<1>1. v \div w = 2 * (v \div (2 * w)) + ((v \div w) % 2)
  OBVIOUS
<1>2. v \div (2 * w) \in Nat /\ v \div w \in Nat
  BY Division
<1>3. (v \div w) % 2 \in Bit
  BY <1>2 DEF Bit
<1>4. v < 2 * w => v \div (2 * w) = 0
  OBVIOUS
<1>5. QED BY <1>1, <1>2, <1>3, <1>4, Zenon

(* What the reader makes of n bits.                                         *)
LEMMA NumberRead ==
  ASSUME NEW B \in Seq(Bit), NEW at \in Nat, NEW n \in Sizes, NEW v, Fits(v, n),
         \A k \in 1 .. n : B[at + k] = BitOf(v, k)
  PROVE  NumberAt(B, at, n) = v
<1> USE DEF Weights
<1>1. v \in Nat /\ v < 2 * Weights[n]
  BY DEF Fits
<1> v \in Nat
  BY <1>1
<1>2. v \div 1 = v
  OBVIOUS
<1>b1. PICK q1 \in Nat, b1 \in Bit : /\ q1 = v \div 2 /\ b1 = v % 2
                                 /\ v = 2 * q1 + b1 /\ (v < 2 => q1 = 0)
  <2>1. PICK w \in Nat \ {0} : w = 1
    OBVIOUS
  <2>2. PICK q \in Nat, b \in Bit :
          /\ q = v \div (2 * w) /\ b = (v \div w) % 2 /\ v \div w = 2 * q + b
          /\ v < 2 * w => q = 0
    BY <2>1, Halving, Zenon
  <2>3. q = v \div 2 /\ (v < 2 => q = 0)
    BY ONLY <2>1, <2>2
  <2>4. v \div w = v
    BY ONLY <1>2, <2>1
  <2>5. b = v % 2 /\ v = 2 * q + b
    BY ONLY <2>1, <2>2, <2>4
  <2>6. QED BY ONLY <2>3, <2>5, Zenon
<1>b2. PICK q2 \in Nat, b2 \in Bit : /\ q2 = v \div 4 /\ b2 = (v \div 2) % 2
                                 /\ q1 = 2 * q2 + b2 /\ (v < 4 => q2 = 0)
  <2>1. PICK w \in Nat \ {0} : w = 2
    OBVIOUS
  <2>2. PICK q \in Nat, b \in Bit :
          /\ q = v \div (2 * w) /\ b = (v \div w) % 2 /\ v \div w = 2 * q + b
          /\ v < 2 * w => q = 0
    BY <2>1, Halving, Zenon
  <2>3. q = v \div 4 /\ (v < 4 => q = 0)
    BY ONLY <2>1, <2>2
  <2>4. v \div w = q1
    BY ONLY <1>b1, <2>1
  <2>5. b = (v \div 2) % 2 /\ q1 = 2 * q + b
    BY ONLY <2>1, <2>2, <2>4
  <2>6. QED BY ONLY <2>3, <2>5, Zenon
<1>b3. PICK q3 \in Nat, b3 \in Bit : /\ q3 = v \div 8 /\ b3 = (v \div 4) % 2
                                 /\ q2 = 2 * q3 + b3 /\ (v < 8 => q3 = 0)
  <2>1. PICK w \in Nat \ {0} : w = 4
    OBVIOUS
  <2>2. PICK q \in Nat, b \in Bit :
          /\ q = v \div (2 * w) /\ b = (v \div w) % 2 /\ v \div w = 2 * q + b
          /\ v < 2 * w => q = 0
    BY <2>1, Halving, Zenon
  <2>3. q = v \div 8 /\ (v < 8 => q = 0)
    BY ONLY <2>1, <2>2
  <2>4. v \div w = q2
    BY ONLY <1>b2, <2>1
  <2>5. b = (v \div 4) % 2 /\ q2 = 2 * q + b
    BY ONLY <2>1, <2>2, <2>4
  <2>6. QED BY ONLY <2>3, <2>5, Zenon
<1>b4. PICK q4 \in Nat, b4 \in Bit : /\ q4 = v \div 16 /\ b4 = (v \div 8) % 2
                                 /\ q3 = 2 * q4 + b4 /\ (v < 16 => q4 = 0)
  <2>1. PICK w \in Nat \ {0} : w = 8
    OBVIOUS
  <2>2. PICK q \in Nat, b \in Bit :
          /\ q = v \div (2 * w) /\ b = (v \div w) % 2 /\ v \div w = 2 * q + b
          /\ v < 2 * w => q = 0
    BY <2>1, Halving, Zenon
  <2>3. q = v \div 16 /\ (v < 16 => q = 0)
    BY ONLY <2>1, <2>2
  <2>4. v \div w = q3
    BY ONLY <1>b3, <2>1
  <2>5. b = (v \div 8) % 2 /\ q3 = 2 * q + b
    BY ONLY <2>1, <2>2, <2>4
  <2>6. QED BY ONLY <2>3, <2>5, Zenon
<1>b5. PICK q5 \in Nat, b5 \in Bit : /\ q5 = v \div 32 /\ b5 = (v \div 16) % 2
                                 /\ q4 = 2 * q5 + b5 /\ (v < 32 => q5 = 0)
  <2>1. PICK w \in Nat \ {0} : w = 16
    OBVIOUS
  <2>2. PICK q \in Nat, b \in Bit :
          /\ q = v \div (2 * w) /\ b = (v \div w) % 2 /\ v \div w = 2 * q + b
          /\ v < 2 * w => q = 0
    BY <2>1, Halving, Zenon
  <2>3. q = v \div 32 /\ (v < 32 => q = 0)
    BY ONLY <2>1, <2>2
  <2>4. v \div w = q4
    BY ONLY <1>b4, <2>1
  <2>5. b = (v \div 16) % 2 /\ q4 = 2 * q + b
    BY ONLY <2>1, <2>2, <2>4
  <2>6. QED BY ONLY <2>3, <2>5, Zenon
<1>b6. PICK q6 \in Nat, b6 \in Bit : /\ q6 = v \div 64 /\ b6 = (v \div 32) % 2
                                 /\ q5 = 2 * q6 + b6 /\ (v < 64 => q6 = 0)
  <2>1. PICK w \in Nat \ {0} : w = 32
    OBVIOUS
  <2>2. PICK q \in Nat, b \in Bit :
          /\ q = v \div (2 * w) /\ b = (v \div w) % 2 /\ v \div w = 2 * q + b
          /\ v < 2 * w => q = 0
    BY <2>1, Halving, Zenon
  <2>3. q = v \div 64 /\ (v < 64 => q = 0)
    BY ONLY <2>1, <2>2
  <2>4. v \div w = q5
    BY ONLY <1>b5, <2>1
  <2>5. b = (v \div 32) % 2 /\ q5 = 2 * q + b
    BY ONLY <2>1, <2>2, <2>4
  <2>6. QED BY ONLY <2>3, <2>5, Zenon
<1>b7. PICK q7 \in Nat, b7 \in Bit : /\ q7 = v \div 128 /\ b7 = (v \div 64) % 2
                                 /\ q6 = 2 * q7 + b7 /\ (v < 128 => q7 = 0)
  <2>1. PICK w \in Nat \ {0} : w = 64
    OBVIOUS
  <2>2. PICK q \in Nat, b \in Bit :
          /\ q = v \div (2 * w) /\ b = (v \div w) % 2 /\ v \div w = 2 * q + b
          /\ v < 2 * w => q = 0
    BY <2>1, Halving, Zenon
  <2>3. q = v \div 128 /\ (v < 128 => q = 0)
    BY ONLY <2>1, <2>2
  <2>4. v \div w = q6
    BY ONLY <1>b6, <2>1
  <2>5. b = (v \div 64) % 2 /\ q6 = 2 * q + b
    BY ONLY <2>1, <2>2, <2>4
  <2>6. QED BY ONLY <2>3, <2>5, Zenon
<1>b8. PICK q8 \in Nat, b8 \in Bit : /\ q8 = v \div 256 /\ b8 = (v \div 128) % 2
                                 /\ q7 = 2 * q8 + b8 /\ (v < 256 => q8 = 0)
  <2>1. PICK w \in Nat \ {0} : w = 128
    OBVIOUS
  <2>2. PICK q \in Nat, b \in Bit :
          /\ q = v \div (2 * w) /\ b = (v \div w) % 2 /\ v \div w = 2 * q + b
          /\ v < 2 * w => q = 0
    BY <2>1, Halving, Zenon
  <2>3. q = v \div 256 /\ (v < 256 => q = 0)
    BY ONLY <2>1, <2>2
  <2>4. v \div w = q7
    BY ONLY <1>b7, <2>1
  <2>5. b = (v \div 128) % 2 /\ q7 = 2 * q + b
    BY ONLY <2>1, <2>2, <2>4
  <2>6. QED BY ONLY <2>3, <2>5, Zenon
<1>n1. CASE n = 1
  <2>1. v < 2
    BY ONLY <1>1, <1>n1 DEF Weights
  <2>b1. B[at + 1] = b1
    <3>1. B[at + 1] = BitOf(v, 1)
      BY <1>n1
    <3>2. QED BY <1>2, <3>1, <1>b1 DEF BitOf
  <2>2. NumberAt(B, at, n)
          = B[at + 1] * 1 + 0 + 0 + 0 + 0 + 0 + 0 + 0
    BY <1>n1 DEF NumberAt
  <2>3. QED BY ONLY <2>1, <2>2, <2>b1, <1>b1 DEF Bit
<1>n2. CASE n = 2
  <2>1. v < 4
    BY ONLY <1>1, <1>n2 DEF Weights
  <2>b1. B[at + 1] = b1
    <3>1. B[at + 1] = BitOf(v, 1)
      BY <1>n2
    <3>2. QED BY <1>2, <3>1, <1>b1 DEF BitOf
  <2>b2. B[at + 2] = b2
    <3>1. B[at + 2] = BitOf(v, 2)
      BY <1>n2
    <3>2. QED BY <1>2, <3>1, <1>b2 DEF BitOf
  <2>2. NumberAt(B, at, n)
          = B[at + 1] * 1 + B[at + 2] * 2 + 0 + 0 + 0 + 0 + 0 + 0
    BY <1>n2 DEF NumberAt
  <2>3. QED BY ONLY <2>1, <2>2, <2>b1, <1>b1, <2>b2, <1>b2 DEF Bit
<1>n3. CASE n = 3
  <2>1. v < 8
    BY ONLY <1>1, <1>n3 DEF Weights
  <2>b1. B[at + 1] = b1
    <3>1. B[at + 1] = BitOf(v, 1)
      BY <1>n3
    <3>2. QED BY <1>2, <3>1, <1>b1 DEF BitOf
  <2>b2. B[at + 2] = b2
    <3>1. B[at + 2] = BitOf(v, 2)
      BY <1>n3
    <3>2. QED BY <1>2, <3>1, <1>b2 DEF BitOf
  <2>b3. B[at + 3] = b3
    <3>1. B[at + 3] = BitOf(v, 3)
      BY <1>n3
    <3>2. QED BY <1>2, <3>1, <1>b3 DEF BitOf
  <2>2. NumberAt(B, at, n)
          = B[at + 1] * 1 + B[at + 2] * 2 + B[at + 3] * 4 + 0 + 0 + 0 + 0 + 0
    BY <1>n3 DEF NumberAt
  <2>3. QED BY ONLY <2>1, <2>2, <2>b1, <1>b1, <2>b2, <1>b2, <2>b3, <1>b3 DEF Bit
<1>n4. CASE n = 4
  <2>1. v < 16
    BY ONLY <1>1, <1>n4 DEF Weights
  <2>b1. B[at + 1] = b1
    <3>1. B[at + 1] = BitOf(v, 1)
      BY <1>n4
    <3>2. QED BY <1>2, <3>1, <1>b1 DEF BitOf
  <2>b2. B[at + 2] = b2
    <3>1. B[at + 2] = BitOf(v, 2)
      BY <1>n4
    <3>2. QED BY <1>2, <3>1, <1>b2 DEF BitOf
  <2>b3. B[at + 3] = b3
    <3>1. B[at + 3] = BitOf(v, 3)
      BY <1>n4
    <3>2. QED BY <1>2, <3>1, <1>b3 DEF BitOf
  <2>b4. B[at + 4] = b4
    <3>1. B[at + 4] = BitOf(v, 4)
      BY <1>n4
    <3>2. QED BY <1>2, <3>1, <1>b4 DEF BitOf
  <2>2. NumberAt(B, at, n)
          = B[at + 1] * 1 + B[at + 2] * 2 + B[at + 3] * 4 + B[at + 4] * 8 + 0 + 0 + 0 + 0
    BY <1>n4 DEF NumberAt
  <2>3. QED BY ONLY <2>1, <2>2, <2>b1, <1>b1, <2>b2, <1>b2, <2>b3, <1>b3, <2>b4, <1>b4 DEF Bit
<1>n7. CASE n = 7
  <2>1. v < 128
    BY ONLY <1>1, <1>n7 DEF Weights
  <2>b1. B[at + 1] = b1
    <3>1. B[at + 1] = BitOf(v, 1)
      BY <1>n7
    <3>2. QED BY <1>2, <3>1, <1>b1 DEF BitOf
  <2>b2. B[at + 2] = b2
    <3>1. B[at + 2] = BitOf(v, 2)
      BY <1>n7
    <3>2. QED BY <1>2, <3>1, <1>b2 DEF BitOf
  <2>b3. B[at + 3] = b3
    <3>1. B[at + 3] = BitOf(v, 3)
      BY <1>n7
    <3>2. QED BY <1>2, <3>1, <1>b3 DEF BitOf
  <2>b4. B[at + 4] = b4
    <3>1. B[at + 4] = BitOf(v, 4)
      BY <1>n7
    <3>2. QED BY <1>2, <3>1, <1>b4 DEF BitOf
  <2>b5. B[at + 5] = b5
    <3>1. B[at + 5] = BitOf(v, 5)
      BY <1>n7
    <3>2. QED BY <1>2, <3>1, <1>b5 DEF BitOf
  <2>b6. B[at + 6] = b6
    <3>1. B[at + 6] = BitOf(v, 6)
      BY <1>n7
    <3>2. QED BY <1>2, <3>1, <1>b6 DEF BitOf
  <2>b7. B[at + 7] = b7
    <3>1. B[at + 7] = BitOf(v, 7)
      BY <1>n7
    <3>2. QED BY <1>2, <3>1, <1>b7 DEF BitOf
  <2>2. NumberAt(B, at, n)
          = B[at + 1] * 1 + B[at + 2] * 2 + B[at + 3] * 4 + B[at + 4] * 8 + B[at + 5] * 16 + B[at + 6] * 32 + B[at + 7] * 64 + 0
    BY <1>n7 DEF NumberAt
  <2>3. QED BY ONLY <2>1, <2>2, <2>b1, <1>b1, <2>b2, <1>b2, <2>b3, <1>b3, <2>b4, <1>b4, <2>b5, <1>b5, <2>b6, <1>b6, <2>b7, <1>b7 DEF Bit
<1>n8. CASE n = 8
  <2>1. v < 256
    BY ONLY <1>1, <1>n8 DEF Weights
  <2>b1. B[at + 1] = b1
    <3>1. B[at + 1] = BitOf(v, 1)
      BY <1>n8
    <3>2. QED BY <1>2, <3>1, <1>b1 DEF BitOf
  <2>b2. B[at + 2] = b2
    <3>1. B[at + 2] = BitOf(v, 2)
      BY <1>n8
    <3>2. QED BY <1>2, <3>1, <1>b2 DEF BitOf
  <2>b3. B[at + 3] = b3
    <3>1. B[at + 3] = BitOf(v, 3)
      BY <1>n8
    <3>2. QED BY <1>2, <3>1, <1>b3 DEF BitOf
  <2>b4. B[at + 4] = b4
    <3>1. B[at + 4] = BitOf(v, 4)
      BY <1>n8
    <3>2. QED BY <1>2, <3>1, <1>b4 DEF BitOf
  <2>b5. B[at + 5] = b5
    <3>1. B[at + 5] = BitOf(v, 5)
      BY <1>n8
    <3>2. QED BY <1>2, <3>1, <1>b5 DEF BitOf
  <2>b6. B[at + 6] = b6
    <3>1. B[at + 6] = BitOf(v, 6)
      BY <1>n8
    <3>2. QED BY <1>2, <3>1, <1>b6 DEF BitOf
  <2>b7. B[at + 7] = b7
    <3>1. B[at + 7] = BitOf(v, 7)
      BY <1>n8
    <3>2. QED BY <1>2, <3>1, <1>b7 DEF BitOf
  <2>b8. B[at + 8] = b8
    <3>1. B[at + 8] = BitOf(v, 8)
      BY <1>n8
    <3>2. QED BY <1>2, <3>1, <1>b8 DEF BitOf
  <2>2. NumberAt(B, at, n)
          = B[at + 1] * 1 + B[at + 2] * 2 + B[at + 3] * 4 + B[at + 4] * 8 + B[at + 5] * 16 + B[at + 6] * 32 + B[at + 7] * 64 + B[at + 8] * 128
    BY <1>n8 DEF NumberAt
  <2>3. QED BY ONLY <2>1, <2>2, <2>b1, <1>b1, <2>b2, <1>b2, <2>b3, <1>b3, <2>b4, <1>b4, <2>b5, <1>b5, <2>b6, <1>b6, <2>b7, <1>b7, <2>b8, <1>b8 DEF Bit
<1>q. QED BY <1>n1, <1>n2, <1>n3, <1>n4, <1>n7, <1>n8 DEF Sizes

LEMMA BitTyped ==
  ASSUME NEW v \in Nat, NEW k \in 1 .. 8
  PROVE  BitOf(v, k) \in Bit
<1>1. Weights[k] \in Nat \ {0}
  BY DEF Weights
<1>2. PICK w \in Nat \ {0} : w = Weights[k]
  BY <1>1
<1>3. v \div w \in Nat
  BY Division
<1>4. QED BY <1>2, <1>3 DEF BitOf, Bit

LEMMA Place ==
  ASSUME NEW n \in Sizes, NEW j \in Nat \ {0}, NEW k \in 1 .. n, NEW L \in Nat, j <= L,
         NEW i, i = n * (j - 1) + k
  PROVE  i \in 1 .. n * L /\ ((i - 1) \div n) + 1 = j /\ ((i - 1) % n) + 1 = k
<1>1. CASE n = 1
  BY <1>1
<1>2. CASE n = 2
  BY <1>2
<1>3. CASE n = 3
  BY <1>3
<1>4. CASE n = 4
  BY <1>4
<1>5. CASE n = 7
  BY <1>5
<1>6. CASE n = 8
  BY <1>6
<1>7. QED BY <1>1, <1>2, <1>3, <1>4, <1>5, <1>6 DEF Sizes

LEMMA PlaceFound ==
  ASSUME NEW n \in Sizes, NEW L \in Nat, NEW i \in 1 .. n * L
  PROVE  ((i - 1) \div n) + 1 \in 1 .. L /\ ((i - 1) % n) + 1 \in 1 .. n /\ n \in 1 .. 8
<1>1. CASE n = 1
  BY <1>1
<1>2. CASE n = 2
  BY <1>2
<1>3. CASE n = 3
  BY <1>3
<1>4. CASE n = 4
  BY <1>4
<1>5. CASE n = 7
  BY <1>5
<1>6. CASE n = 8
  BY <1>6
<1>7. QED BY <1>1, <1>2, <1>3, <1>4, <1>5, <1>6 DEF Sizes

LEMMA ManyBits ==
  ASSUME NEW numbers \in Seq(Nat), NEW n \in Sizes
  PROVE  /\ BitsOf(numbers, n) \in Seq(Bit)
         /\ Len(BitsOf(numbers, n)) = n * Len(numbers)
         /\ \A j \in 1 .. Len(numbers), k \in 1 .. n :
              BitsOf(numbers, n)[n * (j - 1) + k] = BitOf(numbers[j], k)
<1>1. PICK L \in Nat : L = Len(numbers)
  BY LenProperties
<1>2. n \in Nat /\ n * L \in Nat
  BY DEF Sizes
<1>3. \A i \in 1 .. n * L : BitOf(numbers[((i - 1) \div n) + 1], ((i - 1) % n) + 1) \in Bit
  <2> SUFFICES ASSUME NEW i \in 1 .. n * L
               PROVE  BitOf(numbers[((i - 1) \div n) + 1], ((i - 1) % n) + 1) \in Bit
    OBVIOUS
  <2>1. PICK j, k : j = ((i - 1) \div n) + 1 /\ k = ((i - 1) % n) + 1
    OBVIOUS
  <2>2. j \in 1 .. L /\ k \in 1 .. n /\ n \in 1 .. 8
    BY <2>1, PlaceFound
  <2>3. numbers[j] \in Nat
    BY <1>1, <2>2, ElementOfSeq
  <2>4. k \in 1 .. 8
    BY <2>2
  <2>5. BitOf(numbers[j], k) \in Bit
    BY <2>3, <2>4, BitTyped
  <2>6. QED BY <2>1, <2>5, Zenon
<1>4. BitsOf(numbers, n) = [i \in 1 .. n * L |-> BitOf(numbers[((i - 1) \div n) + 1], ((i - 1) % n) + 1)]
  BY <1>1, Zenon DEF BitsOf
<1>5. BitsOf(numbers, n) \in [1 .. n * L -> Bit]
  BY ONLY <1>3, <1>4, Zenon
<1>6. BitsOf(numbers, n) \in Seq(Bit) /\ Len(BitsOf(numbers, n)) = n * L
  BY ONLY <1>2, <1>5
<1>7. ASSUME NEW j \in 1 .. L, NEW k \in 1 .. n
      PROVE  BitsOf(numbers, n)[n * (j - 1) + k] = BitOf(numbers[j], k)
  <2>1. PICK i : i = n * (j - 1) + k
    OBVIOUS
  <2>2. i \in 1 .. n * L /\ ((i - 1) \div n) + 1 = j /\ ((i - 1) % n) + 1 = k
    <3>1. j \in Nat \ {0} /\ j <= L
      OBVIOUS
    <3>2. QED BY <1>1, <2>1, <3>1, Place
  <2>3. BitsOf(numbers, n)[i] = BitOf(numbers[((i - 1) \div n) + 1], ((i - 1) % n) + 1)
    BY ONLY <1>4, <2>2, Zenon
  <2>4. QED BY ONLY <2>1, <2>2, <2>3, Zenon
<1>8. QED BY <1>1, <1>6, <1>7, Zenon

-----------------------------------------------------------------------------
(* The reader that has come as far as the writer, and what moves it.        *)
Reader(bits, at, mark, val, has, msg) ==
  [bits |-> bits, at |-> at, mark |-> mark, val |-> val, has |-> has, ok |-> TRUE, msg |-> msg]

LEMMA ReaderFields ==
  ASSUME NEW B, NEW p, NEW k, NEW v, NEW h, NEW g
  PROVE  /\ Reader(B, p, k, v, h, g).bits = B /\ Reader(B, p, k, v, h, g).at = p
         /\ Reader(B, p, k, v, h, g).mark = k /\ Reader(B, p, k, v, h, g).val = v
         /\ Reader(B, p, k, v, h, g).has = h /\ Reader(B, p, k, v, h, g).ok
         /\ Reader(B, p, k, v, h, g).msg = g
<1>1. PICK t : t = TRUE
  OBVIOUS
<1>2. PICK r : r = Reader(B, p, k, v, h, g)
  BY ONLY Zenon
<1>3. r = [bits |-> B, at |-> p, mark |-> k, val |-> v, has |-> h, ok |-> t, msg |-> g]
  BY ONLY <1>1, <1>2, Zenon DEF Reader
<1>4. /\ r.bits = B /\ r.at = p /\ r.mark = k /\ r.val = v /\ r.has = h /\ r.ok = t /\ r.msg = g
  BY ONLY <1>3
<1>5. QED BY ONLY <1>1, <1>2, <1>4, Zenon

LEMMA ReaderMoves ==
  ASSUME NEW B, NEW p, NEW k, NEW v, NEW h, NEW g
  PROVE  /\ \A x : [Reader(B, p, k, v, h, g) EXCEPT !.at = x] = Reader(B, x, k, v, h, g)
         /\ \A x : [Reader(B, p, k, v, h, g) EXCEPT !.mark = x] = Reader(B, p, x, v, h, g)
         /\ \A x : [Reader(B, p, k, v, h, g) EXCEPT !.val = x] = Reader(B, p, k, x, h, g)
         /\ \A x : [Reader(B, p, k, v, h, g) EXCEPT !.has = x] = Reader(B, p, k, v, x, g)
         /\ \A x : [Reader(B, p, k, v, h, g) EXCEPT !.msg = x] = Reader(B, p, k, v, h, x)
<1>1. PICK t : t = TRUE
  OBVIOUS
<1>2. \A b, q, l, w, y, f : Reader(b, q, l, w, y, f)
        = [bits |-> b, at |-> q, mark |-> l, val |-> w, has |-> y, ok |-> t, msg |-> f]
  BY ONLY <1>1, Zenon DEF Reader
<1>3. PICK r : r = Reader(B, p, k, v, h, g)
  BY ONLY Zenon
<1>4. r = [bits |-> B, at |-> p, mark |-> k, val |-> v, has |-> h, ok |-> t, msg |-> g]
  BY ONLY <1>2, <1>3, Zenon
<1>6. \A x : [r EXCEPT !.at = x]
        = [bits |-> B, at |-> x, mark |-> k, val |-> v, has |-> h, ok |-> t, msg |-> g]
  BY ONLY <1>4
<1>7. \A x : [r EXCEPT !.mark = x]
        = [bits |-> B, at |-> p, mark |-> x, val |-> v, has |-> h, ok |-> t, msg |-> g]
  BY ONLY <1>4
<1>8. \A x : [r EXCEPT !.val = x]
        = [bits |-> B, at |-> p, mark |-> k, val |-> x, has |-> h, ok |-> t, msg |-> g]
  BY ONLY <1>4
<1>9. \A x : [r EXCEPT !.has = x]
        = [bits |-> B, at |-> p, mark |-> k, val |-> v, has |-> x, ok |-> t, msg |-> g]
  BY ONLY <1>4
<1>10. \A x : [r EXCEPT !.msg = x]
        = [bits |-> B, at |-> p, mark |-> k, val |-> v, has |-> h, ok |-> t, msg |-> x]
  BY ONLY <1>4
<1>11. QED BY ONLY <1>2, <1>3, <1>6, <1>7, <1>8, <1>9, <1>10, Zenon

LEMMA ManyRead ==
  ASSUME NEW B \in Seq(Bit), NEW at \in Nat, NEW n \in Sizes, NEW numbers \in Seq(Nat),
         AllFit(numbers, n),
         Carries(B, at, BitsOf(numbers, n)),
         NEW count \in 0 .. Len(numbers), NEW k, NEW v, NEW h, NEW g
  PROVE  GetMany(Reader(B, at, k, v, h, g), n, count)
           = Reader(B, at + n * count, k, FirstFew(numbers, count), h, g)
<1>1. PICK L \in Nat : L = Len(numbers)
  BY LenProperties
<1>2. /\ Len(BitsOf(numbers, n)) = n * L
      /\ \A j \in 1 .. L, i \in 1 .. n : BitsOf(numbers, n)[n * (j - 1) + i] = BitOf(numbers[j], i)
  BY <1>1, ManyBits, Zenon
<1>3. n \in Nat /\ n * count \in Nat /\ n * L \in Nat /\ n * count <= n * L /\ Len(B) \in Nat
  <2>1. n \in Nat /\ count \in Nat /\ count <= L
    BY <1>1 DEF Sizes
  <2>2. CASE n = 1
    BY <2>1, <2>2
  <2>3. CASE n = 2
    BY <2>1, <2>3
  <2>4. CASE n = 3
    BY <2>1, <2>4
  <2>5. CASE n = 4
    BY <2>1, <2>5
  <2>6. CASE n = 7
    BY <2>1, <2>6
  <2>7. CASE n = 8
    BY <2>1, <2>7
  <2>8. QED BY <2>2, <2>3, <2>4, <2>5, <2>6, <2>7, LenProperties DEF Sizes
<1>4. at + n * L <= Len(B) /\ \A i \in 1 .. n * L : B[at + i] = BitsOf(numbers, n)[i]
  BY <1>2, Zenon DEF Carries
<1>5. ~ (at + n * count > Len(B))
  <2>1. PICK x \in Nat, y \in Nat, z \in Nat : x = n * count /\ y = n * L /\ z = Len(B)
    BY <1>3, Zenon
  <2>2. x <= y /\ at + y <= z
    BY ONLY <1>3, <1>4, <2>1, Zenon
  <2>3. ~ (at + x > z)
    BY <2>2
  <2>4. QED BY ONLY <2>1, <2>3, Zenon
<1>6. \A j \in 1 .. count : NumberAt(B, at + n * (j - 1), n) = numbers[j]
  <2> SUFFICES ASSUME NEW j \in 1 .. count PROVE NumberAt(B, at + n * (j - 1), n) = numbers[j]
    OBVIOUS
  <2>1. j \in Nat \ {0} /\ j <= L /\ j \in 1 .. L
    BY <1>1
  <2>2. PICK p : p = n * (j - 1)
    OBVIOUS
  <2>3. p \in Nat /\ at + p \in Nat
    <3>1. PICK q \in Nat : q = j - 1
      BY <2>1
    <3>2. n * q \in Nat
      BY <1>3
    <3>3. p \in Nat
      BY ONLY <2>2, <3>1, <3>2, Zenon
    <3>4. QED BY <3>3
  <2>4. \A i \in 1 .. n : p + i \in 1 .. n * L
    BY <2>1, <2>2, Place
  <2>5. \A i \in 1 .. n : B[(at + p) + i] = BitOf(numbers[j], i)
    <3> SUFFICES ASSUME NEW i \in 1 .. n PROVE B[(at + p) + i] = BitOf(numbers[j], i)
      OBVIOUS
    <3>1. (at + p) + i = at + (p + i)
      BY <1>3, <2>3
    <3>2. B[at + (p + i)] = BitsOf(numbers, n)[p + i]
      BY ONLY <1>4, <2>4, Zenon
    <3>3. BitsOf(numbers, n)[p + i] = BitOf(numbers[j], i)
      BY ONLY <1>2, <2>1, <2>2, Zenon
    <3>4. QED BY ONLY <3>1, <3>2, <3>3, Zenon
  <2>6. Fits(numbers[j], n)
    BY <1>1, <2>1, Zenon DEF AllFit
  <2>7. NumberAt(B, at + p, n) = numbers[j]
    BY <2>3, <2>5, <2>6, NumberRead, Zenon
  <2>8. QED BY ONLY <2>2, <2>7, Zenon
<1>7. PICK d : d = Reader(B, at, k, v, h, g)
  BY ONLY Zenon
<1>8. d.at = at /\ d.bits = B
  BY ONLY <1>7, ReaderFields
<1>9. PICK val : val = [i \in 1 .. count |-> NumberAt(B, at + n * (i - 1), n)]
  BY ONLY Zenon
<1>10. GetMany(d, n, count) = [d EXCEPT !.at = at + n * count, !.val = val]
  BY ONLY <1>5, <1>8, <1>9, Zenon DEF GetMany
<1>11. [d EXCEPT !.at = at + n * count, !.val = val]
         = [[d EXCEPT !.at = at + n * count] EXCEPT !.val = val]
  BY ONLY Zenon
<1>12. GetMany(d, n, count) = Reader(B, at + n * count, k, val, h, g)
  <2>1. [d EXCEPT !.at = at + n * count] = Reader(B, at + n * count, k, v, h, g)
    BY ONLY <1>7, ReaderMoves
  <2>2. [Reader(B, at + n * count, k, v, h, g) EXCEPT !.val = val]
          = Reader(B, at + n * count, k, val, h, g)
    BY ONLY ReaderMoves
  <2>3. QED BY ONLY <1>10, <1>11, <2>1, <2>2, Zenon
<1>13. val = FirstFew(numbers, count)
  BY ONLY <1>6, <1>9, Zenon DEF FirstFew
<1>14. QED BY ONLY <1>7, <1>12, <1>13, Zenon

-----------------------------------------------------------------------------
(* The writer, and the reader beside it.                                    *)
Writers == [bits : Seq(Bit), mark : Nat]
In(B, e, val, has, msg) == Reader(B, Len(e.bits), e.mark, val, has, msg)
Extends(e, f) == f \in Writers /\ \A B \in Seq(Bit) : Begins(B, f.bits) => Begins(B, e.bits)

LEMMA WriterParts ==
  ASSUME NEW e \in Writers
  PROVE  e.bits \in Seq(Bit) /\ e.mark \in Nat /\ Len(e.bits) \in Nat
BY LenProperties DEF Writers

LEMMA ExtendsOn ==
  ASSUME NEW e, NEW f, NEW k, Extends(e, f), Extends(f, k)
  PROVE  Extends(e, k)
BY Zenon DEF Extends

LEMMA BitsSet ==
  ASSUME NEW e \in Writers, NEW s \in Seq(Bit)
  PROVE  /\ Extends(e, SetBits(e, s)) /\ SetBits(e, s) \in Writers
         /\ SetBits(e, s).bits = e.bits \o s /\ SetBits(e, s).mark = e.mark
         /\ Len(SetBits(e, s).bits) = Len(e.bits) + Len(s)
<1>1. e.bits \o s \in Seq(Bit) /\ Len(e.bits \o s) = Len(e.bits) + Len(s)
  BY WriterParts, ConcatProperties
<1>2. PICK f : f = SetBits(e, s)
  OBVIOUS
<1>3. f = [e EXCEPT !.bits = e.bits \o s]
  BY ONLY <1>2, Zenon DEF SetBits
<1>4. f \in Writers /\ f.bits = e.bits \o s /\ f.mark = e.mark
  BY <1>1, <1>3 DEF Writers
<1>5. \A B \in Seq(Bit) : Begins(B, f.bits) => Begins(B, e.bits)
  BY <1>4, WriterParts, BeginsApart
<1>6. QED BY ONLY <1>1, <1>2, <1>4, <1>5, Zenon DEF Extends

LEMMA BitsAgain ==
  ASSUME NEW v \in Nat, NEW n \in Sizes
  PROVE  Bits(v, n) = BitsOf(<<v>>, n) /\ Bits(v, n) \in Seq(Bit) /\ Len(Bits(v, n)) = n
<1>1. n \in Nat
  BY DEF Sizes
<1>2. <<v>> \in Seq(Nat) /\ Len(<<v>>) = 1 /\ <<v>>[1] = v /\ n * 1 = n
  BY <1>1
<1>3. \A i \in 1 .. n : ((i - 1) \div n) + 1 = 1 /\ ((i - 1) % n) + 1 = i
  <2>1. CASE n = 1
    BY <2>1
  <2>2. CASE n = 2
    BY <2>2
  <2>3. CASE n = 3
    BY <2>3
  <2>4. CASE n = 4
    BY <2>4
  <2>5. CASE n = 7
    BY <2>5
  <2>6. CASE n = 8
    BY <2>6
  <2>7. QED BY <2>1, <2>2, <2>3, <2>4, <2>5, <2>6 DEF Sizes
<1>4. BitsOf(<<v>>, n)
        = [i \in 1 .. n |-> BitOf(<<v>>[((i - 1) \div n) + 1], ((i - 1) % n) + 1)]
  BY <1>2, Zenon DEF BitsOf
<1>5. \A i \in 1 .. n :
        BitOf(<<v>>[((i - 1) \div n) + 1], ((i - 1) % n) + 1) = BitOf(v, i)
  BY ONLY <1>2, <1>3, Zenon
<1>6. Bits(v, n) = BitsOf(<<v>>, n)
  BY ONLY <1>4, <1>5, Zenon DEF Bits
<1>7. BitsOf(<<v>>, n) \in Seq(Bit) /\ Len(BitsOf(<<v>>, n)) = n * Len(<<v>>)
  BY <1>2, ManyBits
<1>8. QED BY ONLY <1>2, <1>6, <1>7, Zenon

LEMMA Zeroes ==
  ASSUME NEW n \in 0 .. 7
  PROVE  Bits(0, n) \in Seq(Bit) /\ Len(Bits(0, n)) = n
<1>1. \A k \in 1 .. n : BitOf(0, k) \in Bit
  BY BitTyped
<1>2. Bits(0, n) \in [1 .. n -> Bit]
  BY <1>1, Zenon DEF Bits
<1>3. QED BY <1>2

(* Numbers of n bits are read as they were written.                         *)
LEMMA NumbersRead ==
  ASSUME NEW B \in Seq(Bit), NEW e \in Writers, NEW n \in Sizes, NEW numbers \in Seq(Nat),
         AllFit(numbers, n),
         Begins(B, SetBits(e, BitsOf(numbers, n)).bits)
  PROVE  \A v, h, g : GetMany(In(B, e, v, h, g), n, Len(numbers))
                        = In(B, SetBits(e, BitsOf(numbers, n)), numbers, h, g)
<1>0. SUFFICES ASSUME NEW v, NEW h, NEW g
               PROVE  GetMany(In(B, e, v, h, g), n, Len(numbers))
                        = In(B, SetBits(e, BitsOf(numbers, n)), numbers, h, g)
  BY Zenon
<1>1. PICK s \in Seq(Bit) : s = BitsOf(numbers, n) /\ Len(s) = n * Len(numbers)
  BY ManyBits, Zenon
<1>2. PICK f : f = SetBits(e, s)
  OBVIOUS
<1>3. /\ Extends(e, f) /\ f.bits = e.bits \o s /\ f.mark = e.mark
      /\ Len(f.bits) = Len(e.bits) + n * Len(numbers)
  BY ONLY <1>1, <1>2, e \in Writers, BitsSet
<1>4. Carries(B, Len(e.bits), s)
  BY <1>1, <1>2, <1>3, WriterParts, BeginsApart
<1>5. Len(numbers) \in 0 .. Len(numbers) /\ Len(e.bits) \in Nat
  BY LenProperties, WriterParts
<1>6. GetMany(Reader(B, Len(e.bits), e.mark, v, h, g), n, Len(numbers))
        = Reader(B, Len(e.bits) + n * Len(numbers), e.mark, FirstFew(numbers, Len(numbers)), h, g)
  <2>1. Carries(B, Len(e.bits), BitsOf(numbers, n))
    BY ONLY <1>1, <1>4, Zenon
  <2>a. B \in Seq(Bit) /\ n \in Sizes /\ numbers \in Seq(Nat) /\ AllFit(numbers, n)
    OBVIOUS
  <2>b. \A at \in Nat : Carries(B, at, BitsOf(numbers, n)) => \A count \in 0 .. Len(numbers) :
          \A k1, v1, h1, g1 : GetMany(Reader(B, at, k1, v1, h1, g1), n, count)
           = Reader(B, at + n * count, k1, FirstFew(numbers, count), h1, g1)
    BY ONLY <2>a, ManyRead, Zenon
  <2>c. \A count \in 0 .. Len(numbers) :
          \A k1, v1, h1, g1 : GetMany(Reader(B, Len(e.bits), k1, v1, h1, g1), n, count)
           = Reader(B, Len(e.bits) + n * count, k1, FirstFew(numbers, count), h1, g1)
    BY ONLY <1>5, <2>1, <2>b, Zenon
  <2>2. QED BY ONLY <1>5, <2>c, Zenon
<1>7. FirstFew(numbers, Len(numbers)) = numbers
  BY DEF FirstFew
<1>8. QED BY ONLY <1>1, <1>2, <1>3, <1>6, <1>7, Zenon DEF In

LEMMA FirstRead ==
  ASSUME NEW B, NEW e, NEW numbers, NEW h, NEW g
  PROVE  FirstOf(In(B, e, numbers, h, g)) = In(B, e, numbers[1], h, g)
<1>1. PICK d : d = In(B, e, numbers, h, g)
  OBVIOUS
<1>2. d.ok /\ d.val = numbers
  BY ONLY <1>1, ReaderFields DEF In
<1>3. FirstOf(d) = [d EXCEPT !.val = numbers[1]]
  BY ONLY <1>2, Zenon DEF FirstOf
<1>4. [d EXCEPT !.val = numbers[1]] = In(B, e, numbers[1], h, g)
  BY ONLY <1>1, ReaderMoves DEF In
<1>5. QED BY ONLY <1>1, <1>3, <1>4, Zenon

LEMMA NumberOfBits ==
  ASSUME NEW B \in Seq(Bit), NEW e \in Writers, NEW n \in Sizes, NEW x, Fits(x, n),
         Begins(B, SetBits(e, Bits(x, n)).bits)
  PROVE  \A v, h, g : GetBits(In(B, e, v, h, g), n) = In(B, SetBits(e, Bits(x, n)), x, h, g)
<1>0. SUFFICES ASSUME NEW v, NEW h, NEW g
               PROVE  GetBits(In(B, e, v, h, g), n) = In(B, SetBits(e, Bits(x, n)), x, h, g)
  BY Zenon
<1>1. x \in Nat
  BY DEF Fits
<1>2. PICK numbers : numbers = <<x>>
  OBVIOUS
<1>3. numbers \in Seq(Nat) /\ Len(numbers) = 1 /\ numbers[1] = x
  BY <1>1, <1>2
<1>4. AllFit(numbers, n)
  BY <1>3 DEF AllFit
<1>5. Bits(x, n) = BitsOf(numbers, n)
  BY <1>1, <1>2, BitsAgain, Zenon
<1>6. PICK f : f = SetBits(e, Bits(x, n))
  OBVIOUS
<1>7. Begins(B, f.bits) /\ f = SetBits(e, BitsOf(numbers, n))
  BY <1>5, <1>6, Zenon
<1>8. GetMany(In(B, e, v, h, g), n, 1) = In(B, f, numbers, h, g)
  <2>1. Begins(B, SetBits(e, BitsOf(numbers, n)).bits)
    BY ONLY <1>7, Zenon
  <2>2. \A v1, h1, g1 : GetMany(In(B, e, v1, h1, g1), n, Len(numbers))
                          = In(B, SetBits(e, BitsOf(numbers, n)), numbers, h1, g1)
    BY <1>3, <1>4, <2>1, NumbersRead, Zenon
  <2>3. QED BY ONLY <1>3, <1>7, <2>2, Zenon
<1>9. FirstOf(In(B, f, numbers, h, g)) = In(B, f, x, h, g)
  BY ONLY <1>3, FirstRead
<1>10. QED BY ONLY <1>6, <1>8, <1>9, Zenon DEF GetBits

NumberIn(e, f, n, x) ==
  \A B \in Seq(Bit) : Begins(B, f.bits) =>
    \A v, h, g : GetBits(In(B, e, v, h, g), n) = In(B, f, x, h, g)

LEMMA NumberWritten ==
  ASSUME NEW e \in Writers, NEW n \in Sizes, NEW x, Fits(x, n)
  PROVE  \E f \in Writers : /\ f = SetBits(e, Bits(x, n)) /\ Extends(e, f) /\ f.mark = e.mark
                            /\ Len(f.bits) = Len(e.bits) + n /\ NumberIn(e, f, n, x)
<1>1. x \in Nat
  BY DEF Fits
<1>2. PICK s \in Seq(Bit) : s = Bits(x, n) /\ Len(s) = n
  BY <1>1, BitsAgain, Zenon
<1>3. PICK f \in Writers : /\ f = SetBits(e, s) /\ Extends(e, f) /\ f.mark = e.mark
                           /\ Len(f.bits) = Len(e.bits) + Len(s)
  BY BitsSet, Zenon
<1>4. ASSUME NEW B \in Seq(Bit), Begins(B, f.bits), NEW v, NEW h, NEW g
      PROVE  GetBits(In(B, e, v, h, g), n) = In(B, f, x, h, g)
  <2>1. Begins(B, SetBits(e, Bits(x, n)).bits)
    BY ONLY <1>2, <1>3, <1>4, Zenon
  <2>2. \A v1, h1, g1 : GetBits(In(B, e, v1, h1, g1), n) = In(B, SetBits(e, Bits(x, n)), x, h1, g1)
    BY <2>1, NumberOfBits
  <2>3. GetBits(In(B, e, v, h, g), n) = In(B, SetBits(e, Bits(x, n)), x, h, g)
    BY ONLY <2>2
  <2>4. QED BY ONLY <1>2, <1>3, <2>3, Zenon
<1>5. NumberIn(e, f, n, x)
  BY ONLY <1>4, Zenon DEF NumberIn
<1>6. QED BY ONLY <1>2, <1>3, <1>5, f \in Writers, Zenon

-----------------------------------------------------------------------------
(* Where octets and septets begin.                                          *)
LEMMA OctetAligned ==
  ASSUME NEW e \in Writers
  PROVE  /\ Extends(e, AlignOctet(e)) /\ AlignOctet(e) \in Writers
         /\ AlignOctet(e).mark = e.mark
         /\ Len(AlignOctet(e).bits) = Len(e.bits) + ((-Len(e.bits)) % 8)
         /\ Len(AlignOctet(e).bits) % 8 = 0
<1>1. PICK L \in Nat : L = Len(e.bits)
  BY WriterParts
<1>2. PICK r \in 0 .. 7 : r = (-L) % 8
  OBVIOUS
<1>3. PICK s \in Seq(Bit) : s = Bits(0, r) /\ Len(s) = r
  BY Zeroes, Zenon
<1>4. AlignOctet(e) = SetBits(e, s)
  BY ONLY <1>1, <1>2, <1>3, Zenon DEF AlignOctet
<1>5. PICK f : f = SetBits(e, s)
  OBVIOUS
<1>6. Extends(e, f) /\ f \in Writers /\ f.mark = e.mark /\ Len(f.bits) = L + r
  BY <1>1, <1>3, <1>5, BitsSet
<1>7. (L + r) % 8 = 0
  BY ONLY <1>2
<1>8. QED BY ONLY <1>1, <1>2, <1>4, <1>5, <1>6, <1>7, Zenon

LEMMA AlignedAlready ==
  ASSUME NEW e \in Writers, Len(e.bits) % 8 = 0
  PROVE  AlignOctet(e) = e
<1>1. PICK L \in Nat : L = Len(e.bits)
  BY WriterParts
<1>2. (-L) % 8 = 0
  <2>1. L % 8 = 0
    BY ONLY <1>1, Len(e.bits) % 8 = 0, Zenon
  <2>2. QED BY ONLY <2>1, L \in Nat
<1>3. Bits(0, 0) = <<>>
  BY Zeroes
<1>4. AlignOctet(e) = [e EXCEPT !.bits = e.bits \o <<>>]
  BY ONLY <1>1, <1>2, <1>3, Zenon DEF AlignOctet, SetBits
<1>5. e.bits \o <<>> = e.bits
  BY WriterParts
<1>6. [e EXCEPT !.bits = e.bits] = e
  BY DEF Writers
<1>7. QED BY ONLY <1>4, <1>5, <1>6, Zenon

LEMMA ToOctetRead ==
  ASSUME NEW e \in Writers
  PROVE  \A B, v, h, g : ToOctet(In(B, e, v, h, g)) = In(B, AlignOctet(e), v, h, g)
<1>1. SUFFICES ASSUME NEW B, NEW v, NEW h, NEW g
               PROVE  ToOctet(In(B, e, v, h, g)) = In(B, AlignOctet(e), v, h, g)
  BY Zenon
<1>2. PICK d : d = In(B, e, v, h, g)
  OBVIOUS
<1>3. d.at = Len(e.bits)
  BY ONLY <1>2, ReaderFields DEF In
<1>4. PICK p : p = Len(e.bits) + ((-Len(e.bits)) % 8)
  OBVIOUS
<1>5. ToOctet(d) = [d EXCEPT !.at = p]
  BY ONLY <1>3, <1>4, Zenon DEF ToOctet
<1>6. [d EXCEPT !.at = p] = Reader(B, p, e.mark, v, h, g)
  BY ONLY <1>2, ReaderMoves DEF In
<1>7. AlignOctet(e).mark = e.mark /\ Len(AlignOctet(e).bits) = p
  BY <1>4, OctetAligned, Zenon
<1>8. QED BY ONLY <1>2, <1>5, <1>6, <1>7, Zenon DEF In

LEMMA SeptetAligned ==
  ASSUME NEW e \in Writers
  PROVE  /\ Extends(e, AlignSeptet(e)) /\ AlignSeptet(e) \in Writers
         /\ AlignSeptet(e).mark = e.mark
         /\ Len(AlignSeptet(e).bits) = Len(e.bits) + ((e.mark - Len(e.bits)) % 7)
<1>1. PICK L \in Nat, k \in Nat : L = Len(e.bits) /\ k = e.mark
  BY WriterParts
<1>2. PICK r \in 0 .. 7 : r = (k - L) % 7
  OBVIOUS
<1>3. PICK s \in Seq(Bit) : s = Bits(0, r) /\ Len(s) = r
  BY Zeroes, Zenon
<1>4. AlignSeptet(e) = SetBits(e, s)
  BY ONLY <1>1, <1>2, <1>3, Zenon DEF AlignSeptet
<1>5. PICK f : f = SetBits(e, s)
  OBVIOUS
<1>6. Extends(e, f) /\ f \in Writers /\ f.mark = e.mark /\ Len(f.bits) = L + r
  BY <1>1, <1>3, <1>5, BitsSet
<1>7. QED BY ONLY <1>1, <1>2, <1>4, <1>5, <1>6, Zenon

LEMMA ToSeptetRead ==
  ASSUME NEW e \in Writers
  PROVE  \A B, v, h, g : ToSeptet(In(B, e, v, h, g)) = In(B, AlignSeptet(e), v, h, g)
<1>1. SUFFICES ASSUME NEW B, NEW v, NEW h, NEW g
               PROVE  ToSeptet(In(B, e, v, h, g)) = In(B, AlignSeptet(e), v, h, g)
  BY Zenon
<1>2. PICK d : d = In(B, e, v, h, g)
  OBVIOUS
<1>3. d.at = Len(e.bits) /\ d.mark = e.mark
  BY ONLY <1>2, ReaderFields DEF In
<1>4. PICK p : p = Len(e.bits) + ((e.mark - Len(e.bits)) % 7)
  OBVIOUS
<1>5. ToSeptet(d) = [d EXCEPT !.at = p]
  BY ONLY <1>3, <1>4, Zenon DEF ToSeptet
<1>6. [d EXCEPT !.at = p] = Reader(B, p, e.mark, v, h, g)
  BY ONLY <1>2, ReaderMoves DEF In
<1>7. AlignSeptet(e).mark = e.mark /\ Len(AlignSeptet(e).bits) = p
  BY <1>4, SeptetAligned, Zenon
<1>8. QED BY ONLY <1>2, <1>5, <1>6, <1>7, Zenon DEF In

MarkedIn(e, f) == \A B, v, h, g : Marked(In(B, e, v, h, g)) = In(B, f, v, h, g)

LEMMA SeptetMarked ==
  ASSUME NEW e \in Writers
  PROVE  \E f \in Writers : f = MarkSeptet(e) /\ Extends(e, f) /\ Len(f.bits) % 8 = 0 /\ MarkedIn(e, f)
<1>1. PICK f \in Writers : f = AlignOctet(e) /\ Extends(e, f) /\ Len(f.bits) % 8 = 0
  BY OctetAligned, Zenon
<1>2. PICK p \in Nat : p = Len(f.bits)
  BY WriterParts
<1>3. PICK k : k = [f EXCEPT !.mark = p]
  OBVIOUS
<1>4. k \in Writers /\ k.bits = f.bits /\ k.mark = p
  BY <1>3 DEF Writers
<1>5. MarkSeptet(e) = k
  BY ONLY <1>1, <1>2, <1>3, Zenon DEF MarkSeptet
<1>6. Extends(e, k)
  BY ONLY <1>1, <1>4, Zenon DEF Extends
<1>7. ASSUME NEW B, NEW v, NEW h, NEW g
      PROVE  Marked(In(B, e, v, h, g)) = In(B, k, v, h, g)
  <2>1. ToOctet(In(B, e, v, h, g)) = In(B, f, v, h, g)
    BY ONLY <1>1, e \in Writers, ToOctetRead
  <2>2. PICK d : d = In(B, f, v, h, g)
    OBVIOUS
  <2>3. d.at = p
    BY ONLY <1>2, <2>2, ReaderFields DEF In
  <2>4. Marked(In(B, e, v, h, g)) = [d EXCEPT !.mark = p]
    BY ONLY <2>1, <2>2, <2>3, Zenon DEF Marked, MarkedHere
  <2>5. [d EXCEPT !.mark = p] = Reader(B, p, p, v, h, g)
    BY ONLY <1>2, <2>2, ReaderMoves DEF In
  <2>6. Reader(B, p, p, v, h, g) = In(B, k, v, h, g)
    BY ONLY <1>2, <1>4, Zenon DEF In
  <2>7. QED BY ONLY <2>4, <2>5, <2>6, Zenon
<1>8. MarkedIn(e, k)
  BY ONLY <1>7, Zenon DEF MarkedIn
<1>9. QED BY ONLY <1>1, <1>4, <1>5, <1>6, <1>8, Zenon

(* Octets.                                                                  *)
OctetsIn(e, f, octets) ==
  \A B \in Seq(Bit) : Begins(B, f.bits) =>
    \A v, h, g : GetOctets(In(B, e, v, h, g), Len(octets)) = In(B, f, octets, h, g)

LEMMA OctetsRead ==
  ASSUME NEW e \in Writers, NEW octets \in Seq(Octet)
  PROVE  \E f \in Writers : /\ f = SetOctets(e, octets) /\ Extends(e, f) /\ Len(f.bits) % 8 = 0
                            /\ OctetsIn(e, f, octets)
<1>1. PICK f \in Writers : /\ f = AlignOctet(e) /\ Extends(e, f) /\ Len(f.bits) % 8 = 0
                           /\ f.mark = e.mark
  BY OctetAligned, Zenon
<1>2. octets \in Seq(Nat) /\ 8 \in Sizes
  <2>1. Octet \subseteq Nat
    BY DEF Octet
  <2>2. 8 \in Sizes
    BY DEF Sizes
  <2>3. QED BY <2>1, <2>2, SeqWider, Zenon
<1>3. AllFit(octets, 8)
  <2>1. \A i \in 1 .. Len(octets) : octets[i] \in Octet
    BY ElementOfSeq
  <2>2. Weights[8] = 128
    BY DEF Weights
  <2>3. \A x \in Octet : x \in Nat /\ x < 2 * 128
    BY DEF Octet
  <2>4. \A x \in Octet : Fits(x, 8)
    BY ONLY <2>2, <2>3, Zenon DEF Fits
  <2>5. QED BY ONLY <2>1, <2>4, Zenon DEF AllFit
<1>4. PICK s \in Seq(Bit) : s = BitsOf(octets, 8) /\ Len(s) = 8 * Len(octets)
  BY <1>2, ManyBits, Zenon
<1>5. PICK k : k = SetBits(f, s)
  OBVIOUS
<1>6. SetOctets(e, octets) = k
  BY ONLY <1>1, <1>4, <1>5, Zenon DEF SetOctets
<1>7. Extends(f, k) /\ k \in Writers /\ k.mark = f.mark /\ Len(k.bits) = Len(f.bits) + 8 * Len(octets)
  BY <1>4, <1>5, BitsSet
<1>8. Len(k.bits) % 8 = 0
  <2>1. PICK x \in Nat, y \in Nat : x = Len(f.bits) /\ y = Len(octets)
    BY WriterParts, LenProperties
  <2>2. (x + 8 * y) % 8 = 0
    <3>1. x % 8 = 0
      BY ONLY <1>1, <2>1, Zenon
    <3>2. PICK q \in Nat : x = 8 * q
      BY ONLY <3>1, x \in Nat
    <3>3. x + 8 * y = 8 * (q + y)
      BY ONLY <3>2, x \in Nat, y \in Nat, q \in Nat
    <3>4. (8 * (q + y)) % 8 = 0
      OBVIOUS
    <3>5. QED BY ONLY <3>3, <3>4, Zenon
  <2>3. QED BY ONLY <1>7, <2>1, <2>2, Zenon
<1>9. ASSUME NEW B \in Seq(Bit), Begins(B, k.bits), NEW v, NEW h, NEW g
      PROVE  GetOctets(In(B, e, v, h, g), Len(octets)) = In(B, k, octets, h, g)
  <2>1. ToOctet(In(B, e, v, h, g)) = In(B, f, v, h, g)
    BY ONLY <1>1, e \in Writers, ToOctetRead
  <2>2. Begins(B, SetBits(f, BitsOf(octets, 8)).bits)
    BY ONLY <1>4, <1>5, <1>9, Zenon
  <2>3. \A v1, h1, g1 : GetMany(In(B, f, v1, h1, g1), 8, Len(octets))
                          = In(B, SetBits(f, BitsOf(octets, 8)), octets, h1, g1)
    BY <1>2, <1>3, <2>2, NumbersRead, Zenon
  <2>4. QED BY ONLY <1>4, <1>5, <2>1, <2>3, Zenon DEF GetOctets
<1>10. Extends(e, k)
  BY ONLY <1>1, <1>7, ExtendsOn
<1>11. OctetsIn(e, k, octets)
  BY ONLY <1>9, Zenon DEF OctetsIn
<1>12. QED BY ONLY <1>6, <1>7, <1>8, <1>10, <1>11, Zenon

OctetIn(e, f, x) ==
  \A B \in Seq(Bit) : Begins(B, f.bits) =>
    \A v, h, g : GetOctet(In(B, e, v, h, g)) = In(B, f, x, h, g)

LEMMA OctetRead ==
  ASSUME NEW e \in Writers, NEW x \in Octet
  PROVE  \E f \in Writers : /\ f = SetOctets(e, <<x>>) /\ Extends(e, f) /\ Len(f.bits) % 8 = 0
                            /\ OctetIn(e, f, x)
<1>1. PICK octets : octets = <<x>>
  OBVIOUS
<1>2. octets \in Seq(Octet) /\ Len(octets) = 1 /\ octets[1] = x
  BY <1>1
<1>3. PICK f \in Writers : /\ f = SetOctets(e, octets) /\ Extends(e, f) /\ Len(f.bits) % 8 = 0
                           /\ OctetsIn(e, f, octets)
  BY <1>2, OctetsRead, Zenon
<1>4. ASSUME NEW B \in Seq(Bit), Begins(B, f.bits), NEW v, NEW h, NEW g
      PROVE  GetOctet(In(B, e, v, h, g)) = In(B, f, x, h, g)
  <2>1. GetOctets(In(B, e, v, h, g), 1) = In(B, f, octets, h, g)
    BY ONLY <1>2, <1>3, <1>4, B \in Seq(Bit), Zenon DEF OctetsIn
  <2>2. FirstOf(In(B, f, octets, h, g)) = In(B, f, x, h, g)
    BY ONLY <1>2, FirstRead
  <2>3. QED BY ONLY <2>1, <2>2, Zenon DEF GetOctet, GetOctets, GetBits
<1>5. OctetIn(e, f, x)
  BY ONLY <1>4, Zenon DEF OctetIn
<1>6. QED BY ONLY <1>1, <1>3, <1>5, f \in Writers, Zenon

-----------------------------------------------------------------------------
(* Texts in the alphabet of the network.                                    *)
LEMMA CodeTyped ==
  ASSUME NEW c \in Octet
  PROVE  Latin1ToGsm[c] \in 0 .. 127
<1>1. c \in 0 .. 255
  BY DEF Octet
<1>2. CASE c # Nop /\ \E g \in 0 .. 127 : GsmToLatin1[g] = c
  <2>1. (CHOOSE g \in 0 .. 127 : GsmToLatin1[g] = c) \in 0 .. 127
    BY ONLY <1>2, Zenon
  <2>2. Latin1ToGsm[c] = CHOOSE g \in 0 .. 127 : GsmToLatin1[g] = c
    BY ONLY <1>1, <1>2, Zenon DEF Latin1ToGsm
  <2>3. QED BY ONLY <2>1, <2>2, Zenon
<1>3. CASE ~ (c # Nop /\ \E g \in 0 .. 127 : GsmToLatin1[g] = c)
  <2>1. Latin1ToGsm[c] = 16
    BY ONLY <1>1, <1>3, Zenon DEF Latin1ToGsm
  <2>2. QED BY <2>1
<1>4. QED BY ONLY <1>2, <1>3, Zenon

LEMMA CodesTyped ==
  ASSUME NEW text \in Seq(Octet)
  PROVE  /\ LatinCodes(text) \in Seq(Nat) /\ Len(LatinCodes(text)) = Len(text)
         /\ AllFit(LatinCodes(text), 7)
         /\ [i \in DOMAIN LatinCodes(text) |-> GsmToLatin1[LatinCodes(text)[i]]] = Spelled(text)
<1>1. PICK L \in Nat : L = Len(text) /\ DOMAIN text = 1 .. L
  BY LenProperties
<1>2. \A i \in 1 .. L : text[i] \in Octet
  BY <1>1, ElementOfSeq
<1>3. \A i \in 1 .. L : Latin1ToGsm[text[i]] \in 0 .. 127
  BY <1>2, CodeTyped, Zenon
<1>4. PICK codes : codes = LatinCodes(text)
  OBVIOUS
<1>5. codes = [i \in 1 .. L |-> Latin1ToGsm[text[i]]]
  BY ONLY <1>1, <1>4, Zenon DEF LatinCodes
<1>6. codes \in [1 .. L -> 0 .. 127] /\ DOMAIN codes = 1 .. L
  BY ONLY <1>3, <1>5, Zenon
<1>7. codes \in Seq(Nat) /\ Len(codes) = L /\ \A i \in 1 .. Len(codes) : codes[i] \in 0 .. 127
  <2>1. codes \in Seq(0 .. 127) /\ Len(codes) = L
    BY <1>6
  <2>2. 0 .. 127 \subseteq Nat
    OBVIOUS
  <2>3. codes \in Seq(Nat)
    BY <2>1, <2>2, SeqWider, Zenon
  <2>4. \A i \in 1 .. L : codes[i] \in 0 .. 127
    BY ONLY <1>6, Zenon
  <2>5. QED BY ONLY <2>1, <2>3, <2>4, Zenon
<1>8. \A x \in 0 .. 127 : Fits(x, 7)
  <2>1. Weights[7] = 64
    BY DEF Weights
  <2>2. \A x \in 0 .. 127 : x \in Nat /\ x < 2 * 64
    OBVIOUS
  <2>3. QED BY ONLY <2>1, <2>2, Zenon DEF Fits
<1>9. AllFit(codes, 7)
  BY ONLY <1>7, <1>8, Zenon DEF AllFit
<1>10. [i \in DOMAIN codes |-> GsmToLatin1[codes[i]]] = Spelled(text)
  <2>1. \A i \in 1 .. L : GsmToLatin1[codes[i]] = GsmToLatin1[Latin1ToGsm[text[i]]]
    BY ONLY <1>5, Zenon
  <2>2. [i \in DOMAIN codes |-> GsmToLatin1[codes[i]]] = [i \in 1 .. L |-> GsmToLatin1[Latin1ToGsm[text[i]]]]
    BY ONLY <1>6, <2>1, Zenon
  <2>3. QED BY ONLY <1>1, <2>2, Zenon DEF Spelled
<1>11. QED BY ONLY <1>1, <1>4, <1>7, <1>9, <1>10, Zenon

StringIn(e, f, text) ==
  \A B \in Seq(Bit) : Begins(B, f.bits) =>
    \A v, h, g : GetString(In(B, e, v, h, g), Len(text)) = In(B, f, Spelled(text), h, g)

LEMMA StringRead ==
  ASSUME NEW e \in Writers, NEW text \in Seq(Octet)
  PROVE  \E f \in Writers : f = SetString(e, LatinCodes(text)) /\ Extends(e, f) /\ StringIn(e, f, text)
<1>1. PICK codes \in Seq(Nat) :
        /\ codes = LatinCodes(text) /\ Len(codes) = Len(text) /\ AllFit(codes, 7)
        /\ [i \in DOMAIN codes |-> GsmToLatin1[codes[i]]] = Spelled(text)
  BY CodesTyped, Zenon
<1>2. PICK f \in Writers : f = AlignSeptet(e) /\ Extends(e, f)
  BY SeptetAligned, Zenon
<1>3. 7 \in Sizes
  BY DEF Sizes
<1>4. PICK s \in Seq(Bit) : s = BitsOf(codes, 7)
  BY <1>3, ManyBits, Zenon
<1>5. PICK k : k = SetBits(f, s)
  OBVIOUS
<1>6. SetString(e, codes) = k
  BY ONLY <1>2, <1>4, <1>5, Zenon DEF SetString
<1>7. Extends(f, k) /\ k \in Writers
  BY <1>5, BitsSet
<1>8. Extends(e, k)
  BY ONLY <1>2, <1>7, ExtendsOn
<1>9. ASSUME NEW B \in Seq(Bit), Begins(B, k.bits), NEW v, NEW h, NEW g
      PROVE  GetString(In(B, e, v, h, g), Len(text)) = In(B, k, Spelled(text), h, g)
  <2>1. ToSeptet(In(B, e, v, h, g)) = In(B, f, v, h, g)
    BY ONLY <1>2, e \in Writers, ToSeptetRead
  <2>2. Begins(B, SetBits(f, BitsOf(codes, 7)).bits)
    BY ONLY <1>4, <1>5, <1>9, Zenon
  <2>3. \A v1, h1, g1 : GetMany(In(B, f, v1, h1, g1), 7, Len(codes))
                          = In(B, SetBits(f, BitsOf(codes, 7)), codes, h1, g1)
    BY <1>1, <1>3, <2>2, NumbersRead, Zenon
  <2>4. GetMany(In(B, f, v, h, g), 7, Len(text)) = In(B, k, codes, h, g)
    BY ONLY <1>1, <1>4, <1>5, <2>3, Zenon
  <2>5. PICK d : d = In(B, k, codes, h, g)
    OBVIOUS
  <2>6. d.val = codes
    BY ONLY <2>5, ReaderFields DEF In
  <2>7. InLatin1(d) = [d EXCEPT !.val = Spelled(text)]
    BY ONLY <1>1, <2>6, Zenon DEF InLatin1
  <2>8. [d EXCEPT !.val = Spelled(text)] = In(B, k, Spelled(text), h, g)
    BY ONLY <2>5, ReaderMoves DEF In
  <2>9. QED BY ONLY <2>1, <2>4, <2>5, <2>7, <2>8, Zenon DEF GetString
<1>10. StringIn(e, k, text)
  BY ONLY <1>9, Zenon DEF StringIn
<1>11. QED BY ONLY <1>1, <1>6, <1>7, <1>8, <1>10, Zenon

-----------------------------------------------------------------------------
(* Halves of octets.                                                        *)
LEMMA RisingAll ==
  ASSUME NEW n \in Nat
  PROVE  Cardinality(1 .. n) = n /\ \A i \in 1 .. n : Rising(1 .. n)[i] = i
<1>1. Cardinality(1 .. n) = n
  BY FS_Interval
<1>2. PICK same : same = [i \in 1 .. n |-> i]
  OBVIOUS
<1>3. same \in [1 .. n -> 1 .. n] /\ \A i, j \in 1 .. n : i < j => same[i] < same[j]
  BY <1>2
<1>4. PICK list : list = Rising(1 .. n)
  OBVIOUS
<1>5. /\ list \in [1 .. n -> 1 .. n]
      /\ \A i, j \in 1 .. n : i < j => list[i] < list[j]
  <2>1. list = CHOOSE l \in [1 .. n -> 1 .. n] : \A i, j \in 1 .. n : i < j => l[i] < l[j]
    BY ONLY <1>1, <1>4, Zenon DEF Rising
  <2>2. QED BY ONLY <1>3, <2>1, Zenon
<1> DEFINE Low == {i \in 1 .. n : list[i] < i}
           High == {i \in Nat : i < n /\ list[n - i] > n - i}
<1>6. Low = {}
  <2> SUFFICES ASSUME Low # {} PROVE FALSE
    OBVIOUS
  <2>1. PICK z \in Low : \A w \in Low : z <= w
    <3>1. Low \subseteq Nat
      OBVIOUS
    <3> HIDE DEF Low
    <3> QED BY <3>1, LeastNumber
  <2>2. z \in 1 .. n /\ list[z] < z /\ list[z] \in 1 .. n
    BY <1>5
  <2>3. list[list[z]] < list[z]
    BY <1>5, <2>2
  <2>4. list[z] \in Low
    BY <2>2, <2>3
  <2>5. QED BY <2>1, <2>2, <2>4
<1>7. High = {}
  <2> SUFFICES ASSUME High # {} PROVE FALSE
    OBVIOUS
  <2>1. PICK z \in High : \A w \in High : z <= w
    <3>1. High \subseteq Nat
      OBVIOUS
    <3> HIDE DEF High
    <3> QED BY <3>1, LeastNumber
  <2>2. PICK i \in 1 .. n : i = n - z /\ list[i] > i /\ list[i] \in 1 .. n
    BY <1>5
  <2>3. list[list[i]] > list[i]
    BY <1>5, <2>2
  <2>4. PICK w : w = n - list[i]
    OBVIOUS
  <2>5. w \in Nat /\ w < n /\ n - w = list[i] /\ w < z
    BY <2>2, <2>4
  <2>6. w \in High
    BY <2>3, <2>5
  <2>7. QED BY <2>1, <2>5, <2>6
<1>8. ASSUME NEW i \in 1 .. n PROVE list[i] = i
  <2>1. ~ (list[i] < i)
    BY <1>6
  <2>2. PICK z \in Nat : z = n - i /\ z < n /\ n - z = i
    OBVIOUS
  <2>3. ~ (list[i] > i)
    BY <1>7, <2>2
  <2>4. list[i] \in Int
    BY <1>5
  <2>5. QED BY <2>1, <2>3, <2>4
<1>9. QED BY <1>1, <1>4, <1>8

LEMMA MovesToOctet ==
  ASSUME NEW B, NEW p, NEW k, NEW v, NEW h, NEW g
  PROVE  ToOctet(Reader(B, p, k, v, h, g)) = Reader(B, p + ((-p) % 8), k, v, h, g)
<1>1. PICK d : d = Reader(B, p, k, v, h, g)
  OBVIOUS
<1>2. d.at = p
  BY ONLY <1>1, ReaderFields
<1>3. PICK q : q = p + ((-p) % 8)
  OBVIOUS
<1>4. ToOctet(d) = [d EXCEPT !.at = q]
  BY ONLY <1>2, <1>3, Zenon DEF ToOctet
<1>5. [d EXCEPT !.at = q] = Reader(B, q, k, v, h, g)
  BY ONLY <1>1, ReaderMoves
<1>6. QED BY ONLY <1>1, <1>3, <1>4, <1>5, Zenon

Digits == Seq(0 .. 9)
Padded(digits) == IF Len(digits) % 2 = 1 THEN Append(digits, 15) ELSE digits
Kept(digits) == [i \in 1 .. Cardinality(DigitsAt(digits)) |-> digits[Rising(DigitsAt(digits))[i]]]

LEMMA KeptFirst ==
  ASSUME NEW digits \in Digits, NEW s, NEW L \in Nat, L = Len(digits),
         \A i \in 1 .. L : s[i] = digits[i], DigitsAt(s) = 1 .. L
  PROVE  Kept(s) = digits
<1>1. Kept(s) = [i \in 1 .. L |-> s[Rising(1 .. L)[i]]]
  BY RisingAll, Zenon DEF Kept
<1>2. \A i \in 1 .. L : s[Rising(1 .. L)[i]] = digits[i]
  BY RisingAll, Zenon
<1>3. Kept(s) = [i \in 1 .. L |-> digits[i]]
  BY ONLY <1>1, <1>2, Zenon
<1>4. [i \in 1 .. L |-> digits[i]] = digits
  BY DEF Digits
<1>5. QED BY ONLY <1>3, <1>4, Zenon

LEMMA PaddedKept ==
  ASSUME NEW digits \in Digits
  PROVE  /\ Padded(digits) \in Seq(Nat) /\ AllFit(Padded(digits), 4)
         /\ Len(Padded(digits)) = 2 * ((Len(digits) + 1) \div 2)
         /\ Len(digits) <= Len(Padded(digits))
         /\ FirstFew(Padded(digits), Len(digits)) = digits
         /\ FirstFew(Padded(digits), Len(Padded(digits))) = Padded(digits)
         /\ Kept(digits) = digits /\ Kept(Padded(digits)) = digits
<1>1. PICK L \in Nat : L = Len(digits)
  BY LenProperties DEF Digits
<1>2. \A i \in 1 .. L : digits[i] \in 0 .. 9
  BY <1>1, ElementOfSeq DEF Digits
<1>3. 0 .. 9 \subseteq Nat /\ digits \in Seq(0 .. 9)
  BY DEF Digits
<1>4. digits \in Seq(Nat)
  BY <1>3, SeqWider, Zenon
<1>5. \A x \in 0 .. 15 : Fits(x, 4)
  <2>1. Weights[4] = 8
    BY DEF Weights
  <2>2. \A x \in 0 .. 15 : x \in Nat /\ x < 2 * 8
    OBVIOUS
  <2>3. QED BY ONLY <2>1, <2>2, Zenon DEF Fits
<1>6. DigitsAt(digits) = 1 .. L
  <2>1. \A i \in 1 .. L : digits[i] # 15
    BY <1>2
  <2>2. QED BY ONLY <1>1, <2>1, Zenon DEF DigitsAt
<1>7. Kept(digits) = digits
  BY <1>1, <1>6, KeptFirst
<1>8. FirstFew(digits, L) = digits
  BY <1>1, <1>4 DEF FirstFew
<1>9. CASE L % 2 = 1
  <2>1. PICK s : s = Append(digits, 15)
    OBVIOUS
  <2>2. /\ s \in Seq(Nat) /\ Len(s) = L + 1 /\ s[L + 1] = 15
        /\ \A i \in 1 .. L : s[i] = digits[i]
    BY <1>1, <1>4, <2>1, AppendProperties
  <2>3. Padded(digits) = s
    BY ONLY <1>1, <1>9, <2>1, Zenon DEF Padded
  <2>4. \A i \in 1 .. L + 1 : s[i] \in 0 .. 15
    <3>0. \A i \in 1 .. L : digits[i] \in 0 .. 15
      BY <1>2
    <3>1. \A i \in 1 .. L : s[i] \in 0 .. 15
      BY ONLY <3>0, <2>2, Zenon
    <3>2. \A i \in 1 .. L + 1 : i \in 1 .. L \/ i = L + 1
      OBVIOUS
    <3>3. s[L + 1] \in 0 .. 15
      BY ONLY <2>2
    <3>4. QED BY ONLY <3>1, <3>2, <3>3, Zenon
  <2>5. AllFit(s, 4)
    BY ONLY <1>5, <2>2, <2>4, Zenon DEF AllFit
  <2>6. L + 1 = 2 * ((L + 1) \div 2) /\ L <= L + 1
    BY <1>9
  <2>7. FirstFew(s, L) = digits
    <3>1. FirstFew(s, L) = [i \in 1 .. L |-> digits[i]]
      BY ONLY <2>2, Zenon DEF FirstFew
    <3>2. QED BY <1>8, <3>1, Zenon DEF FirstFew
  <2>8. FirstFew(s, L + 1) = s
    BY <2>2 DEF FirstFew
  <2>9. DigitsAt(s) = 1 .. L
    <3>1. \A i \in 1 .. L : s[i] # 15
      <4>1. \A x \in 0 .. 9 : x # 15
        OBVIOUS
      <4>2. \A i \in 1 .. L : s[i] = digits[i]
        BY ONLY <2>2
      <4>3. QED BY ONLY <1>2, <4>1, <4>2, Zenon
    <3>2. (L + 1) % 2 # 1
      BY <1>9
    <3>3. ASSUME NEW i \in 1 .. L + 1
          PROVE  (i % 2 = 1 \/ s[i] # 15) <=> i \in 1 .. L
      <4>1. i \in 1 .. L \/ (i = L + 1 /\ ~ (i \in 1 .. L))
        OBVIOUS
      <4>2. QED BY ONLY <2>2, <3>1, <3>2, <4>1, Zenon
    <3>4. \A i \in 1 .. L : i \in 1 .. L + 1
      OBVIOUS
    <3>5. DigitsAt(s) = {i \in 1 .. L + 1 : i % 2 = 1 \/ s[i] # 15}
      BY ONLY <2>2, Zenon DEF DigitsAt
    <3>6. QED BY ONLY <3>3, <3>4, <3>5, Zenon
  <2>10. Kept(s) = digits
    BY <1>1, <2>2, <2>9, KeptFirst
  <2>11. QED BY ONLY <1>1, <1>7, <2>2, <2>3, <2>5, <2>6, <2>7, <2>8, <2>10, Zenon
<1>10. CASE L % 2 # 1
  <2>1. Padded(digits) = digits
    BY ONLY <1>1, <1>10, Zenon DEF Padded
  <2>2. L = 2 * ((L + 1) \div 2) /\ L <= L
    BY <1>10
  <2>3. \A i \in 1 .. L : digits[i] \in 0 .. 15
    BY <1>2
  <2>4. AllFit(digits, 4)
    BY ONLY <1>1, <1>5, <2>3, Zenon DEF AllFit
  <2>5. QED BY ONLY <1>1, <1>4, <1>7, <1>8, <2>1, <2>2, <2>4, Zenon
<1>11. QED BY <1>9, <1>10

(* The halves of a field are read as its digits, whether they are counted by *)
(* digits or by halves.                                                     *)
SemiRead(e, f, digits) ==
  \A B \in Seq(Bit) : Begins(B, f.bits) =>
    \A count \in {Len(digits), Len(Padded(digits))} : \A v, h, g :
      GetSemiOctets(In(B, e, v, h, g), count) = In(B, f, digits, h, g)

LEMMA SemiOctetsRead ==
  ASSUME NEW e \in Writers, NEW digits \in Digits
  PROVE  \E f \in Writers : /\ f = SetSemiOctets(e, digits) /\ Extends(e, f)
                             /\ Len(f.bits) % 8 = 0 /\ SemiRead(e, f, digits)
<1>1. PICK f \in Writers : /\ f = AlignOctet(e) /\ Extends(e, f) /\ Len(f.bits) % 8 = 0
                           /\ f.mark = e.mark
  BY OctetAligned, Zenon
<1>2. PICK s \in Seq(Nat) : /\ s = Padded(digits) /\ AllFit(s, 4)
                            /\ Len(s) = 2 * ((Len(digits) + 1) \div 2) /\ Len(digits) <= Len(s)
                            /\ FirstFew(s, Len(digits)) = digits /\ FirstFew(s, Len(s)) = s
                            /\ Kept(digits) = digits /\ Kept(s) = digits
  BY PaddedKept, Zenon
<1>3. 4 \in Sizes
  BY DEF Sizes
<1>4. PICK bits \in Seq(Bit) : bits = BitsOf(s, 4) /\ Len(bits) = 4 * Len(s)
  BY <1>3, ManyBits, Zenon
<1>5. PICK k : k = SetBits(f, bits)
  OBVIOUS
<1>6. SetSemiOctets(e, digits) = k
  BY ONLY <1>1, <1>2, <1>4, <1>5, Zenon DEF SetSemiOctets, Padded
<1>7. /\ Extends(f, k) /\ k \in Writers /\ k.mark = f.mark /\ Len(k.bits) = Len(f.bits) + 4 * Len(s)
      /\ k.bits = f.bits \o bits
  BY <1>4, <1>5, BitsSet
<1>8. PICK x \in Nat, y \in Nat, l \in Nat : x = Len(f.bits) /\ y = Len(s) /\ l = Len(digits)
  BY <1>2, WriterParts, LenProperties DEF Digits
<1>9. y = 2 * ((l + 1) \div 2) /\ l <= y /\ x % 8 = 0 /\ Len(k.bits) = x + 4 * y
  BY ONLY <1>1, <1>2, <1>7, <1>8, Zenon
<1>10. /\ (x + 4 * y) % 8 = 0 /\ (x + 4 * y) + ((-(x + 4 * y)) % 8) = x + 4 * y
       /\ (x + 4 * l) + ((-(x + 4 * l)) % 8) = x + 4 * y
  <2>1. PICK q \in Nat, r \in Nat : x = 8 * q /\ r = (l + 1) \div 2 /\ (l = 2 * r \/ l = 2 * r - 1)
    BY ONLY <1>9, x \in Nat, l \in Nat
  <2>2. y = 2 * r
    BY ONLY <1>9, <2>1, Zenon
  <2>3. x + 4 * y = 8 * (q + r)
    BY ONLY <2>1, <2>2, q \in Nat, r \in Nat
  <2>4. PICK z \in Nat : z = q + r
    BY ONLY q \in Nat, r \in Nat
  <2>5. (8 * z) % 8 = 0 /\ (-(8 * z)) % 8 = 0 /\ (-(8 * z - 4)) % 8 = 4
    BY ONLY z \in Nat
  <2>6. x + 4 * y = 8 * z
    BY ONLY <2>3, <2>4
  <2>7. x + 4 * l = 8 * z \/ x + 4 * l = 8 * z - 4
    BY ONLY <2>1, <2>4, q \in Nat, r \in Nat, z \in Nat, l \in Nat
  <2>8. QED BY ONLY <2>5, <2>6, <2>7, z \in Nat
<1>11. ASSUME NEW B \in Seq(Bit), Begins(B, k.bits), NEW count \in {l, y}, NEW v, NEW h, NEW g
       PROVE  GetSemiOctets(In(B, e, v, h, g), count) = In(B, k, digits, h, g)
  <2>1. ToOctet(In(B, e, v, h, g)) = In(B, f, v, h, g)
    BY ONLY <1>1, e \in Writers, ToOctetRead
  <2>2. Carries(B, x, BitsOf(s, 4))
    <3>1. Begins(B, f.bits \o bits) /\ f.bits \in Seq(Bit)
      BY <1>7, <1>11, WriterParts
    <3>2. Carries(B, Len(f.bits), bits)
      BY <3>1, BeginsApart, Zenon
    <3>3. QED BY ONLY <1>4, <1>8, <3>2, Zenon
  <2>3. count \in 0 .. Len(s)
    BY ONLY <1>8, <1>9, count \in {l, y}, l \in Nat, y \in Nat
  <2>4. \A c \in 0 .. Len(s) : \A k1, v1, h1, g1 :
          GetMany(Reader(B, x, k1, v1, h1, g1), 4, c)
            = Reader(B, x + 4 * c, k1, FirstFew(s, c), h1, g1)
    BY ONLY <1>2, <1>3, <2>2, x \in Nat, B \in Seq(Bit), s \in Seq(Nat), ManyRead, Zenon
  <2>5. PICK few : few = FirstFew(s, count) /\ Kept(few) = digits
    BY ONLY <1>2, <1>8, count \in {l, y}, Zenon
  <2>6. GetMany(In(B, f, v, h, g), 4, count) = Reader(B, x + 4 * count, f.mark, few, h, g)
    <3>1. In(B, f, v, h, g) = Reader(B, x, f.mark, v, h, g)
      BY ONLY <1>8, Zenon DEF In
    <3>2. GetMany(Reader(B, x, f.mark, v, h, g), 4, count)
            = Reader(B, x + 4 * count, f.mark, FirstFew(s, count), h, g)
      BY ONLY <2>3, <2>4
    <3>3. QED BY ONLY <2>5, <3>1, <3>2, Zenon
  <2>7. PICK d : d = Reader(B, x + 4 * count, f.mark, few, h, g)
    OBVIOUS
  <2>8. d.val = few
    BY ONLY <2>7, ReaderFields
  <2>9. WithoutFiller(d) = [d EXCEPT !.val = digits]
    <3>1. WithoutFiller(d) = [d EXCEPT !.val = Kept(d.val)]
      BY ONLY Zenon DEF WithoutFiller, Kept
    <3>2. QED BY ONLY <2>5, <2>8, <3>1, Zenon
  <2>10. WithoutFiller(d) = Reader(B, x + 4 * count, f.mark, digits, h, g)
    <3>1. [d EXCEPT !.val = digits] = Reader(B, x + 4 * count, f.mark, digits, h, g)
      BY ONLY <2>7, ReaderMoves
    <3>2. QED BY ONLY <2>9, <3>1, Zenon
  <2>11. PICK p : p = x + 4 * count /\ p + ((-p) % 8) = x + 4 * y
    BY ONLY <1>10, count \in {l, y}, Zenon
  <2>12. ToOctet(Reader(B, p, f.mark, digits, h, g)) = Reader(B, p + ((-p) % 8), f.mark, digits, h, g)
    BY ONLY MovesToOctet
  <2>13. ToOctet(WithoutFiller(d)) = Reader(B, x + 4 * y, f.mark, digits, h, g)
    BY ONLY <2>10, <2>11, <2>12, Zenon
  <2>14. Reader(B, x + 4 * y, f.mark, digits, h, g) = In(B, k, digits, h, g)
    BY ONLY <1>7, <1>9, Zenon DEF In
  <2>15. QED BY ONLY <2>1, <2>6, <2>7, <2>13, <2>14, Zenon DEF GetSemiOctets
<1>12. Extends(e, k)
  BY ONLY <1>1, <1>7, ExtendsOn
<1>13. Len(k.bits) % 8 = 0
  BY ONLY <1>9, <1>10, Zenon
<1>14. l = Len(digits) /\ y = Len(Padded(digits))
  BY ONLY <1>2, <1>8, Zenon
<1>15. SemiRead(e, k, digits)
  BY ONLY <1>11, <1>14, Zenon DEF SemiRead
<1>16. QED BY ONLY <1>6, <1>7, <1>12, <1>13, <1>15, Zenon

(* Times.                                                                   *)
LEMMA TimeDigitsTyped ==
  ASSUME NEW t \in Times
  PROVE  /\ TimeDigits(t) \in Seq(Nat) /\ Len(TimeDigits(t)) = 14 /\ AllFit(TimeDigits(t), 4)
         /\ \A i \in 1 .. 6 :
              TimeDigits(t)[2 * i - 1] * 10 + TimeDigits(t)[2 * i] = t.digits[i]
         /\ ((TimeDigits(t)[13] % 8) * 10 + TimeDigits(t)[14]) * 15 = t.zone.minutes
         /\ TimeDigits(t)[13] < 8 <=> t.zone.negative
<1>1. t.digits \in [1 .. 6 -> 0 .. 99] /\ t.zone \in Zones
  BY DEF Times
<1>2. PICK q \in 0 .. 79 : t.zone.minutes = 15 * q
  BY <1>1 DEF Zones
<1>3. t.zone.negative \in BOOLEAN
  BY <1>1 DEF Zones
<1>4. PICK m : m = 15 * q /\ m \div 150 = q \div 10 /\ m \div 15 = q
  BY <1>2
<1>5. PICK s : s = TimeDigits(t)
  OBVIOUS
<1>6. s = [i \in 1 .. 14 |->
     IF i = 13 THEN (t.zone.minutes \div 150) + (IF t.zone.negative THEN 0 ELSE 8)
     ELSE IF i = 14 THEN (t.zone.minutes \div 15) % 10
     ELSE IF i % 2 = 1 THEN t.digits[(i + 1) \div 2] \div 10
     ELSE t.digits[i \div 2] % 10]
  BY ONLY <1>5, Zenon DEF TimeDigits
<1>7. s[13] = (q \div 10) + (IF t.zone.negative THEN 0 ELSE 8)
  <2>1. 13 \in 1 .. 14
    OBVIOUS
  <2>2. s[13] = (t.zone.minutes \div 150) + (IF t.zone.negative THEN 0 ELSE 8)
    BY ONLY <1>6, <2>1, Zenon
  <2>3. QED BY ONLY <1>2, <1>4, <2>2, Zenon
<1>8. s[14] = q % 10
  <2>1. 14 \in 1 .. 14 /\ 14 # 13
    OBVIOUS
  <2>2. s[14] = (t.zone.minutes \div 15) % 10
    BY ONLY <1>6, <2>1, Zenon
  <2>3. QED BY ONLY <1>2, <1>4, <2>2, Zenon
<1>9. ASSUME NEW i \in 1 .. 6
      PROVE  /\ 2 * i - 1 \in 1 .. 12 /\ 2 * i \in 1 .. 12
             /\ s[2 * i - 1] = t.digits[i] \div 10 /\ s[2 * i] = t.digits[i] % 10
  <2>1. PICK x, y : x = 2 * i - 1 /\ y = 2 * i
    OBVIOUS
  <2>2. /\ x \in 1 .. 14 /\ x # 13 /\ x # 14 /\ x % 2 = 1 /\ (x + 1) \div 2 = i
        /\ y \in 1 .. 14 /\ y # 13 /\ y # 14 /\ y % 2 # 1 /\ y \div 2 = i
        /\ x \in 1 .. 12 /\ y \in 1 .. 12
    BY ONLY <2>1, i \in 1 .. 6
  <2>3. s[x] = t.digits[i] \div 10
    BY ONLY <1>6, <2>2, Zenon
  <2>4. s[y] = t.digits[i] % 10
    BY ONLY <1>6, <2>2, Zenon
  <2>5. QED BY ONLY <2>1, <2>2, <2>3, <2>4, Zenon
<1>10. \A i \in 1 .. 6 : t.digits[i] \in 0 .. 99
  BY <1>1
<1>11. \A i \in 1 .. 6 : s[2 * i - 1] * 10 + s[2 * i] = t.digits[i]
  <2>1. \A x \in 0 .. 99 : (x \div 10) * 10 + (x % 10) = x
    OBVIOUS
  <2>2. QED BY ONLY <1>9, <1>10, <2>1, Zenon
<1>12. \A i \in 1 .. 14 : s[i] \in 0 .. 15
  <2>1. s[13] \in 0 .. 15 /\ s[14] \in 0 .. 15
    <3>1. q \div 10 \in 0 .. 7 /\ q % 10 \in 0 .. 15
      OBVIOUS
    <3>2. CASE t.zone.negative
      <4>1. s[13] = (q \div 10) + 0
        BY ONLY <1>7, <3>2, Zenon
      <4>2. QED BY ONLY <1>8, <3>1, <4>1
    <3>3. CASE ~ t.zone.negative
      <4>1. s[13] = (q \div 10) + 8
        BY ONLY <1>7, <3>3, Zenon
      <4>2. QED BY ONLY <1>8, <3>1, <4>1
    <3>4. QED BY ONLY <3>2, <3>3
  <2>2. ASSUME NEW i \in 1 .. 14, i # 13, i # 14 PROVE s[i] \in 0 .. 15
    <3>1. PICK j \in 1 .. 6 : i = 2 * j - 1 \/ i = 2 * j
      <4>1. CASE i % 2 = 1
        <5>1. (i + 1) \div 2 \in 1 .. 6 /\ i = 2 * ((i + 1) \div 2) - 1
          BY ONLY <2>2, <4>1
        <5>2. QED BY ONLY <5>1, Zenon
      <4>2. CASE i % 2 # 1
        <5>1. i \div 2 \in 1 .. 6 /\ i = 2 * (i \div 2)
          BY ONLY <2>2, <4>2
        <5>2. QED BY ONLY <5>1, Zenon
      <4>3. QED BY ONLY <4>1, <4>2, Zenon
    <3>2. \A x \in 0 .. 99 : x \div 10 \in 0 .. 15 /\ x % 10 \in 0 .. 15
      OBVIOUS
    <3>3. s[2 * j - 1] \in 0 .. 15 /\ s[2 * j] \in 0 .. 15
      BY ONLY <1>9, <1>10, <3>2, j \in 1 .. 6, Zenon
    <3>4. QED BY ONLY <3>1, <3>3, Zenon
  <2>3. QED BY ONLY <2>1, <2>2, Zenon
<1>13. s \in Seq(Nat) /\ Len(s) = 14
  <2>1. s \in [1 .. 14 -> 0 .. 15]
    BY ONLY <1>6, <1>12, Zenon
  <2>2. s \in Seq(0 .. 15) /\ Len(s) = 14
    <3>1. PICK n \in Nat : n = 14
      OBVIOUS
    <3>2. s \in [1 .. n -> 0 .. 15]
      BY ONLY <2>1, <3>1, Zenon
    <3>3. s \in Seq(0 .. 15) /\ Len(s) = n
      BY <3>2
    <3>4. QED BY ONLY <3>1, <3>3, Zenon
  <2>3. 0 .. 15 \subseteq Nat
    OBVIOUS
  <2>4. QED BY <2>2, <2>3, SeqWider, Zenon
<1>14. AllFit(s, 4)
  <2>1. Weights[4] = 8
    BY DEF Weights
  <2>2. \A x \in 0 .. 15 : x \in Nat /\ x < 2 * 8
    OBVIOUS
  <2>3. QED BY ONLY <1>12, <1>13, <2>1, <2>2, Zenon DEF AllFit, Fits
<1>15. ((s[13] % 8) * 10 + s[14]) * 15 = t.zone.minutes
  <2>1. s[13] % 8 = q \div 10
    <3>1. (q \div 10) % 8 = q \div 10 /\ ((q \div 10) + 8) % 8 = q \div 10
      BY ONLY q \in 0 .. 79
    <3>2. CASE t.zone.negative
      <4>1. s[13] = (q \div 10) + 0
        BY ONLY <1>7, <3>2, Zenon
      <4>2. QED BY ONLY <4>1, <3>1, q \in 0 .. 79
    <3>3. CASE ~ t.zone.negative
      <4>1. s[13] = (q \div 10) + 8
        BY ONLY <1>7, <3>3, Zenon
      <4>2. QED BY ONLY <3>1, <4>1, Zenon
    <3>4. QED BY ONLY <3>2, <3>3
  <2>2. ((q \div 10) * 10 + (q % 10)) * 15 = 15 * q
    BY ONLY q \in 0 .. 79
  <2>3. QED BY ONLY <1>2, <1>8, <2>1, <2>2, Zenon
<1>16. s[13] < 8 <=> t.zone.negative
  <2>1. q \div 10 \in 0 .. 7
    OBVIOUS
  <2>2. CASE t.zone.negative
    <3>1. s[13] = (q \div 10) + 0
      BY ONLY <1>7, <2>2, Zenon
    <3>2. s[13] < 8
      BY ONLY <2>1, <3>1
    <3>3. QED BY ONLY <2>2, <3>2
  <2>3. CASE ~ t.zone.negative
    <3>1. s[13] = (q \div 10) + 8
      BY ONLY <1>7, <2>3, Zenon
    <3>2. ~ (s[13] < 8)
      BY ONLY <2>1, <3>1
    <3>3. QED BY ONLY <2>3, <3>2
  <2>4. QED BY ONLY <2>2, <2>3, Zenon
<1>17. QED BY ONLY <1>5, <1>11, <1>13, <1>14, <1>15, <1>16, Zenon

(* The lemmas from here on are of the form: the writer comes to some f, and  *)
(* what reads the field beside the writer comes to f and to the value.       *)
TimeRead(e, f, t) ==
  \A B \in Seq(Bit) : Begins(B, f.bits) =>
    \A v, h, g : GetTimestamp(In(B, e, v, h, g)) = In(B, f, t, h, g)

LEMMA TimestampIs ==
  ASSUME NEW B, NEW f, NEW h, NEW g, NEW t \in Times
  PROVE  TimestampOf(In(B, f, TimeDigits(t), h, g)) = In(B, f, t, h, g)
<1>1. PICK s : s = TimeDigits(t)
  OBVIOUS
<1>2. /\ \A i \in 1 .. 6 : s[2 * i - 1] * 10 + s[2 * i] = t.digits[i]
      /\ ((s[13] % 8) * 10 + s[14]) * 15 = t.zone.minutes
      /\ s[13] < 8 <=> t.zone.negative
  BY ONLY <1>1, t \in Times, TimeDigitsTyped, Zenon
<1>3. t.digits \in [1 .. 6 -> 0 .. 99] /\ t.zone \in Zones
  BY DEF Times
<1>4. t.zone.negative \in BOOLEAN
  BY <1>3 DEF Zones
<1>5. (s[13] < 8) = t.zone.negative
  <2>1. CASE t.zone.negative
    <3>1. t.zone.negative = TRUE /\ (s[13] < 8) = TRUE
      BY ONLY <1>2, <1>4, <2>1
    <3>2. QED BY ONLY <3>1, Zenon
  <2>2. CASE ~ t.zone.negative
    <3>1. t.zone.negative = FALSE /\ (s[13] < 8) = FALSE
      BY ONLY <1>2, <1>4, <2>2
    <3>2. QED BY ONLY <3>1, Zenon
  <2>3. QED BY ONLY <2>1, <2>2
<1>6. [i \in 1 .. 6 |-> s[2 * i - 1] * 10 + s[2 * i]] = t.digits
  <2>1. [i \in 1 .. 6 |-> s[2 * i - 1] * 10 + s[2 * i]] = [i \in 1 .. 6 |-> t.digits[i]]
    BY ONLY <1>2, Zenon
  <2>2. [i \in 1 .. 6 |-> t.digits[i]] = t.digits
    BY ONLY <1>3, Zenon
  <2>3. QED BY ONLY <2>1, <2>2, Zenon
<1>7. PICK x, y, b : /\ x = [i \in 1 .. 6 |-> s[2 * i - 1] * 10 + s[2 * i]]
                     /\ y = ((s[13] % 8) * 10 + s[14]) * 15 /\ b = (s[13] < 8)
  BY ONLY Zenon
<1>8. t = [digits |-> x, zone |-> [minutes |-> y, negative |-> b]]
  <2>1. t.zone = [minutes |-> t.zone.minutes, negative |-> t.zone.negative]
    BY <1>3 DEF Zones
  <2>2. t = [digits |-> t.digits, zone |-> t.zone]
    BY DEF Times
  <2>3. x = t.digits /\ y = t.zone.minutes /\ b = t.zone.negative
    BY ONLY <1>2, <1>5, <1>6, <1>7, Zenon
  <2>4. QED BY ONLY <2>1, <2>2, <2>3, Zenon
<1>9. PICK d : d = In(B, f, s, h, g)
  OBVIOUS
<1>10. d.ok /\ d.val = s
  BY ONLY <1>9, ReaderFields DEF In
<1>11. TimestampOf(d) = [d EXCEPT !.val = [digits |-> x, zone |-> [minutes |-> y, negative |-> b]]]
  BY ONLY <1>7, <1>10, Zenon DEF TimestampOf
<1>12. [d EXCEPT !.val = t] = In(B, f, t, h, g)
  BY ONLY <1>9, ReaderMoves DEF In
<1>13. QED BY ONLY <1>1, <1>8, <1>9, <1>11, <1>12, Zenon

LEMMA TimestampRead ==
  ASSUME NEW e \in Writers, NEW t \in Times
  PROVE  \E f \in Writers : /\ f = SetTimestamp(e, t) /\ Extends(e, f)
                            /\ TimeRead(e, f, t)
<1>1. PICK f \in Writers : f = AlignOctet(e) /\ Extends(e, f)
  BY OctetAligned, Zenon
<1>2. PICK s \in Seq(Nat) : s = TimeDigits(t) /\ Len(s) = 14 /\ AllFit(s, 4)
  BY TimeDigitsTyped, Zenon
<1>3. 4 \in Sizes
  BY DEF Sizes
<1>4. PICK bits \in Seq(Bit) : bits = BitsOf(s, 4)
  BY <1>3, ManyBits, Zenon
<1>5. PICK k \in Writers : k = SetBits(f, bits) /\ Extends(f, k)
  BY BitsSet, Zenon
<1>6. Len(s) % 2 # 1
  BY ONLY <1>2
<1>7. k = SetTimestamp(e, t)
  BY ONLY <1>1, <1>2, <1>4, <1>5, <1>6, Zenon DEF SetTimestamp, SetSemiOctets
<1>8. ASSUME NEW B \in Seq(Bit), Begins(B, k.bits), NEW v, NEW h, NEW g
      PROVE  GetTimestamp(In(B, e, v, h, g)) = In(B, k, t, h, g)
  <2>1. ToOctet(In(B, e, v, h, g)) = In(B, f, v, h, g)
    BY ONLY <1>1, e \in Writers, ToOctetRead
  <2>2. Begins(B, SetBits(f, BitsOf(s, 4)).bits)
    BY ONLY <1>4, <1>5, <1>8, Zenon
  <2>3. \A v1, h1, g1 : GetMany(In(B, f, v1, h1, g1), 4, Len(s))
                          = In(B, SetBits(f, BitsOf(s, 4)), s, h1, g1)
    BY <1>2, <1>3, <2>2, NumbersRead, Zenon
  <2>4. GetMany(In(B, f, v, h, g), 4, 14) = In(B, k, s, h, g)
    BY ONLY <1>2, <1>4, <1>5, <2>3, Zenon
  <2>5. TimestampOf(In(B, k, s, h, g)) = In(B, k, t, h, g)
    BY <1>2, TimestampIs, Zenon
  <2>6. QED BY ONLY <2>1, <2>4, <2>5, Zenon DEF GetTimestamp
<1>9. TimeRead(e, k, t)
  BY ONLY <1>8, Zenon DEF TimeRead
<1>10. Extends(e, k)
  BY ONLY <1>1, <1>5, ExtendsOn
<1>11. QED BY ONLY <1>7, <1>9, <1>10, k \in Writers, Zenon

PeriodRead(e, f, p) ==
  \A B \in Seq(Bit) : Begins(B, f.bits) =>
    \A v, h, g : GetTimePeriod(In(B, e, v, h, g), p.format) = In(B, f, p, h, g)

LEMMA TimePeriodRead ==
  ASSUME NEW e \in Writers, NEW p \in Periods
  PROVE  \E f \in Writers : /\ f = SetTimePeriod(e, p) /\ Extends(e, f)
                            /\ PeriodRead(e, f, p)
<1>1. CASE p \in [format : {0}]
  <2>1. p.format = 0 /\ p = [format |-> 0]
    BY <1>1
  <2>2. SetTimePeriod(e, p) = e
    BY <2>1 DEF SetTimePeriod
  <2>3. ASSUME NEW B, NEW v, NEW h, NEW g
        PROVE  GetTimePeriod(In(B, e, v, h, g), p.format) = In(B, e, p, h, g)
    <3>1. PICK d : d = In(B, e, v, h, g)
      OBVIOUS
    <3>2. GetTimePeriod(d, p.format) = [d EXCEPT !.val = p]
      BY ONLY <2>1 DEF GetTimePeriod
    <3>3. [d EXCEPT !.val = p] = In(B, e, p, h, g)
      BY ONLY <3>1, ReaderMoves DEF In
    <3>4. QED BY ONLY <3>1, <3>2, <3>3, Zenon
  <2>4. PeriodRead(e, e, p)
    BY ONLY <2>3, Zenon DEF PeriodRead
  <2>5. Extends(e, e)
    BY Zenon DEF Extends
  <2>6. QED BY ONLY <2>2, <2>4, <2>5, e \in Writers, Zenon
<1>2. CASE p \in [format : {2}, relative : Octet]
  <2>1. p.format = 2 /\ p.relative \in Octet /\ p = [format |-> 2, relative |-> p.relative]
    BY <1>2
  <2>2. PICK x \in Octet : x = p.relative
    BY <2>1
  <2>3. PICK f \in Writers : f = SetOctets(e, <<x>>) /\ Extends(e, f) /\ OctetIn(e, f, x)
    BY OctetRead, Zenon
  <2>4. SetTimePeriod(e, p) = f
    <3>1. SetTimePeriod(e, p) = SetOctets(e, <<p.relative>>)
      BY <2>1 DEF SetTimePeriod
    <3>2. QED BY ONLY <2>2, <2>3, <3>1, Zenon
  <2>5. ASSUME NEW B \in Seq(Bit), Begins(B, f.bits), NEW v, NEW h, NEW g
        PROVE  GetTimePeriod(In(B, e, v, h, g), p.format) = In(B, f, p, h, g)
    <3>1. GetOctet(In(B, e, v, h, g)) = In(B, f, x, h, g)
      BY ONLY <2>3, <2>5, B \in Seq(Bit), Zenon DEF OctetIn
    <3>2. PICK d : d = In(B, f, x, h, g)
      OBVIOUS
    <3>3. d.val = x
      BY ONLY <3>2, ReaderFields DEF In
    <3>4. \A k : GetTimePeriod(k, p.format) = Relative(GetOctet(k))
      BY ONLY <2>1 DEF GetTimePeriod
    <3>5. Relative(d) = [d EXCEPT !.val = p]
      BY ONLY <2>1, <2>2, <3>3, Zenon DEF Relative
    <3>6. [d EXCEPT !.val = p] = In(B, f, p, h, g)
      BY ONLY <3>2, ReaderMoves DEF In
    <3>7. QED BY ONLY <3>1, <3>2, <3>4, <3>5, <3>6, Zenon
  <2>6. PeriodRead(e, f, p)
    BY ONLY <2>5, Zenon DEF PeriodRead
  <2>7. QED BY ONLY <2>3, <2>4, <2>6, f \in Writers, Zenon
<1>3. CASE p \in [format : {3}, absolute : Times]
  <2>1. p.format = 3 /\ p.absolute \in Times /\ p = [format |-> 3, absolute |-> p.absolute]
    BY <1>3
  <2>2. PICK x \in Times : x = p.absolute
    BY <2>1
  <2>3. PICK f \in Writers : f = SetTimestamp(e, x) /\ Extends(e, f) /\ TimeRead(e, f, x)
    BY TimestampRead, Zenon
  <2>4. SetTimePeriod(e, p) = f
    <3>1. SetTimePeriod(e, p) = SetTimestamp(e, p.absolute)
      BY <2>1 DEF SetTimePeriod
    <3>2. QED BY ONLY <2>2, <2>3, <3>1, Zenon
  <2>5. ASSUME NEW B \in Seq(Bit), Begins(B, f.bits), NEW v, NEW h, NEW g
        PROVE  GetTimePeriod(In(B, e, v, h, g), p.format) = In(B, f, p, h, g)
    <3>1. GetTimestamp(In(B, e, v, h, g)) = In(B, f, x, h, g)
      BY ONLY <2>3, <2>5, B \in Seq(Bit), Zenon DEF TimeRead
    <3>2. PICK d : d = In(B, f, x, h, g)
      OBVIOUS
    <3>3. d.val = x
      BY ONLY <3>2, ReaderFields DEF In
    <3>4. \A k : GetTimePeriod(k, p.format) = Absolute(GetTimestamp(k))
      BY ONLY <2>1 DEF GetTimePeriod
    <3>5. Absolute(d) = [d EXCEPT !.val = p]
      BY ONLY <2>1, <2>2, <3>3, Zenon DEF Absolute
    <3>6. [d EXCEPT !.val = p] = In(B, f, p, h, g)
      BY ONLY <3>2, ReaderMoves DEF In
    <3>7. QED BY ONLY <3>1, <3>2, <3>4, <3>5, <3>6, Zenon
  <2>6. PeriodRead(e, f, p)
    BY ONLY <2>5, Zenon DEF PeriodRead
  <2>7. QED BY ONLY <2>3, <2>4, <2>6, f \in Writers, Zenon
<1>4. QED BY <1>1, <1>2, <1>3 DEF Periods

(* As many octets as the first of them says.                                *)
CountRead(e, f, octets) ==
  \A B \in Seq(Bit) : Begins(B, f.bits) =>
    \A v, h, g : GetCounted(In(B, e, v, h, g)) = In(B, f, octets, h, g)

LEMMA CountedRead ==
  ASSUME NEW e \in Writers, NEW octets \in Counted(Octet)
  PROVE  \E f \in Writers : /\ f = SetOctets(SetOctets(e, <<Len(octets)>>), octets)
                            /\ Extends(e, f) /\ CountRead(e, f, octets)
<1>1. octets \in Seq(Octet) /\ Len(octets) \in Octet
  BY DEF Counted
<1>2. PICK n \in Octet : n = Len(octets)
  BY <1>1
<1>3. PICK k \in Writers : k = SetOctets(e, <<n>>) /\ Extends(e, k) /\ OctetIn(e, k, n)
  BY OctetRead, Zenon
<1>4. PICK f \in Writers : f = SetOctets(k, octets) /\ Extends(k, f) /\ OctetsIn(k, f, octets)
  BY <1>1, OctetsRead, Zenon
<1>7. ASSUME NEW B \in Seq(Bit), Begins(B, f.bits), NEW v, NEW h, NEW g
      PROVE  GetCounted(In(B, e, v, h, g)) = In(B, f, octets, h, g)
  <2>1. Begins(B, k.bits)
    BY ONLY <1>4, <1>7, B \in Seq(Bit), Zenon DEF Extends
  <2>2. PICK d : d = GetOctet(In(B, e, v, h, g)) /\ d = In(B, k, n, h, g)
    BY ONLY <1>3, <2>1, B \in Seq(Bit), Zenon DEF OctetIn
  <2>3. d.val = n
    BY ONLY <2>2, ReaderFields DEF In
  <2>4. GetOctets(d, n) = In(B, f, octets, h, g)
    BY ONLY <1>2, <1>4, <1>7, <2>2, B \in Seq(Bit), Zenon DEF OctetsIn
  <2>5. QED BY ONLY <2>2, <2>3, <2>4, Zenon DEF GetCounted, ThatMany
<1>8. CountRead(e, f, octets)
  BY ONLY <1>7, Zenon DEF CountRead
<1>9. Extends(e, f)
  BY ONLY <1>3, <1>4, ExtendsOn
<1>10. f = SetOctets(SetOctets(e, <<Len(octets)>>), octets)
  BY ONLY <1>2, <1>3, <1>4, Zenon
<1>11. QED BY ONLY <1>8, <1>9, <1>10, f \in Writers, Zenon

-----------------------------------------------------------------------------
(* Addresses.                                                               *)
LEMMA SetTwice ==
  ASSUME NEW e \in Writers, NEW s \in Seq(Bit), NEW t \in Seq(Bit)
  PROVE  SetBits(e, s \o t) = SetBits(SetBits(e, s), t)
<1>1. PICK f \in Writers : f = SetBits(e, s) /\ f.bits = e.bits \o s /\ f.mark = e.mark
  BY BitsSet, Zenon
<1>2. (e.bits \o s) \o t = e.bits \o (s \o t)
  <2>1. PICK b \in Seq(Bit) : b = e.bits
    BY WriterParts
  <2>2. (b \o s) \o t = b \o (s \o t)
    BY ConcatAssociative
  <2>3. QED BY ONLY <2>1, <2>2, Zenon
<1>3. PICK x, y : x = f.bits \o t /\ y = e.bits \o (s \o t) /\ x = y
  BY ONLY <1>1, <1>2, Zenon
<1>4. [f EXCEPT !.bits = x] = [e EXCEPT !.bits = x]
  BY <1>1 DEF Writers
<1>5. SetBits(e, s \o t) = [e EXCEPT !.bits = y] /\ SetBits(f, t) = [f EXCEPT !.bits = x]
  BY ONLY <1>3, Zenon DEF SetBits
<1>6. QED BY ONLY <1>1, <1>3, <1>4, <1>5, Zenon

(* The octet that has the plan and the type of an address: a reader of both  *)
(* is one bit short of its end.                                             *)
Typed(e, a) == SetBits(e, Bits(a.plan, 4) \o Bits(a.type, 3) \o <<1>>)

TypeRead(e, f, plan, type) ==
  \A B \in Seq(Bit) : Begins(B, f.bits) => \A v, h, g :
    \E c, d : /\ GetBits(In(B, e, v, h, g), 4) = c /\ c.val = plan
              /\ GetBits(c, 3) = d /\ d.val = type /\ ToOctet(d) = In(B, f, type, h, g)

LEMMA TypedRead ==
  ASSUME NEW e \in Writers, Len(e.bits) % 8 = 0, NEW a, a.plan \in 0 .. 15, a.type \in 0 .. 7
  PROVE  \E f \in Writers : /\ f = Typed(e, a) /\ Extends(e, f) /\ Len(f.bits) % 8 = 0
                            /\ TypeRead(e, f, a.plan, a.type)
<1>1. PICK plan \in 0 .. 15, type \in 0 .. 7 : plan = a.plan /\ type = a.type
  OBVIOUS
<1>2. 3 \in Sizes /\ 4 \in Sizes /\ plan \in Nat /\ type \in Nat
  BY DEF Sizes
<1>3. PICK p \in Seq(Bit) : p = Bits(plan, 4) /\ Len(p) = 4
  BY <1>2, BitsAgain, Zenon
<1>4. PICK t \in Seq(Bit) : t = Bits(type, 3) /\ Len(t) = 3
  BY <1>2, BitsAgain, Zenon
<1>5. PICK o \in Seq(Bit) : o = <<1>> /\ Len(o) = 1
  <2>1. <<1>> \in Seq(Bit) /\ Len(<<1>>) = 1
    BY DEF Bit
  <2>2. QED BY ONLY <2>1, Zenon
<1>6. Fits(plan, 4) /\ Fits(type, 3)
  <2>1. Weights[4] = 8 /\ Weights[3] = 4
    BY DEF Weights
  <2>2. plan < 2 * 8 /\ type < 2 * 4
    OBVIOUS
  <2>3. QED BY ONLY <1>2, <2>1, <2>2, Zenon DEF Fits
<1>7. PICK c \in Writers : /\ c = SetBits(e, p) /\ Extends(e, c) /\ c.mark = e.mark
                           /\ Len(c.bits) = Len(e.bits) + 4 /\ NumberIn(e, c, 4, plan)
  BY <1>2, <1>3, <1>6, NumberWritten, Zenon
<1>8. PICK d \in Writers : /\ d = SetBits(c, t) /\ Extends(c, d) /\ d.mark = c.mark
                           /\ Len(d.bits) = Len(c.bits) + 3 /\ NumberIn(c, d, 3, type)
  BY <1>2, <1>4, <1>6, NumberWritten, Zenon
<1>10. PICK f : f = SetBits(d, o)
  OBVIOUS
<1>11. f \in Writers /\ Extends(d, f) /\ f.mark = d.mark /\ Len(f.bits) = Len(d.bits) + Len(o)
  BY <1>10, BitsSet, Zenon
<1>12. f = Typed(e, a)
  <2>1. p \o t \in Seq(Bit)
    BY ConcatProperties
  <2>2. SetBits(e, (p \o t) \o o) = SetBits(SetBits(e, p \o t), o)
    BY <2>1, SetTwice
  <2>3. SetBits(e, p \o t) = d
    BY <1>7, <1>8, SetTwice
  <2>4. QED BY ONLY <1>1, <1>3, <1>4, <1>5, <1>10, <2>2, <2>3, Zenon DEF Typed
<1>13. PICK L \in Nat : L = Len(e.bits) /\ L % 8 = 0 /\ Len(d.bits) = L + 7 /\ Len(f.bits) = L + 8
  <2>1. PICK L \in Nat : L = Len(e.bits)
    BY WriterParts
  <2>2. L % 8 = 0
    BY <2>1
  <2>3. Len(d.bits) = L + 4 + 3 /\ Len(f.bits) = Len(d.bits) + 1
    BY ONLY <1>5, <1>7, <1>8, <1>11, <2>1, Zenon
  <2>4. Len(d.bits) = L + 7 /\ Len(f.bits) = L + 8
    BY ONLY <2>3, L \in Nat
  <2>5. QED BY ONLY <2>1, <2>2, <2>4, Zenon
<1>14. (L + 8) % 8 = 0 /\ (L + 7) + ((-(L + 7)) % 8) = L + 8
  <2>1. PICK q \in Nat : L = 8 * q
    <3>1. L % 8 = 0
      BY ONLY <1>13, Zenon
    <3>2. QED BY ONLY <3>1, L \in Nat
  <2>2. (8 * q + 8) % 8 = 0 /\ (-(8 * q + 7)) % 8 = 1
    BY ONLY q \in Nat
  <2>3. QED BY ONLY <2>1, <2>2, q \in Nat
<1>15. Len(f.bits) % 8 = 0
  BY ONLY <1>13, <1>14, Zenon
<1>16. ASSUME NEW B \in Seq(Bit), Begins(B, f.bits), NEW v, NEW h, NEW g
       PROVE  \E k, m : /\ GetBits(In(B, e, v, h, g), 4) = k /\ k.val = plan
                        /\ GetBits(k, 3) = m /\ m.val = type /\ ToOctet(m) = In(B, f, type, h, g)
  <2>1. Begins(B, d.bits)
    BY ONLY <1>11, <1>16, B \in Seq(Bit), Zenon DEF Extends
  <2>2. Begins(B, c.bits)
    BY ONLY <1>8, <2>1, B \in Seq(Bit), Zenon DEF Extends
  <2>3. GetBits(In(B, e, v, h, g), 4) = In(B, c, plan, h, g)
    <3>1. \A v1, h1, g1 : GetBits(In(B, e, v1, h1, g1), 4) = In(B, c, plan, h1, g1)
      BY ONLY <1>7, <2>2, B \in Seq(Bit), Zenon DEF NumberIn
    <3>2. QED BY ONLY <3>1, Zenon
  <2>4. GetBits(In(B, c, plan, h, g), 3) = In(B, d, type, h, g)
    <3>1. \A v1, h1, g1 : GetBits(In(B, c, v1, h1, g1), 3) = In(B, d, type, h1, g1)
      BY ONLY <1>8, <2>1, B \in Seq(Bit), Zenon DEF NumberIn
    <3>2. QED BY ONLY <3>1, Zenon
  <2>5. ToOctet(In(B, d, type, h, g)) = In(B, f, type, h, g)
    <3>1. PICK x \in Nat : x = L + 7
      OBVIOUS
    <3>2. ToOctet(Reader(B, x, d.mark, type, h, g)) = Reader(B, x + ((-x) % 8), d.mark, type, h, g)
      BY ONLY MovesToOctet
    <3>3. x + ((-x) % 8) = L + 8
      BY ONLY <1>14, <3>1, Zenon
    <3>4. In(B, d, type, h, g) = Reader(B, x, d.mark, type, h, g)
      BY ONLY <1>13, <3>1, Zenon DEF In
    <3>5. In(B, f, type, h, g) = Reader(B, L + 8, d.mark, type, h, g)
      BY ONLY <1>11, <1>13, Zenon DEF In
    <3>6. QED BY ONLY <3>2, <3>3, <3>4, <3>5, Zenon
  <2>6. In(B, c, plan, h, g).val = plan /\ In(B, d, type, h, g).val = type
    BY ONLY ReaderFields DEF In
  <2>7. QED BY ONLY <2>3, <2>4, <2>5, <2>6, Zenon
<1>17. TypeRead(e, f, a.plan, a.type)
  <2>1. TypeRead(e, f, plan, type)
    BY ONLY <1>16, Zenon DEF TypeRead
  <2>2. QED BY ONLY <1>1, <2>1, Zenon
<1>18. Extends(e, f)
  <2>1. Extends(e, d)
    BY ONLY <1>7, <1>8, ExtendsOn
  <2>2. QED BY ONLY <1>11, <2>1, ExtendsOn
<1>19. QED BY ONLY <1>11, <1>12, <1>15, <1>17, <1>18, Zenon

(* What follows that octet.                                                 *)
Numbered(t, a) ==
  AlignOctet(IF a.type = Alphanumeric THEN SetString(MarkSeptet(t), LatinCodes(a.number))
             ELSE SetSemiOctets(t, a.number))
BodyRead(t, f, a, sca) ==
  \A B \in Seq(Bit) : Begins(B, f.bits) => \A d, v, h, g :
    ToOctet(d) = In(B, t, v, h, g) /\ d.val = a.type
      => FromType(d, sca, NetworkLength(a, sca), a.plan) = In(B, f, a, h, g)

LEMMA AddressIs ==
  ASSUME NEW B, NEW f, NEW h, NEW g, NEW a, NEW plan, NEW type, NEW number,
         a = [type |-> type, plan |-> plan, number |-> number]
  PROVE  AddressOf(In(B, f, number, h, g), plan, type) = In(B, f, a, h, g)
<1>1. PICK d : d = In(B, f, number, h, g)
  OBVIOUS
<1>2. d.val = number
  BY ONLY <1>1, ReaderFields DEF In
<1>3. AddressOf(d, plan, type) = [d EXCEPT !.val = [type |-> type, plan |-> plan, number |-> number]]
  BY ONLY <1>2, Zenon DEF AddressOf
<1>4. AddressOf(d, plan, type) = [d EXCEPT !.val = a]
  BY <1>3, Zenon
<1>5. [d EXCEPT !.val = a] = In(B, f, a, h, g)
  BY ONLY <1>1, ReaderMoves DEF In
<1>6. QED BY ONLY <1>1, <1>4, <1>5, Zenon

LEMMA DialledRead ==
  ASSUME NEW t \in Writers, Len(t.bits) % 8 = 0, NEW a \in Dialled, NEW sca \in BOOLEAN
  PROVE  \E f \in Writers : f = Numbered(t, a) /\ Extends(t, f) /\ BodyRead(t, f, a, sca)
<1>1. /\ a.type # Alphanumeric /\ a.number \in Digits /\ Len(a.number) \in Nat
      /\ a = [type |-> a.type, plan |-> a.plan, number |-> a.number]
  BY LenProperties DEF Dialled, Counted, Digits
<1>2. PICK number \in Digits : number = a.number
  BY <1>1
<1>3. PICK f \in Writers : /\ f = SetSemiOctets(t, number) /\ Extends(t, f)
                           /\ Len(f.bits) % 8 = 0 /\ SemiRead(t, f, number)
  BY SemiOctetsRead, Zenon
<1>4. f = Numbered(t, a)
  <2>1. AlignOctet(f) = f
    BY <1>3, AlignedAlready, Zenon
  <2>2. QED BY ONLY <1>1, <1>2, <1>3, <2>1, Zenon DEF Numbered
<1>5. PICK count : /\ count = (IF sca THEN (NetworkLength(a, sca) - 1) * 2 ELSE NetworkLength(a, sca))
                   /\ count \in {Len(number), Len(Padded(number))}
  <2>1. PICK L \in Nat : L = Len(number)
    BY <1>1, <1>2
  <2>2. CASE sca
    <3>1. NetworkLength(a, sca) = (L \div 2) + (L % 2) + 1
      BY ONLY <1>2, <2>1, <2>2 DEF NetworkLength
    <3>2. Len(Padded(number)) = 2 * ((L + 1) \div 2)
      BY <2>1, PaddedKept, Zenon
    <3>3. (((L \div 2) + (L % 2) + 1) - 1) * 2 = 2 * ((L + 1) \div 2)
      BY ONLY L \in Nat
    <3>4. (NetworkLength(a, sca) - 1) * 2 = Len(Padded(number))
      BY ONLY <3>1, <3>2, <3>3, Zenon
    <3>5. QED BY ONLY <2>2, <3>4, Zenon
  <2>3. CASE ~ sca
    <3>1. NetworkLength(a, sca) = L
      BY ONLY <1>1, <1>2, <2>1, <2>3 DEF NetworkLength
    <3>2. QED BY ONLY <2>1, <2>3, <3>1, Zenon
  <2>4. QED BY <2>2, <2>3
<1>6. ASSUME NEW B \in Seq(Bit), Begins(B, f.bits), NEW d, NEW v, NEW h, NEW g,
             ToOctet(d) = In(B, t, v, h, g), d.val = a.type
      PROVE  FromType(d, sca, NetworkLength(a, sca), a.plan) = In(B, f, a, h, g)
  <2>1. GetSemiOctets(In(B, t, v, h, g), count) = In(B, f, number, h, g)
    <3>1. \A n1 \in {Len(number), Len(Padded(number))} : \A v1, h1, g1 :
            GetSemiOctets(In(B, t, v1, h1, g1), n1) = In(B, f, number, h1, g1)
      BY ONLY <1>3, <1>6, B \in Seq(Bit), Zenon DEF SemiRead
    <3>2. \A v1, h1, g1 : GetSemiOctets(In(B, t, v1, h1, g1), count) = In(B, f, number, h1, g1)
      BY ONLY <1>5, <3>1, Zenon
    <3>3. QED BY ONLY <3>2, Zenon
  <2>2. ToOctet(In(B, t, v, h, g)) = ToOctet(d)
    <3>1. ToOctet(In(B, t, v, h, g)) = In(B, AlignOctet(t), v, h, g)
      BY ONLY t \in Writers, ToOctetRead
    <3>2. AlignOctet(t) = t
      BY AlignedAlready, Zenon
    <3>3. QED BY <1>6, <3>1, <3>2, Zenon
  <2>3. GetSemiOctets(d, count) = In(B, f, number, h, g)
    BY ONLY <2>1, <2>2, Zenon DEF GetSemiOctets
  <2>4. FromType(d, sca, NetworkLength(a, sca), a.plan) = AddressOf(GetSemiOctets(d, count), a.plan, a.type)
    BY ONLY <1>1, <1>5, <1>6, Zenon DEF FromType
  <2>5. AddressOf(In(B, f, number, h, g), a.plan, a.type) = In(B, f, a, h, g)
    BY ONLY <1>1, <1>2, AddressIs
  <2>6. QED BY ONLY <2>3, <2>4, <2>5, Zenon
<1>7. BodyRead(t, f, a, sca)
  BY ONLY <1>6, Zenon DEF BodyRead
<1>8. QED BY ONLY <1>3, <1>4, <1>7, Zenon

LEMMA NamedRead ==
  ASSUME NEW t \in Writers, Len(t.bits) % 8 = 0, NEW a \in Senders
  PROVE  \E f \in Writers : f = Numbered(t, a) /\ Extends(t, f) /\ BodyRead(t, f, a, FALSE)
<1>1. /\ a.type = Alphanumeric /\ a.number \in Seq(Octet) /\ Len(a.number) \in Nat
      /\ Spelled(a.number) = a.number
      /\ a = [type |-> a.type, plan |-> a.plan, number |-> a.number]
  <2>1. a \in [type : {Alphanumeric}, plan : 0 .. 15, number : Seq(Octet)] /\ Spelled(a.number) = a.number
    BY Zenon DEF Senders
  <2>2. a.type = Alphanumeric /\ a.number \in Seq(Octet)
    BY ONLY <2>1
  <2>3. Len(a.number) \in Nat
    BY <2>2, LenProperties
  <2>4. a = [type |-> a.type, plan |-> a.plan, number |-> a.number]
    BY ONLY <2>1
  <2>5. QED BY ONLY <2>1, <2>2, <2>3, <2>4, Zenon
<1>2. PICK number \in Seq(Octet) : number = a.number /\ Spelled(number) = number
  BY ONLY <1>1, Zenon
<1>3. PICK m \in Writers : m = MarkSeptet(t) /\ Extends(t, m) /\ MarkedIn(t, m)
  BY SeptetMarked, Zenon
<1>4. PICK k \in Writers : /\ k = SetString(m, LatinCodes(number)) /\ Extends(m, k)
                           /\ StringIn(m, k, number)
  BY StringRead, Zenon
<1>6. PICK f \in Writers : f = AlignOctet(k) /\ Extends(k, f)
  BY OctetAligned, Zenon
<1>7. f = Numbered(t, a)
  BY ONLY <1>1, <1>2, <1>3, <1>4, <1>6, Zenon DEF Numbered
<1>8. (NetworkLength(a, FALSE) * 4) \div 7 = Len(number)
  <2>1. PICK L \in Nat : L = Len(number)
    BY <1>1, <1>2
  <2>2. NetworkLength(a, FALSE) = (L * 7 + 3) \div 4
    BY ONLY <1>1, <1>2, <2>1 DEF NetworkLength
  <2>3. (((L * 7 + 3) \div 4) * 4) \div 7 = L
    BY ONLY L \in Nat
  <2>4. QED BY ONLY <2>1, <2>2, <2>3, Zenon
<1>9. ASSUME NEW B \in Seq(Bit), Begins(B, f.bits), NEW d, NEW v, NEW h, NEW g,
             ToOctet(d) = In(B, t, v, h, g), d.val = a.type
      PROVE  FromType(d, FALSE, NetworkLength(a, FALSE), a.plan) = In(B, f, a, h, g)
  <2>1. Begins(B, k.bits)
    BY ONLY <1>6, <1>9, B \in Seq(Bit), Zenon DEF Extends
  <2>2. Marked(d) = In(B, m, v, h, g)
    <3>1. ToOctet(In(B, t, v, h, g)) = In(B, AlignOctet(t), v, h, g)
      BY ONLY t \in Writers, ToOctetRead
    <3>2. AlignOctet(t) = t
      BY AlignedAlready, Zenon
    <3>3. ToOctet(In(B, t, v, h, g)) = ToOctet(d)
      BY <1>9, <3>1, <3>2, Zenon
    <3>4. Marked(In(B, t, v, h, g)) = In(B, m, v, h, g)
      BY ONLY <1>3, Zenon DEF MarkedIn
    <3>5. QED BY ONLY <3>3, <3>4, Zenon DEF Marked
  <2>3. GetString(In(B, m, v, h, g), Len(number)) = In(B, k, number, h, g)
    BY ONLY <1>2, <1>4, <2>1, B \in Seq(Bit), Zenon DEF StringIn
  <2>4. ToOctet(In(B, k, number, h, g)) = In(B, f, number, h, g)
    BY ONLY <1>6, k \in Writers, ToOctetRead
  <2>5. FromType(d, FALSE, NetworkLength(a, FALSE), a.plan)
          = AddressOf(ToOctet(GetString(Marked(d), Len(number))), a.plan, a.type)
    BY ONLY <1>1, <1>8, <1>9, Zenon DEF FromType
  <2>6. AddressOf(In(B, f, number, h, g), a.plan, a.type) = In(B, f, a, h, g)
    BY ONLY <1>1, <1>2, AddressIs
  <2>7. QED BY ONLY <2>2, <2>3, <2>4, <2>5, <2>6, Zenon
<1>10. BodyRead(t, f, a, FALSE)
  BY ONLY <1>9, Zenon DEF BodyRead
<1>11. Extends(t, f)
  <2>1. Extends(t, k)
    BY ONLY <1>3, <1>4, ExtendsOn
  <2>2. QED BY ONLY <1>6, <2>1, ExtendsOn
<1>12. QED BY ONLY <1>7, <1>10, <1>11, f \in Writers, Zenon

(* The addresses that are written, of centres and of others.                *)
Addresses(sca) == IF sca THEN Centres ELSE Dialled \cup Senders
AddressRead(e, f, a, sca) ==
  \A B \in Seq(Bit) : Begins(B, f.bits) =>
    \A v, h, g : GetAddress(In(B, e, v, h, g), sca) = In(B, f, a, h, g)

LEMMA NoCentreRead ==
  ASSUME NEW e \in Writers
  PROVE  \E f \in Writers : /\ f = NetworkAddress(e, NoSca, TRUE) /\ Extends(e, f)
                            /\ AddressRead(e, f, NoSca, TRUE)
<1>1. PICK z \in Octet : z = 0
  BY DEF Octet
<1>2. PICK f \in Writers : f = SetOctets(e, <<z>>) /\ Extends(e, f) /\ OctetIn(e, f, z)
  BY OctetRead, Zenon
<1>4. NoSca.number = <<>>
  BY DEF NoSca
<1>5. f = NetworkAddress(e, NoSca, TRUE)
  BY ONLY <1>1, <1>2, <1>4, Zenon DEF NetworkAddress, SetSized
<1>6. ASSUME NEW B \in Seq(Bit), Begins(B, f.bits), NEW v, NEW h, NEW g
      PROVE  GetAddress(In(B, e, v, h, g), TRUE) = In(B, f, NoSca, h, g)
  <2>1. GetOctet(In(B, e, v, h, g)) = In(B, f, z, h, g)
    BY ONLY <1>2, <1>6, B \in Seq(Bit), Zenon DEF OctetIn
  <2>2. PICK d : d = In(B, f, z, h, g)
    OBVIOUS
  <2>3. d.val = 0
    BY ONLY <1>1, <2>2, ReaderFields DEF In
  <2>4. FromSize(d, TRUE) = [d EXCEPT !.val = NoSca]
    BY ONLY <2>3, Zenon DEF FromSize
  <2>5. [d EXCEPT !.val = NoSca] = In(B, f, NoSca, h, g)
    BY ONLY <2>2, ReaderMoves DEF In
  <2>6. QED BY ONLY <2>1, <2>2, <2>4, <2>5, Zenon DEF GetAddress
<1>7. AddressRead(e, f, NoSca, TRUE)
  BY ONLY <1>6, Zenon DEF AddressRead
<1>8. QED BY ONLY <1>2, <1>5, <1>7, f \in Writers, Zenon

LEMMA NumberedRead ==
  ASSUME NEW sca \in BOOLEAN, NEW a \in Addresses(sca), sca => a # NoSca
  PROVE  /\ a.plan \in 0 .. 15 /\ a.type \in 0 .. 7
         /\ NetworkLength(a, sca) \in Octet /\ ~ (sca /\ a.number = <<>>)
         /\ ~ (sca /\ NetworkLength(a, sca) = 0)
         /\ \A t \in Writers : Len(t.bits) % 8 = 0 =>
              \E f \in Writers : f = Numbered(t, a) /\ Extends(t, f) /\ BodyRead(t, f, a, sca)
<1>1. CASE a \in Dialled
  <2>1. /\ a.plan \in 0 .. 15 /\ a.type \in 0 .. 7 /\ a.type # Alphanumeric
        /\ Len(a.number) \in 0 .. 255
    BY <1>1 DEF Dialled, Counted, Octet
  <2>2. ~ (sca /\ a.number = <<>>)
    <3>1. sca => a \in Centres /\ a # NoSca
      BY Zenon DEF Addresses
    <3>2. QED BY ONLY <3>1, Zenon DEF Centres
  <2>3. PICK L \in 0 .. 255 : L = Len(a.number)
    BY <2>1
  <2>4. NetworkLength(a, sca) = IF sca THEN (L \div 2) + (L % 2) + 1 ELSE L
    BY ONLY <2>1, <2>3, sca \in BOOLEAN DEF NetworkLength
  <2>5. /\ (L \div 2) + (L % 2) + 1 \in 0 .. 255 /\ L \in 0 .. 255
        /\ (L \div 2) + (L % 2) + 1 # 0
    BY ONLY L \in 0 .. 255
  <2>6. NetworkLength(a, sca) \in Octet /\ ~ (sca /\ NetworkLength(a, sca) = 0)
    BY ONLY <2>4, <2>5, sca \in BOOLEAN, Zenon DEF Octet
  <2>7. \A t \in Writers : Len(t.bits) % 8 = 0 =>
          \E f \in Writers : f = Numbered(t, a) /\ Extends(t, f) /\ BodyRead(t, f, a, sca)
    BY <1>1, DialledRead, Zenon
  <2>8. QED BY ONLY <2>1, <2>2, <2>6, <2>7, Zenon
<1>2. CASE ~ sca /\ a \in Senders
  <2>1. /\ a \in [type : {Alphanumeric}, plan : 0 .. 15, number : Seq(Octet)]
        /\ (Len(a.number) * 7 + 3) \div 4 \in Octet
    BY <1>2, Zenon DEF Senders
  <2>2. a.plan \in 0 .. 15 /\ a.type = Alphanumeric
    BY ONLY <2>1
  <2>3. a.type \in 0 .. 7
    BY ONLY <2>2 DEF Alphanumeric
  <2>4. NetworkLength(a, sca) = (Len(a.number) * 7 + 3) \div 4
    BY ONLY <1>2, <2>2 DEF NetworkLength
  <2>5. NetworkLength(a, sca) \in Octet
    BY ONLY <2>1, <2>4, Zenon
  <2>6. sca = FALSE
    BY <1>2
  <2>7. \A t \in Writers : Len(t.bits) % 8 = 0 =>
          \E f \in Writers : f = Numbered(t, a) /\ Extends(t, f) /\ BodyRead(t, f, a, FALSE)
    BY <1>2, NamedRead, Zenon
  <2>8. QED BY ONLY <2>2, <2>3, <2>5, <2>6, <2>7, Zenon
<1>3. a \in Dialled \/ (~ sca /\ a \in Senders)
  BY Zenon DEF Addresses, Centres
<1>4. QED BY ONLY <1>1, <1>2, <1>3

LEMMA AnAddressRead ==
  ASSUME NEW e \in Writers, NEW sca \in BOOLEAN, NEW a \in Addresses(sca)
  PROVE  \E f \in Writers : /\ f = NetworkAddress(e, a, sca) /\ Extends(e, f)
                            /\ AddressRead(e, f, a, sca)
<1>1. CASE sca /\ a = NoSca
  <2>1. sca = TRUE
    BY <1>1
  <2>2. \E f \in Writers : /\ f = NetworkAddress(e, NoSca, TRUE) /\ Extends(e, f)
                           /\ AddressRead(e, f, NoSca, TRUE)
    BY NoCentreRead, Zenon
  <2>3. QED BY ONLY <1>1, <2>1, <2>2, Zenon
<1>2. CASE sca => a # NoSca
  <2>1. /\ a.plan \in 0 .. 15 /\ a.type \in 0 .. 7
        /\ NetworkLength(a, sca) \in Octet /\ ~ (sca /\ a.number = <<>>)
        /\ ~ (sca /\ NetworkLength(a, sca) = 0)
        /\ \A t \in Writers : Len(t.bits) % 8 = 0 =>
             \E f \in Writers : f = Numbered(t, a) /\ Extends(t, f) /\ BodyRead(t, f, a, sca)
    BY <1>2, NumberedRead, Zenon
  <2>2. PICK n \in Octet : n = NetworkLength(a, sca)
    BY ONLY <2>1, Zenon
  <2>4. PICK o \in Writers : /\ o = SetOctets(e, <<n>>) /\ Extends(e, o) /\ Len(o.bits) % 8 = 0
                             /\ OctetIn(e, o, n)
    BY OctetRead, Zenon
  <2>5. PICK t \in Writers : /\ t = Typed(o, a) /\ Extends(o, t) /\ Len(t.bits) % 8 = 0
                             /\ TypeRead(o, t, a.plan, a.type)
    BY <2>1, <2>4, TypedRead, Zenon
  <2>6. PICK f \in Writers : f = Numbered(t, a) /\ Extends(t, f) /\ BodyRead(t, f, a, sca)
    BY ONLY <2>1, <2>5, t \in Writers, Zenon
  <2>7. f = NetworkAddress(e, a, sca)
    BY ONLY <2>1, <2>2, <2>4, <2>5, <2>6, Zenon DEF NetworkAddress, SetSized, Typed, Numbered
  <2>8. ASSUME NEW B \in Seq(Bit), Begins(B, f.bits), NEW v, NEW h, NEW g
        PROVE  GetAddress(In(B, e, v, h, g), sca) = In(B, f, a, h, g)
    <3>1. Begins(B, t.bits)
      BY ONLY <2>6, <2>8, B \in Seq(Bit), Zenon DEF Extends
    <3>2. Begins(B, o.bits)
      BY ONLY <2>5, <3>1, B \in Seq(Bit), Zenon DEF Extends
    <3>3. PICK i : i = GetOctet(In(B, e, v, h, g)) /\ i = In(B, o, n, h, g)
      BY ONLY <2>4, <3>2, B \in Seq(Bit), Zenon DEF OctetIn
    <3>4. i.val = n
      BY ONLY <3>3, ReaderFields DEF In
    <3>5. PICK c, d : /\ GetBits(i, 4) = c /\ c.val = a.plan
                      /\ GetBits(c, 3) = d /\ d.val = a.type /\ ToOctet(d) = In(B, t, a.type, h, g)
      <4>1. \A v1, h1, g1 :
              \E c, d : /\ GetBits(In(B, o, v1, h1, g1), 4) = c /\ c.val = a.plan
                        /\ GetBits(c, 3) = d /\ d.val = a.type /\ ToOctet(d) = In(B, t, a.type, h1, g1)
        BY ONLY <2>5, <3>1, B \in Seq(Bit), Zenon DEF TypeRead
      <4>2. \E c, d : /\ GetBits(In(B, o, n, h, g), 4) = c /\ c.val = a.plan
                      /\ GetBits(c, 3) = d /\ d.val = a.type /\ ToOctet(d) = In(B, t, a.type, h, g)
        BY ONLY <4>1
      <4>3. QED BY ONLY <3>3, <4>2, Zenon
    <3>6. FromType(d, sca, n, a.plan) = In(B, f, a, h, g)
      <4>1. \A d1, v1, h1, g1 : ToOctet(d1) = In(B, t, v1, h1, g1) /\ d1.val = a.type
              => FromType(d1, sca, NetworkLength(a, sca), a.plan) = In(B, f, a, h1, g1)
        BY ONLY <2>6, <2>8, B \in Seq(Bit), Zenon DEF BodyRead
      <4>2. FromType(d, sca, NetworkLength(a, sca), a.plan) = In(B, f, a, h, g)
        <5>1. ToOctet(d) = In(B, t, a.type, h, g) /\ d.val = a.type
                => FromType(d, sca, NetworkLength(a, sca), a.plan) = In(B, f, a, h, g)
          BY ONLY <4>1, Zenon
        <5>2. QED BY ONLY <3>5, <5>1, Zenon
      <4>3. QED BY ONLY <2>2, <4>2, Zenon
    <3>7. FromSize(i, sca) = FromPlan(c, sca, n)
      BY ONLY <2>1, <2>2, <3>4, <3>5, Zenon DEF FromSize
    <3>8. FromPlan(c, sca, n) = FromType(d, sca, n, a.plan)
      BY ONLY <3>5, Zenon DEF FromPlan
    <3>9. QED BY ONLY <3>3, <3>6, <3>7, <3>8, Zenon DEF GetAddress
  <2>9. AddressRead(e, f, a, sca)
    BY ONLY <2>8, Zenon DEF AddressRead
  <2>10. Extends(e, f)
    <3>1. Extends(e, t)
      BY ONLY <2>4, <2>5, ExtendsOn
    <3>2. QED BY ONLY <2>6, <3>1, ExtendsOn
  <2>11. QED BY ONLY <2>7, <2>9, <2>10, f \in Writers, Zenon
<1>3. QED BY ONLY <1>1, <1>2, Zenon

-----------------------------------------------------------------------------
(* What is meant, and the part of it that is read already.                  *)
OnlyOf(M, S) == [x \in S |-> M[x]]

KeptAs(M, S, x, y, T) ==
  \A B, e, h : Keep(In(B, e, y, h, OnlyOf(M, S)), x) = In(B, e, y, h, OnlyOf(M, T))

LEMMA KeptMore ==
  ASSUME NEW M, NEW S, NEW x, NEW y, y = M[x]
  PROVE  KeptAs(M, S, x, y, S \cup {x})
<1> SUFFICES ASSUME NEW B, NEW e, NEW h
             PROVE  Keep(In(B, e, y, h, OnlyOf(M, S)), x) = In(B, e, y, h, OnlyOf(M, S \cup {x}))
  BY Zenon DEF KeptAs
<1>1. PICK g : g = OnlyOf(M, S)
  OBVIOUS
<1>2. DOMAIN g = S /\ \A z \in S : g[z] = M[z]
  BY ONLY <1>1, Zenon DEF OnlyOf
<1>3. Put(g, x, y) = [z \in S \cup {x} |-> IF z = x THEN y ELSE g[z]]
  BY ONLY <1>2, Zenon DEF Put
<1>4. \A z \in S \cup {x} : (IF z = x THEN y ELSE g[z]) = M[z]
  BY ONLY <1>2, y = M[x], Zenon
<1>5. Put(g, x, y) = OnlyOf(M, S \cup {x})
  BY ONLY <1>3, <1>4, Zenon DEF OnlyOf
<1>6. PICK d : d = In(B, e, y, h, g)
  OBVIOUS
<1>7. d.msg = g /\ d.val = y
  BY ONLY <1>6, ReaderFields DEF In
<1>8. Keep(d, x) = [d EXCEPT !.msg = OnlyOf(M, S \cup {x})]
  BY ONLY <1>5, <1>7, Zenon DEF Keep
<1>9. [d EXCEPT !.msg = OnlyOf(M, S \cup {x})] = In(B, e, y, h, OnlyOf(M, S \cup {x}))
  BY ONLY <1>6, ReaderMoves DEF In
<1>10. QED BY ONLY <1>1, <1>6, <1>8, <1>9, Zenon

LEMMA MeantParts ==
  ASSUME NEW m, Complete(m)
  PROVE  /\ DOMAIN Meant(m) = DOMAIN m /\ OnlyOf(Meant(m), DOMAIN m) = Meant(m)
         /\ \A x \in DOMAIN m : x # "text" => Meant(m)[x] = m[x]
         /\ "text" \in DOMAIN m =>
              Meant(m)["text"] = IF DefaultAlphabet(m) THEN Spelled(m["text"]) ELSE m["text"]
<1>1. m = [x \in DOMAIN m |-> m[x]]
  BY Zenon DEF Complete
<1>2. PICK M : M = Meant(m)
  OBVIOUS
<1>3. CASE "text" \in DOMAIN m /\ DefaultAlphabet(m)
  <2>1. M = [m EXCEPT !["text"] = Spelled(m["text"])]
    BY ONLY <1>2, <1>3, Zenon DEF Meant
  <2>2. M = [x \in DOMAIN m |-> IF x = "text" THEN Spelled(m["text"]) ELSE m[x]]
    BY ONLY <1>1, <2>1, Zenon
  <2>3. DOMAIN M = DOMAIN m
    BY ONLY <2>2, Zenon
  <2>4. \A x \in DOMAIN m : M[x] = IF x = "text" THEN Spelled(m["text"]) ELSE m[x]
    BY ONLY <2>2, Zenon
  <2>5. [x \in DOMAIN m |-> M[x]] = M
    BY ONLY <2>2, <2>4, Zenon
  <2>6. \A x \in DOMAIN m : x # "text" => M[x] = m[x]
    BY ONLY <2>4, Zenon
  <2>7. M["text"] = Spelled(m["text"])
    BY ONLY <1>3, <2>4, Zenon
  <2>8. QED BY ONLY <1>2, <1>3, <2>3, <2>5, <2>6, <2>7, Zenon DEF OnlyOf
<1>4. CASE ~ ("text" \in DOMAIN m /\ DefaultAlphabet(m))
  <2>1. M = m
    BY ONLY <1>2, <1>4, Zenon DEF Meant
  <2>2. QED BY ONLY <1>1, <1>2, <1>4, <2>1, Zenon DEF OnlyOf
<1>5. QED BY ONLY <1>3, <1>4

(* The values that a complete message has.                                  *)
LEMMA ValuesTyped ==
  ASSUME NEW m, Complete(m)
  PROVE  /\ \A x \in {"more", "report", "reply", "reject", "qualifier"} \cap DOMAIN m : m[x] \in 0 .. 1
         /\ \A x \in {"pid", "dcs", "reference", "status", "command", "message"} \cap DOMAIN m : m[x] \in Octet
         /\ "format" \in DOMAIN m => m["format"] \in 0 .. 3
         /\ "address" \in DOMAIN m => m["address"] \in Dialled \cup Senders
         /\ \A x \in {"time", "discharge"} \cap DOMAIN m : m[x] \in Times
         /\ "validity" \in DOMAIN m => m["validity"] \in Periods
         /\ "data" \in DOMAIN m => m["data"] = <<>>
         /\ "header" \in DOMAIN m => m["header"] \in Counted(Octet) \ {<<>>}
         /\ "text" \in DOMAIN m => m["text"] \in Counted(Octet)
         /\ m["sca"] \in Centres /\ m["type"] \in DOMAIN Fields
<1>1. \A x \in DOMAIN m : m[x] \in FieldValues[x]
  BY Zenon DEF Complete
<1>2. /\ FieldValues["more"] = 0 .. 1 /\ FieldValues["report"] = 0 .. 1 /\ FieldValues["reply"] = 0 .. 1
      /\ FieldValues["reject"] = 0 .. 1 /\ FieldValues["qualifier"] = 0 .. 1
      /\ FieldValues["format"] = 0 .. 3 /\ FieldValues["address"] = Dialled \cup Senders
  BY ONLY Zenon DEF FieldValues
<1>3. /\ FieldValues["pid"] = Octet /\ FieldValues["dcs"] = Octet /\ FieldValues["reference"] = Octet
      /\ FieldValues["status"] = Octet /\ FieldValues["command"] = Octet /\ FieldValues["message"] = Octet
  BY ONLY Zenon DEF FieldValues
<1>4. /\ FieldValues["time"] = Times /\ FieldValues["discharge"] = Times
      /\ FieldValues["validity"] = Periods /\ FieldValues["data"] = {<<>>}
      /\ FieldValues["header"] = Counted(Octet) \ {<<>>} /\ FieldValues["text"] = Counted(Octet)
      /\ FieldValues["sca"] = Centres /\ FieldValues["type"] = DOMAIN Fields
  BY ONLY Zenon DEF FieldValues
<1>5. "sca" \in DOMAIN m /\ "type" \in DOMAIN m
  BY Zenon DEF Complete, AllFields
<1>6. \A x \in {"more", "report", "reply", "reject", "qualifier"} \cap DOMAIN m : m[x] \in 0 .. 1
  BY ONLY <1>1, <1>2
<1>7. \A x \in {"pid", "dcs", "reference", "status", "command", "message"} \cap DOMAIN m : m[x] \in Octet
  BY ONLY <1>1, <1>3
<1>8. \A x \in {"time", "discharge"} \cap DOMAIN m : m[x] \in Times
  BY ONLY <1>1, <1>4
<1>9. "data" \in DOMAIN m => m["data"] = <<>>
  BY ONLY <1>1, <1>4, Zenon
<1>10. m["sca"] \in Centres /\ m["type"] \in DOMAIN Fields
  BY ONLY <1>1, <1>4, <1>5, Zenon
<1>11. QED BY ONLY <1>1, <1>2, <1>4, <1>6, <1>7, <1>8, <1>9, <1>10, Zenon

-----------------------------------------------------------------------------
(* Texts and their headers.                                                 *)
LEMMA LengthBack ==
  ASSUME NEW L \in 0 .. 255, NEW H \in Nat
  PROVE  (L + H) % 256 \in 0 .. 255 /\ (((L + H) % 256) - H) % 256 = L
<1>1. PICK q \in Nat, r \in 0 .. 255 : L + H = 256 * q + r /\ r = (L + H) % 256
  <2>1. PICK s \in Nat : s = L + H
    OBVIOUS
  <2>2. s = 256 * (s \div 256) + (s % 256) /\ s % 256 \in 0 .. 255 /\ s \div 256 \in Nat
    BY ONLY s \in Nat
  <2>3. QED BY ONLY <2>1, <2>2, Zenon
<1>2. r - H = L - 256 * q
  BY ONLY <1>1, L \in 0 .. 255, H \in Nat, q \in Nat, r \in 0 .. 255
<1>3. (L - 256 * q) % 256 = L
  BY ONLY L \in 0 .. 255, q \in Nat
<1>4. QED BY ONLY <1>1, <1>2, <1>3, r \in 0 .. 255, Zenon

LEMMA HeaderIs ==
  ASSUME NEW m, Complete(m)
  PROVE  /\ Header(m) = <<>> <=> "header" \notin DOMAIN m
         /\ "header" \in DOMAIN m => Header(m) = m["header"] /\ Header(m) \in Counted(Octet)
         /\ HeaderLength(m) \in Nat
         /\ "text" \in DOMAIN m => UserDataLength(m) \in Octet
              /\ (UserDataLength(m) - HeaderLength(m)) % 256 = Len(m["text"])
<1>1. "header" \in DOMAIN m => m["header"] \in Counted(Octet) \ {<<>>}
  BY ValuesTyped
<1>2. Header(m) = <<>> <=> "header" \notin DOMAIN m
  BY ONLY <1>1, Zenon DEF Header
<1>3. "header" \in DOMAIN m => Header(m) = m["header"] /\ Header(m) \in Counted(Octet)
  BY ONLY <1>1, Zenon DEF Header
<1>4. HeaderLength(m) \in Nat
  <2>1. CASE Header(m) = <<>>
    BY ONLY <2>1 DEF HeaderLength
  <2>2. CASE Header(m) # <<>>
    <3>1. Header(m) \in Seq(Octet)
      BY ONLY <1>2, <1>3, <2>2, Zenon DEF Counted
    <3>2. PICK n \in Nat : n = Len(Header(m))
      BY <3>1, LenProperties
    <3>3. HeaderSeptets(Header(m)) = ((1 + n) * 8 + 6) \div 7
      BY ONLY <3>2, Zenon DEF HeaderSeptets
    <3>4. ((1 + n) * 8 + 6) \div 7 \in Nat /\ 1 + n \in Nat
      BY ONLY n \in Nat
    <3>5. QED BY ONLY <2>2, <3>2, <3>3, <3>4, Zenon DEF HeaderLength
  <2>3. QED BY ONLY <2>1, <2>2
<1>5. ASSUME "text" \in DOMAIN m
      PROVE  /\ UserDataLength(m) \in Octet
             /\ (UserDataLength(m) - HeaderLength(m)) % 256 = Len(m["text"])
  <2>1. m["text"] \in Counted(Octet)
    BY <1>5, ValuesTyped, Zenon
  <2>2. PICK L \in 0 .. 255 : L = Len(m["text"])
    BY ONLY <2>1, Zenon DEF Counted, Octet
  <2>3. PICK H \in Nat : H = HeaderLength(m)
    BY <1>4
  <2>4. UserDataLength(m) = (L + H) % 256
    BY ONLY <2>2, <2>3, Zenon DEF UserDataLength
  <2>5. (L + H) % 256 \in 0 .. 255 /\ (((L + H) % 256) - H) % 256 = L
    BY LengthBack
  <2>6. QED BY ONLY <2>2, <2>3, <2>4, <2>5, Zenon DEF Octet
<1>6. QED BY ONLY <1>2, <1>3, <1>4, <1>5, Zenon

(* What is read of a message tells as much of its text as all of it.         *)
LEMMA PartTells ==
  ASSUME NEW m, Complete(m), NEW S,
         "dcs" \in S <=> "dcs" \in DOMAIN m, "header" \in S <=> "header" \in DOMAIN m
  PROVE  /\ DefaultAlphabet(OnlyOf(Meant(m), S)) <=> DefaultAlphabet(m)
         /\ HeaderLength(OnlyOf(Meant(m), S)) = HeaderLength(m)
<1>1. PICK g : g = OnlyOf(Meant(m), S)
  OBVIOUS
<1>2. DOMAIN g = S /\ \A x \in S : g[x] = Meant(m)[x]
  BY ONLY <1>1, Zenon DEF OnlyOf
<1>3. /\ "dcs" \in DOMAIN m => Meant(m)["dcs"] = m["dcs"]
      /\ "header" \in DOMAIN m => Meant(m)["header"] = m["header"]
  BY MeantParts
<1>4. "dcs" \in DOMAIN g <=> "dcs" \in DOMAIN m
  BY <1>2, Zenon
<1>5. "dcs" \in DOMAIN m => g["dcs"] = m["dcs"]
  BY <1>2, <1>3, Zenon
<1>6. DefaultAlphabet(g) <=> DefaultAlphabet(m)
  BY ONLY <1>4, <1>5, Zenon DEF DefaultAlphabet
<1>7. Header(g) = Header(m)
  <2>1. "header" \in DOMAIN g <=> "header" \in DOMAIN m
    BY <1>2, Zenon
  <2>2. "header" \in DOMAIN m => g["header"] = m["header"]
    BY <1>2, <1>3, Zenon
  <2>3. QED BY ONLY <2>1, <2>2, Zenon DEF Header
<1>8. HeaderLength(g) = HeaderLength(m)
  BY ONLY <1>6, <1>7, Zenon DEF HeaderLength
<1>9. QED BY ONLY <1>1, <1>6, <1>8, Zenon

Headed(e, m) == IF Header(m) = <<>> THEN e ELSE SetHeader(e, Header(m))

HeadedIn(m, e, f, H, S, T) ==
  \A B \in Seq(Bit) : Begins(B, f.bits) => \A v : \E w :
    (IF "header" \in H THEN Keep(GetCounted(In(B, e, v, H, OnlyOf(Meant(m), S))), "header")
     ELSE In(B, e, v, H, OnlyOf(Meant(m), S)))
      = In(B, f, w, H, OnlyOf(Meant(m), T))

LEMMA HeaderRead ==
  ASSUME NEW m, Complete(m), NEW e \in Writers, NEW H, NEW S,
         "header" \in H <=> "header" \in DOMAIN m
  PROVE  \E f \in Writers : /\ f = Headed(e, m) /\ Extends(e, f)
                            /\ HeadedIn(m, e, f, H, S, S \cup ({"header"} \cap DOMAIN m))
<1>1. CASE "header" \in DOMAIN m
  <2>1. PICK header \in Counted(Octet) : header = Header(m) /\ header = m["header"] /\ header # <<>>
    BY <1>1, HeaderIs, Zenon
  <2>2. PICK f \in Writers : /\ f = SetOctets(SetOctets(e, <<Len(header)>>), header)
                             /\ Extends(e, f) /\ CountRead(e, f, header)
    BY CountedRead, Zenon
  <2>3. f = Headed(e, m)
    BY ONLY <2>1, <2>2, Zenon DEF Headed, SetHeader
  <2>4. Meant(m)["header"] = header
    BY <1>1, <2>1, MeantParts
  <2>5. S \cup ({"header"} \cap DOMAIN m) = S \cup {"header"}
    BY ONLY <1>1, Zenon
  <2>6. ASSUME NEW B \in Seq(Bit), Begins(B, f.bits), NEW v
        PROVE  Keep(GetCounted(In(B, e, v, H, OnlyOf(Meant(m), S))), "header")
                 = In(B, f, header, H, OnlyOf(Meant(m), S \cup ({"header"} \cap DOMAIN m)))
    <3>1. GetCounted(In(B, e, v, H, OnlyOf(Meant(m), S))) = In(B, f, header, H, OnlyOf(Meant(m), S))
      BY ONLY <2>2, <2>6, B \in Seq(Bit), Zenon DEF CountRead
    <3>2. Keep(In(B, f, header, H, OnlyOf(Meant(m), S)), "header")
            = In(B, f, header, H, OnlyOf(Meant(m), S \cup {"header"}))
      <4>1. KeptAs(Meant(m), S, "header", header, S \cup {"header"})
        BY ONLY <2>4, KeptMore, Zenon
      <4>2. QED BY ONLY <4>1, Zenon DEF KeptAs
    <3>3. QED BY ONLY <2>5, <3>1, <3>2, Zenon
  <2>7. "header" \in H
    BY <1>1
  <2>8. HeadedIn(m, e, f, H, S, S \cup ({"header"} \cap DOMAIN m))
    BY ONLY <2>6, <2>7, Zenon DEF HeadedIn
  <2>9. QED BY ONLY <2>2, <2>3, <2>8, f \in Writers, Zenon
<1>2. CASE "header" \notin DOMAIN m
  <2>1. Header(m) = <<>>
    BY <1>2, HeaderIs
  <2>2. Headed(e, m) = e
    BY ONLY <2>1, Zenon DEF Headed
  <2>3. S \cup ({"header"} \cap DOMAIN m) = S /\ "header" \notin H
    BY <1>2, Zenon
  <2>4. Extends(e, e)
    BY Zenon DEF Extends
  <2>5. HeadedIn(m, e, e, H, S, S \cup ({"header"} \cap DOMAIN m))
    BY ONLY <2>3, Zenon DEF HeadedIn
  <2>6. QED BY ONLY <2>2, <2>4, <2>5, e \in Writers, Zenon
<1>3. QED BY ONLY <1>1, <1>2

(* The writer of a text, and its reader behind the header.                  *)
Texted(e, m) ==
  IF DefaultAlphabet(m) THEN SetString(e, LatinCodes(m.text)) ELSE SetOctets(e, m.text)

TextedIn(m, e, f, H, S) ==
  \A B \in Seq(Bit) : Begins(B, f.bits) => \A v :
    TextOf(In(B, e, v, H, OnlyOf(Meant(m), S)), UserDataLength(m))
      = In(B, f, Meant(m)["text"], H, OnlyOf(Meant(m), S \cup {"text"}))
CharactersIn(m, e, f, H, g) ==
  \A B \in Seq(Bit) : Begins(B, f.bits) => \A v :
    (IF DefaultAlphabet(m) THEN GetString(In(B, e, v, H, g), Len(m["text"]))
     ELSE GetOctets(In(B, e, v, H, g), Len(m["text"])))
      = In(B, f, Meant(m)["text"], H, g)

LEMMA TextRead ==
  ASSUME NEW m, Complete(m), "text" \in DOMAIN m, NEW e \in Writers, NEW H, NEW S,
         "dcs" \in S <=> "dcs" \in DOMAIN m, "header" \in S <=> "header" \in DOMAIN m
  PROVE  \E f \in Writers : f = Texted(e, m) /\ Extends(e, f) /\ TextedIn(m, e, f, H, S)
<1>1. PICK g : g = OnlyOf(Meant(m), S)
  OBVIOUS
<1>2. (DefaultAlphabet(g) <=> DefaultAlphabet(m)) /\ HeaderLength(g) = HeaderLength(m)
  BY <1>1, PartTells, Zenon
<1>3. PICK text \in Seq(Octet) : text = m["text"]
  BY ValuesTyped, Zenon DEF Counted
<1>4. (UserDataLength(m) - HeaderLength(g)) % 256 = Len(text)
  BY <1>2, <1>3, HeaderIs, Zenon
<1>5. Meant(m)["text"] = IF DefaultAlphabet(m) THEN Spelled(text) ELSE text
  BY <1>3, MeantParts, Zenon
<1>6. \E f \in Writers : f = Texted(e, m) /\ Extends(e, f) /\ CharactersIn(m, e, f, H, g)
  <2>1. CASE DefaultAlphabet(m)
    <3>1. PICK f \in Writers : f = SetString(e, LatinCodes(text)) /\ Extends(e, f) /\ StringIn(e, f, text)
      BY StringRead, Zenon
    <3>2. f = Texted(e, m) /\ Meant(m)["text"] = Spelled(text)
      BY ONLY <1>3, <1>5, <2>1, <3>1, Zenon DEF Texted
    <3>3. CharactersIn(m, e, f, H, g)
      BY ONLY <1>3, <2>1, <3>1, <3>2, Zenon DEF CharactersIn, StringIn
    <3>4. QED BY ONLY <3>1, <3>2, <3>3, f \in Writers, Zenon
  <2>2. CASE ~ DefaultAlphabet(m)
    <3>1. PICK f \in Writers : f = SetOctets(e, text) /\ Extends(e, f) /\ OctetsIn(e, f, text)
      BY OctetsRead, Zenon
    <3>2. f = Texted(e, m) /\ Meant(m)["text"] = text
      BY ONLY <1>3, <1>5, <2>2, <3>1, Zenon DEF Texted
    <3>3. CharactersIn(m, e, f, H, g)
      BY ONLY <1>3, <2>2, <3>1, <3>2, Zenon DEF CharactersIn, OctetsIn
    <3>4. QED BY ONLY <3>1, <3>2, <3>3, f \in Writers, Zenon
  <2>3. QED BY ONLY <2>1, <2>2
<1>7. PICK f \in Writers : f = Texted(e, m) /\ Extends(e, f) /\ CharactersIn(m, e, f, H, g)
  BY ONLY <1>6, Zenon
<1>8. ASSUME NEW B \in Seq(Bit), Begins(B, f.bits), NEW v
      PROVE  TextOf(In(B, e, v, H, g), UserDataLength(m))
               = In(B, f, Meant(m)["text"], H, OnlyOf(Meant(m), S \cup {"text"}))
  <2>1. PICK d : d = In(B, e, v, H, g)
    OBVIOUS
  <2>2. d.ok /\ d.msg = g
    BY ONLY <2>1, ReaderFields DEF In
  <2>3. (IF DefaultAlphabet(m) THEN GetString(d, Len(text)) ELSE GetOctets(d, Len(text)))
          = In(B, f, Meant(m)["text"], H, g)
    BY ONLY <1>3, <1>7, <1>8, <2>1, B \in Seq(Bit), Zenon DEF CharactersIn
  <2>4. TextOf(d, UserDataLength(m))
          = Keep(IF DefaultAlphabet(m) THEN GetString(d, Len(text)) ELSE GetOctets(d, Len(text)), "text")
    BY ONLY <1>2, <1>4, <2>2, Zenon DEF TextOf
  <2>5. Keep(In(B, f, Meant(m)["text"], H, OnlyOf(Meant(m), S)), "text")
          = In(B, f, Meant(m)["text"], H, OnlyOf(Meant(m), S \cup {"text"}))
    <3>1. KeptAs(Meant(m), S, "text", Meant(m)["text"], S \cup {"text"})
      BY ONLY KeptMore, Zenon
    <3>2. QED BY ONLY <3>1, Zenon DEF KeptAs
  <2>6. QED BY ONLY <1>1, <2>1, <2>3, <2>4, <2>5, Zenon
<1>9. TextedIn(m, e, f, H, S)
  BY ONLY <1>1, <1>8, Zenon DEF TextedIn
<1>10. QED BY ONLY <1>7, <1>9, f \in Writers, Zenon

DataIn(m, e, f, H, S, T) ==
  \A B \in Seq(Bit) : Begins(B, f.bits) => \A v :
    GetUserData(In(B, e, v, H, OnlyOf(Meant(m), S))) = In(B, f, Meant(m)["text"], H, OnlyOf(Meant(m), T))

LEMMA UserDataRead ==
  ASSUME NEW m, Complete(m), "text" \in DOMAIN m, NEW e \in Writers, NEW H, NEW S,
         "header" \in H <=> "header" \in DOMAIN m,
         "dcs" \in S <=> "dcs" \in DOMAIN m, "header" \notin S
  PROVE  \E f \in Writers :
           /\ f = SetUserData(e, m) /\ Extends(e, f)
           /\ DataIn(m, e, f, H, S, (S \cup ({"header"} \cap DOMAIN m)) \cup {"text"})
<1>1. PICK T : T = S \cup ({"header"} \cap DOMAIN m)
  OBVIOUS
<1>2. ("dcs" \in T <=> "dcs" \in DOMAIN m) /\ ("header" \in T <=> "header" \in DOMAIN m)
  <2>1. "dcs" # "header"
    OBVIOUS
  <2>2. QED BY <1>1, <2>1, Zenon
<1>3. PICK n \in Octet : n = UserDataLength(m)
  BY HeaderIs, Zenon
<1>4. PICK o \in Writers : o = SetOctets(e, <<n>>) /\ Extends(e, o) /\ OctetIn(e, o, n)
  BY OctetRead, Zenon
<1>6. PICK k \in Writers : k = MarkSeptet(o) /\ Extends(o, k) /\ MarkedIn(o, k)
  BY SeptetMarked, Zenon
<1>7. PICK j \in Writers : j = Headed(k, m) /\ Extends(k, j) /\ HeadedIn(m, k, j, H, S, T)
  <2>1. \E j \in Writers : /\ j = Headed(k, m) /\ Extends(k, j)
                            /\ HeadedIn(m, k, j, H, S, S \cup ({"header"} \cap DOMAIN m))
    BY HeaderRead, Zenon
  <2>2. QED BY ONLY <1>1, <2>1, Zenon
<1>8. PICK f \in Writers : f = Texted(j, m) /\ Extends(j, f) /\ TextedIn(m, j, f, H, T)
  BY <1>2, TextRead, Zenon
<1>9. f = SetUserData(e, m)
  BY ONLY <1>3, <1>4, <1>6, <1>7, <1>8, Zenon DEF SetUserData, Headed, Texted
<1>10. ASSUME NEW B \in Seq(Bit), Begins(B, f.bits), NEW v
       PROVE  GetUserData(In(B, e, v, H, OnlyOf(Meant(m), S)))
                = In(B, f, Meant(m)["text"], H, OnlyOf(Meant(m), T \cup {"text"}))
  <2>1. Begins(B, j.bits)
    BY ONLY <1>8, <1>10, B \in Seq(Bit), Zenon DEF Extends
  <2>2. Begins(B, k.bits)
    BY ONLY <1>7, <2>1, B \in Seq(Bit), Zenon DEF Extends
  <2>3. Begins(B, o.bits)
    BY ONLY <1>6, <2>2, B \in Seq(Bit), Zenon DEF Extends
  <2>4. PICK d : d = In(B, o, n, H, OnlyOf(Meant(m), S))
    OBVIOUS
  <2>5. GetOctet(In(B, e, v, H, OnlyOf(Meant(m), S))) = d
    BY ONLY <1>4, <2>3, <2>4, B \in Seq(Bit), Zenon DEF OctetIn
  <2>6. d.val = n /\ d.has = H
    BY ONLY <2>4, ReaderFields DEF In
  <2>7. Marked(d) = In(B, k, n, H, OnlyOf(Meant(m), S))
    BY ONLY <1>6, <2>4, Zenon DEF MarkedIn
  <2>8. PICK w : (IF "header" \in H THEN Keep(GetCounted(Marked(d)), "header") ELSE Marked(d))
                   = In(B, j, w, H, OnlyOf(Meant(m), T))
    BY ONLY <1>7, <2>1, <2>7, B \in Seq(Bit), Zenon DEF HeadedIn
  <2>9. FromLength(d) = TextOf(In(B, j, w, H, OnlyOf(Meant(m), T)), n)
    BY ONLY <2>6, <2>8, Zenon DEF FromLength
  <2>10. TextOf(In(B, j, w, H, OnlyOf(Meant(m), T)), n)
           = In(B, f, Meant(m)["text"], H, OnlyOf(Meant(m), T \cup {"text"}))
    BY ONLY <1>3, <1>8, <1>10, B \in Seq(Bit), Zenon DEF TextedIn
  <2>11. QED BY ONLY <2>5, <2>9, <2>10, Zenon DEF GetUserData
<1>11. Extends(e, f)
  <2>1. Extends(e, k)
    BY ONLY <1>4, <1>6, ExtendsOn
  <2>2. Extends(e, j)
    BY ONLY <1>7, <2>1, ExtendsOn
  <2>3. QED BY ONLY <1>8, <2>2, ExtendsOn
<1>12. DataIn(m, e, f, H, S, T \cup {"text"})
  BY ONLY <1>10, Zenon DEF DataIn
<1>13. QED BY ONLY <1>1, <1>9, <1>11, <1>12, f \in Writers, Zenon

-----------------------------------------------------------------------------
(* Fields.                                                                  *)
LEMMA EncodedAlign ==
  ASSUME NEW e, NEW m, NEW x
  PROVE  Encoded(e, <<"align", x>>, m) = AlignOctet(e)
<1>1. <<"align", x>>[1] = "align" /\ <<"align", x>>[2] = x
  OBVIOUS
<1>2. QED BY ONLY <1>1 DEF Encoded

LEMMA DecodedAlign ==
  ASSUME NEW d, d.ok, NEW x
  PROVE  Decoded(d, <<"align", x>>) = ToOctet(d)
<1>1. d.ok /\ <<"align", x>>[1] = "align" /\ <<"align", x>>[2] = x
  OBVIOUS
<1>2. QED BY ONLY <1>1 DEF Decoded

LEMMA EncodedSpare ==
  ASSUME NEW e, NEW m, NEW x
  PROVE  Encoded(e, <<"spare", x>>, m) = SetBits(e, <<0>>)
<1>1. <<"spare", x>>[1] = "spare" /\ <<"spare", x>>[2] = x
  OBVIOUS
<1>2. QED BY ONLY <1>1 DEF Encoded

LEMMA DecodedSpare ==
  ASSUME NEW d, d.ok, NEW x
  PROVE  Decoded(d, <<"spare", x>>) = GetBits(d, 1)
<1>1. d.ok /\ <<"spare", x>>[1] = "spare" /\ <<"spare", x>>[2] = x
  OBVIOUS
<1>2. QED BY ONLY <1>1 DEF Decoded

LEMMA EncodedBit ==
  ASSUME NEW e, NEW m, NEW x
  PROVE  Encoded(e, <<"bit", x>>, m) = SetBits(e, Bits(m[x], 1))
<1>1. <<"bit", x>>[1] = "bit" /\ <<"bit", x>>[2] = x
  OBVIOUS
<1>2. QED BY ONLY <1>1 DEF Encoded

LEMMA DecodedBit ==
  ASSUME NEW d, d.ok, NEW x
  PROVE  Decoded(d, <<"bit", x>>) = Keep(GetBits(d, 1), x)
<1>1. d.ok /\ <<"bit", x>>[1] = "bit" /\ <<"bit", x>>[2] = x
  OBVIOUS
<1>2. QED BY ONLY <1>1 DEF Decoded

LEMMA EncodedTwoBits ==
  ASSUME NEW e, NEW m, NEW x
  PROVE  Encoded(e, <<"2 bits", x>>, m) = SetBits(e, Bits(m[x], 2))
<1>1. <<"2 bits", x>>[1] = "2 bits" /\ <<"2 bits", x>>[2] = x
  OBVIOUS
<1>2. QED BY ONLY <1>1 DEF Encoded

LEMMA DecodedTwoBits ==
  ASSUME NEW d, d.ok, NEW x
  PROVE  Decoded(d, <<"2 bits", x>>) = Keep(GetBits(d, 2), x)
<1>1. d.ok /\ <<"2 bits", x>>[1] = "2 bits" /\ <<"2 bits", x>>[2] = x
  OBVIOUS
<1>2. QED BY ONLY <1>1 DEF Decoded

LEMMA EncodedHas ==
  ASSUME NEW e, NEW m, NEW x
  PROVE  Encoded(e, <<"has", x>>, m) = SetBits(e, <<IF x \in DOMAIN m THEN 1 ELSE 0>>)
<1>1. <<"has", x>>[1] = "has" /\ <<"has", x>>[2] = x
  OBVIOUS
<1>2. QED BY ONLY <1>1 DEF Encoded

LEMMA DecodedHas ==
  ASSUME NEW d, d.ok, NEW x
  PROVE  Decoded(d, <<"has", x>>) = Announces(GetBits(d, 1), x)
<1>1. d.ok /\ <<"has", x>>[1] = "has" /\ <<"has", x>>[2] = x
  OBVIOUS
<1>2. QED BY ONLY <1>1 DEF Decoded

LEMMA EncodedOctet ==
  ASSUME NEW e, NEW m, NEW x
  PROVE  Encoded(e, <<"octet", x>>, m) = SetOctets(e, <<m[x]>>)
<1>1. <<"octet", x>>[1] = "octet" /\ <<"octet", x>>[2] = x
  OBVIOUS
<1>2. QED BY ONLY <1>1 DEF Encoded

LEMMA DecodedOctet ==
  ASSUME NEW d, d.ok, NEW x
  PROVE  Decoded(d, <<"octet", x>>) = Keep(GetOctet(d), x)
<1>1. d.ok /\ <<"octet", x>>[1] = "octet" /\ <<"octet", x>>[2] = x
  OBVIOUS
<1>2. QED BY ONLY <1>1 DEF Decoded

LEMMA EncodedOctetIf ==
  ASSUME NEW e, NEW m, NEW x
  PROVE  /\ x \in DOMAIN m => Encoded(e, <<"octet if", x>>, m) = Encoded(e, <<"octet", x>>, m)
         /\ x \notin DOMAIN m => Encoded(e, <<"octet if", x>>, m) = e
<1>1. /\ <<"octet if", x>>[1] = "octet if" /\ <<"octet if", x>>[2] = x
      /\ <<"octet", x>>[1] = "octet" /\ <<"octet", x>>[2] = x
  OBVIOUS
<1>2. CASE x \in DOMAIN m
  BY ONLY <1>1, <1>2 DEF Encoded
<1>3. CASE x \notin DOMAIN m
  BY ONLY <1>1, <1>3 DEF Encoded
<1>4. QED BY ONLY <1>2, <1>3, Zenon

LEMMA DecodedOctetIf ==
  ASSUME NEW d, d.ok, NEW x
  PROVE  /\ x \in d.has => Decoded(d, <<"octet if", x>>) = Decoded(d, <<"octet", x>>)
         /\ x \notin d.has => Decoded(d, <<"octet if", x>>) = d
<1>1. /\ <<"octet if", x>>[1] = "octet if" /\ <<"octet if", x>>[2] = x
      /\ <<"octet", x>>[1] = "octet" /\ <<"octet", x>>[2] = x /\ d.ok
  OBVIOUS
<1>2. CASE x \in d.has
  BY ONLY <1>1, <1>2 DEF Decoded
<1>3. CASE x \notin d.has
  BY ONLY <1>1, <1>3 DEF Decoded
<1>4. QED BY ONLY <1>2, <1>3, Zenon

(* The library writes the length of every address but a name as the network  *)
(* does.                                                                    *)
LEMMA DialledAlike ==
  ASSUME NEW e, NEW a, NEW sca, sca \/ a.type # Alphanumeric
  PROVE  SetAddress(e, a, sca) = NetworkAddress(e, a, sca)
<1>1. AddressLength(a, sca) = NetworkLength(a, sca)
  <2>1. CASE sca
    BY ONLY <2>1 DEF AddressLength, NetworkLength
  <2>2. CASE ~ sca
    BY ONLY <2>2, sca \/ a.type # Alphanumeric DEF AddressLength, NetworkLength
  <2>3. QED BY ONLY <2>1, <2>2
<1>2. QED BY ONLY <1>1, Zenon DEF SetAddress, NetworkAddress

LEMMA EncodedAddress ==
  ASSUME NEW e, NEW m, NEW x
  PROVE  Encoded(e, <<"address", x>>, m) = SetAddress(e, m[x], FALSE)
<1>1. <<"address", x>>[1] = "address" /\ <<"address", x>>[2] = x
  OBVIOUS
<1>2. QED BY ONLY <1>1 DEF Encoded

LEMMA EncodedSender ==
  ASSUME NEW e, NEW m, NEW x
  PROVE  Encoded(e, <<"sender", x>>, m) = NetworkAddress(e, m[x], FALSE)
<1>1. <<"sender", x>>[1] = "sender" /\ <<"sender", x>>[2] = x
  OBVIOUS
<1>2. QED BY ONLY <1>1 DEF Encoded

LEMMA DecodedAddress ==
  ASSUME NEW d, d.ok, NEW x
  PROVE  Decoded(d, <<"address", x>>) = Keep(GetAddress(d, FALSE), x)
<1>1. d.ok /\ <<"address", x>>[1] = "address" /\ <<"address", x>>[2] = x
  OBVIOUS
<1>2. QED BY ONLY <1>1 DEF Decoded

LEMMA EncodedTime ==
  ASSUME NEW e, NEW m, NEW x
  PROVE  Encoded(e, <<"time", x>>, m) = SetTimestamp(e, m[x])
<1>1. <<"time", x>>[1] = "time" /\ <<"time", x>>[2] = x
  OBVIOUS
<1>2. QED BY ONLY <1>1 DEF Encoded

LEMMA DecodedTime ==
  ASSUME NEW d, d.ok, NEW x
  PROVE  Decoded(d, <<"time", x>>) = Keep(GetTimestamp(d), x)
<1>1. d.ok /\ <<"time", x>>[1] = "time" /\ <<"time", x>>[2] = x
  OBVIOUS
<1>2. QED BY ONLY <1>1 DEF Decoded

LEMMA EncodedPeriod ==
  ASSUME NEW e, NEW m, NEW x
  PROVE  Encoded(e, <<"period", x>>, m) = SetTimePeriod(e, m[x])
<1>1. <<"period", x>>[1] = "period" /\ <<"period", x>>[2] = x
  OBVIOUS
<1>2. QED BY ONLY <1>1 DEF Encoded

LEMMA DecodedPeriod ==
  ASSUME NEW d, d.ok, NEW x
  PROVE  Decoded(d, <<"period", x>>) = Keep(GetTimePeriod(d, d.msg.format), x)
<1>1. d.ok /\ <<"period", x>>[1] = "period" /\ <<"period", x>>[2] = x
  OBVIOUS
<1>2. QED BY ONLY <1>1 DEF Decoded

LEMMA EncodedOctets ==
  ASSUME NEW e, NEW m, NEW x
  PROVE  Encoded(e, <<"octets", x>>, m) = SetOctets(SetOctets(e, <<Len(m[x])>>), m[x])
<1>1. <<"octets", x>>[1] = "octets" /\ <<"octets", x>>[2] = x
  OBVIOUS
<1>2. QED BY ONLY <1>1 DEF Encoded

LEMMA DecodedDropped ==
  ASSUME NEW d, d.ok, NEW x
  PROVE  Decoded(d, <<"dropped", x>>) = Keep([GetCounted(d) EXCEPT !.val = <<>>], x)
<1>1. d.ok /\ <<"dropped", x>>[1] = "dropped" /\ <<"dropped", x>>[2] = x
  OBVIOUS
<1>2. QED BY ONLY <1>1 DEF Decoded

LEMMA EncodedData ==
  ASSUME NEW e, NEW m, NEW x
  PROVE  Encoded(e, <<"data", x>>, m) = SetUserData(e, m)
<1>1. <<"data", x>>[1] = "data" /\ <<"data", x>>[2] = x
  OBVIOUS
<1>2. QED BY ONLY <1>1 DEF Encoded

LEMMA DecodedData ==
  ASSUME NEW d, d.ok, NEW x
  PROVE  Decoded(d, <<"data", x>>) = GetUserData(d)
<1>1. d.ok /\ <<"data", x>>[1] = "data" /\ <<"data", x>>[2] = x
  OBVIOUS
<1>2. QED BY ONLY <1>1 DEF Decoded

LEMMA EncodedDataIf ==
  ASSUME NEW e, NEW m, NEW x
  PROVE  /\ x \in DOMAIN m => Encoded(e, <<"data if", x>>, m) = Encoded(e, <<"data", x>>, m)
         /\ x \notin DOMAIN m => Encoded(e, <<"data if", x>>, m) = e
<1>1. /\ <<"data if", x>>[1] = "data if" /\ <<"data if", x>>[2] = x
      /\ <<"data", x>>[1] = "data" /\ <<"data", x>>[2] = x
  OBVIOUS
<1>2. CASE x \in DOMAIN m
  BY ONLY <1>1, <1>2 DEF Encoded
<1>3. CASE x \notin DOMAIN m
  BY ONLY <1>1, <1>3 DEF Encoded
<1>4. QED BY ONLY <1>2, <1>3, Zenon

LEMMA DecodedDataIf ==
  ASSUME NEW d, d.ok, NEW x
  PROVE  /\ x \in d.has => Decoded(d, <<"data if", x>>) = Decoded(d, <<"data", x>>)
         /\ x \notin d.has => Decoded(d, <<"data if", x>>) = d
<1>1. /\ <<"data if", x>>[1] = "data if" /\ <<"data if", x>>[2] = x
      /\ <<"data", x>>[1] = "data" /\ <<"data", x>>[2] = x /\ d.ok
  OBVIOUS
<1>2. CASE x \in d.has
  BY ONLY <1>1, <1>2 DEF Decoded
<1>3. CASE x \notin d.has
  BY ONLY <1>1, <1>3 DEF Decoded
<1>4. QED BY ONLY <1>2, <1>3, Zenon

(* A field that is written as w and read as r, where the fields H were       *)
(* announced before and H2 after, and S were read before and S2 after.       *)
ReadOn(m, e, f, r, H, S, H2, S2) ==
  \A B \in Seq(Bit) : Begins(B, f.bits) => \A v : \E x :
    Decoded(In(B, e, v, H, OnlyOf(Meant(m), S)), r) = In(B, f, x, H2, OnlyOf(Meant(m), S2))
Carried(m, w, r, H, S, H2, S2) ==
  \A e \in Writers : \E f \in Writers :
    f = Encoded(e, w, m) /\ Extends(e, f) /\ ReadOn(m, e, f, r, H, S, H2, S2)

LEMMA ReaderOk ==
  ASSUME NEW B, NEW e, NEW v, NEW h, NEW g
  PROVE  In(B, e, v, h, g).ok /\ In(B, e, v, h, g).has = h /\ In(B, e, v, h, g).msg = g
         /\ In(B, e, v, h, g).val = v
BY ONLY ReaderFields DEF In

LEMMA OneBit ==
  ASSUME NEW b \in Bit
  PROVE  <<b>> = Bits(b, 1)
<1>1. BitOf(b, 1) = b
  <2>1. Weights[1] = 1
    BY DEF Weights
  <2>2. (b \div 1) % 2 = b
    BY DEF Bit
  <2>3. QED BY ONLY <2>1, <2>2, Zenon DEF BitOf
<1>2. \A k \in 1 .. 1 : k = 1
  OBVIOUS
<1>3. Bits(b, 1) = [k \in 1 .. 1 |-> b]
  BY ONLY <1>1, <1>2, Zenon DEF Bits
<1>4. QED BY ONLY <1>3

LEMMA AlignCarried ==
  ASSUME NEW m, NEW x, NEW H, NEW S
  PROVE  Carried(m, <<"align", x>>, <<"align", x>>, H, S, H, S)
<1>1. ASSUME NEW e \in Writers
      PROVE  \E f \in Writers : /\ f = Encoded(e, <<"align", x>>, m) /\ Extends(e, f)
                                /\ ReadOn(m, e, f, <<"align", x>>, H, S, H, S)
  <2>1. PICK f \in Writers : f = AlignOctet(e) /\ Extends(e, f)
    BY OctetAligned, Zenon
  <2>2. f = Encoded(e, <<"align", x>>, m)
    BY ONLY <2>1, EncodedAlign, Zenon
  <2>3. ASSUME NEW B, NEW v
        PROVE  Decoded(In(B, e, v, H, OnlyOf(Meant(m), S)), <<"align", x>>)
                 = In(B, f, v, H, OnlyOf(Meant(m), S))
    <3>1. PICK d : d = In(B, e, v, H, OnlyOf(Meant(m), S))
      OBVIOUS
    <3>2. d.ok
      BY ONLY <3>1, ReaderOk
    <3>3. Decoded(d, <<"align", x>>) = ToOctet(d)
      BY ONLY <3>2, DecodedAlign, Zenon
    <3>4. ToOctet(d) = In(B, f, v, H, OnlyOf(Meant(m), S))
      BY ONLY <2>1, <3>1, e \in Writers, ToOctetRead
    <3>5. QED BY ONLY <3>1, <3>3, <3>4, Zenon
  <2>4. ReadOn(m, e, f, <<"align", x>>, H, S, H, S)
    BY ONLY <2>3, Zenon DEF ReadOn
  <2>5. QED BY ONLY <2>1, <2>2, <2>4, f \in Writers, Zenon
<1>2. QED BY ONLY <1>1, Zenon DEF Carried

LEMMA SpareCarried ==
  ASSUME NEW m, NEW x, NEW H, NEW S
  PROVE  Carried(m, <<"spare", x>>, <<"spare", x>>, H, S, H, S)
<1>1. ASSUME NEW e \in Writers
      PROVE  \E f \in Writers : /\ f = Encoded(e, <<"spare", x>>, m) /\ Extends(e, f)
                                /\ ReadOn(m, e, f, <<"spare", x>>, H, S, H, S)
  <2>1. 1 \in Sizes /\ Fits(0, 1) /\ <<0>> = Bits(0, 1)
    BY OneBit DEF Sizes, Fits, Weights, Bit
  <2>2. PICK f \in Writers : f = SetBits(e, Bits(0, 1)) /\ Extends(e, f) /\ NumberIn(e, f, 1, 0)
    BY <2>1, NumberWritten, Zenon
  <2>3. f = Encoded(e, <<"spare", x>>, m)
    BY ONLY <2>1, <2>2, EncodedSpare, Zenon
  <2>4. ASSUME NEW B \in Seq(Bit), Begins(B, f.bits), NEW v
        PROVE  Decoded(In(B, e, v, H, OnlyOf(Meant(m), S)), <<"spare", x>>)
                 = In(B, f, 0, H, OnlyOf(Meant(m), S))
    <3>1. PICK d : d = In(B, e, v, H, OnlyOf(Meant(m), S))
      OBVIOUS
    <3>2. d.ok
      BY ONLY <3>1, ReaderOk
    <3>3. Decoded(d, <<"spare", x>>) = GetBits(d, 1)
      BY ONLY <3>2, DecodedSpare, Zenon
    <3>4. GetBits(d, 1) = In(B, f, 0, H, OnlyOf(Meant(m), S))
      BY ONLY <2>2, <2>4, <3>1, B \in Seq(Bit), Zenon DEF NumberIn
    <3>5. QED BY ONLY <3>1, <3>3, <3>4, Zenon
  <2>5. ReadOn(m, e, f, <<"spare", x>>, H, S, H, S)
    BY ONLY <2>4, Zenon DEF ReadOn
  <2>6. QED BY ONLY <2>2, <2>3, <2>5, f \in Writers, Zenon
<1>2. QED BY ONLY <1>1, Zenon DEF Carried

LEMMA HasCarried ==
  ASSUME NEW m, NEW x, NEW H, NEW S
  PROVE  Carried(m, <<"has", x>>, <<"has", x>>, H, S, H \cup ({x} \cap DOMAIN m), S)
<1>1. ASSUME NEW e \in Writers
      PROVE  \E f \in Writers :
               /\ f = Encoded(e, <<"has", x>>, m) /\ Extends(e, f)
               /\ ReadOn(m, e, f, <<"has", x>>, H, S, H \cup ({x} \cap DOMAIN m), S)
  <2>1. PICK b \in Bit : b = (IF x \in DOMAIN m THEN 1 ELSE 0)
    <3>1. 1 \in Bit /\ 0 \in Bit
      BY DEF Bit
    <3>2. QED BY ONLY <3>1, Zenon
  <2>2. 1 \in Sizes /\ Fits(b, 1) /\ <<b>> = Bits(b, 1)
    BY OneBit DEF Sizes, Fits, Weights, Bit
  <2>3. PICK f \in Writers : f = SetBits(e, Bits(b, 1)) /\ Extends(e, f) /\ NumberIn(e, f, 1, b)
    BY <2>2, NumberWritten, Zenon
  <2>4. f = Encoded(e, <<"has", x>>, m)
    BY ONLY <2>1, <2>2, <2>3, EncodedHas, Zenon
  <2>5. PICK K : K = H \cup ({x} \cap DOMAIN m)
    OBVIOUS
  <2>6. (IF b = 1 THEN H \cup {x} ELSE H) = K
    <3>1. 0 # 1
      OBVIOUS
    <3>2. QED BY ONLY <2>1, <2>5, <3>1, Zenon
  <2>7. ASSUME NEW B \in Seq(Bit), Begins(B, f.bits), NEW v
        PROVE  Decoded(In(B, e, v, H, OnlyOf(Meant(m), S)), <<"has", x>>)
                 = In(B, f, b, K, OnlyOf(Meant(m), S))
    <3>1. PICK d : d = In(B, e, v, H, OnlyOf(Meant(m), S))
      OBVIOUS
    <3>2. d.ok
      BY ONLY <3>1, ReaderOk
    <3>3. Decoded(d, <<"has", x>>) = Announces(GetBits(d, 1), x)
      BY ONLY <3>2, DecodedHas, Zenon
    <3>4. PICK k : k = GetBits(d, 1) /\ k = In(B, f, b, H, OnlyOf(Meant(m), S))
      BY ONLY <2>3, <2>7, <3>1, B \in Seq(Bit), Zenon DEF NumberIn
    <3>5. k.has = H /\ k.val = b
      BY ONLY <3>4, ReaderOk
    <3>6. Announces(k, x) = [k EXCEPT !.has = K]
      BY ONLY <2>6, <3>5, Zenon DEF Announces
    <3>7. [k EXCEPT !.has = K] = In(B, f, b, K, OnlyOf(Meant(m), S))
      BY ONLY <3>4, ReaderMoves DEF In
    <3>8. QED BY ONLY <3>1, <3>3, <3>4, <3>6, <3>7, Zenon
  <2>8. ReadOn(m, e, f, <<"has", x>>, H, S, K, S)
    BY ONLY <2>7, Zenon DEF ReadOn
  <2>9. QED BY ONLY <2>3, <2>4, <2>5, <2>8, f \in Writers, Zenon
<1>2. QED BY ONLY <1>1, Zenon DEF Carried

LEMMA KeepsOn ==
  ASSUME NEW m, Complete(m), NEW x \in DOMAIN m, x # "text", NEW e, NEW f, NEW r, NEW H, NEW S,
         \A B \in Seq(Bit) : Begins(B, f.bits) => \A v :
           Decoded(In(B, e, v, H, OnlyOf(Meant(m), S)), r) = Keep(In(B, f, m[x], H, OnlyOf(Meant(m), S)), x)
  PROVE  ReadOn(m, e, f, r, H, S, H, S \cup {x})
<1>1. Meant(m)[x] = m[x]
  BY MeantParts, Zenon
<1>2. KeptAs(Meant(m), S, x, m[x], S \cup {x})
  BY ONLY <1>1, KeptMore, Zenon
<1>3. \A B : Keep(In(B, f, m[x], H, OnlyOf(Meant(m), S)), x) = In(B, f, m[x], H, OnlyOf(Meant(m), S \cup {x}))
  BY ONLY <1>2, Zenon DEF KeptAs
<1>4. ASSUME NEW B \in Seq(Bit), Begins(B, f.bits), NEW v
      PROVE  Decoded(In(B, e, v, H, OnlyOf(Meant(m), S)), r)
               = In(B, f, m[x], H, OnlyOf(Meant(m), S \cup {x}))
  <2>1. Decoded(In(B, e, v, H, OnlyOf(Meant(m), S)), r) = Keep(In(B, f, m[x], H, OnlyOf(Meant(m), S)), x)
    BY <1>4, Zenon
  <2>2. QED BY ONLY <1>3, <2>1, Zenon
<1>5. QED BY ONLY <1>4, Zenon DEF ReadOn

LEMMA BitCarried ==
  ASSUME NEW m, Complete(m), NEW x, x \in {"more", "report", "reply", "reject", "qualifier"} \cap DOMAIN m, NEW H, NEW S
  PROVE  Carried(m, <<"bit", x>>, <<"bit", x>>, H, S, H, S \cup {x})
<1>0. x \in DOMAIN m /\ x # "text"
  OBVIOUS
<1>1. 1 \in Sizes /\ Fits(m[x], 1)
  BY ValuesTyped DEF Sizes, Fits, Weights
<1>2. ASSUME NEW e \in Writers
      PROVE  \E f \in Writers : /\ f = Encoded(e, <<"bit", x>>, m) /\ Extends(e, f)
                                /\ ReadOn(m, e, f, <<"bit", x>>, H, S, H, S \cup {x})
  <2>1. PICK f \in Writers : f = SetBits(e, Bits(m[x], 1)) /\ Extends(e, f) /\ NumberIn(e, f, 1, m[x])
    BY <1>1, NumberWritten, Zenon
  <2>3. f = Encoded(e, <<"bit", x>>, m)
    BY ONLY <2>1, EncodedBit, Zenon
  <2>4. ASSUME NEW B \in Seq(Bit), Begins(B, f.bits), NEW v
        PROVE  Decoded(In(B, e, v, H, OnlyOf(Meant(m), S)), <<"bit", x>>)
                 = Keep(In(B, f, m[x], H, OnlyOf(Meant(m), S)), x)
    <3>1. PICK d : d = In(B, e, v, H, OnlyOf(Meant(m), S))
      OBVIOUS
    <3>2. d.ok
      BY ONLY <3>1, ReaderOk
    <3>3. Decoded(d, <<"bit", x>>) = Keep(GetBits(d, 1), x)
      BY ONLY <3>2, DecodedBit, Zenon
    <3>4. GetBits(d, 1) = In(B, f, m[x], H, OnlyOf(Meant(m), S))
      BY ONLY <2>1, <2>4, <3>1, B \in Seq(Bit), Zenon DEF NumberIn
    <3>5. QED BY ONLY <3>1, <3>3, <3>4, Zenon
  <2>5. ReadOn(m, e, f, <<"bit", x>>, H, S, H, S \cup {x})
    BY <1>0, <2>4, KeepsOn, Zenon
  <2>6. QED BY ONLY <2>1, <2>3, <2>5, f \in Writers, Zenon
<1>3. QED BY ONLY <1>2, Zenon DEF Carried

LEMMA TwoBitsCarried ==
  ASSUME NEW m, Complete(m), NEW x, x = "format" /\ x \in DOMAIN m, NEW H, NEW S
  PROVE  Carried(m, <<"2 bits", x>>, <<"2 bits", x>>, H, S, H, S \cup {x})
<1>0. x \in DOMAIN m /\ x # "text"
  OBVIOUS
<1>1. 2 \in Sizes /\ Fits(m[x], 2)
  BY ValuesTyped DEF Sizes, Fits, Weights
<1>2. ASSUME NEW e \in Writers
      PROVE  \E f \in Writers : /\ f = Encoded(e, <<"2 bits", x>>, m) /\ Extends(e, f)
                                /\ ReadOn(m, e, f, <<"2 bits", x>>, H, S, H, S \cup {x})
  <2>1. PICK f \in Writers : f = SetBits(e, Bits(m[x], 2)) /\ Extends(e, f) /\ NumberIn(e, f, 2, m[x])
    BY <1>1, NumberWritten, Zenon
  <2>3. f = Encoded(e, <<"2 bits", x>>, m)
    BY ONLY <2>1, EncodedTwoBits, Zenon
  <2>4. ASSUME NEW B \in Seq(Bit), Begins(B, f.bits), NEW v
        PROVE  Decoded(In(B, e, v, H, OnlyOf(Meant(m), S)), <<"2 bits", x>>)
                 = Keep(In(B, f, m[x], H, OnlyOf(Meant(m), S)), x)
    <3>1. PICK d : d = In(B, e, v, H, OnlyOf(Meant(m), S))
      OBVIOUS
    <3>2. d.ok
      BY ONLY <3>1, ReaderOk
    <3>3. Decoded(d, <<"2 bits", x>>) = Keep(GetBits(d, 2), x)
      BY ONLY <3>2, DecodedTwoBits, Zenon
    <3>4. GetBits(d, 2) = In(B, f, m[x], H, OnlyOf(Meant(m), S))
      BY ONLY <2>1, <2>4, <3>1, B \in Seq(Bit), Zenon DEF NumberIn
    <3>5. QED BY ONLY <3>1, <3>3, <3>4, Zenon
  <2>5. ReadOn(m, e, f, <<"2 bits", x>>, H, S, H, S \cup {x})
    BY <1>0, <2>4, KeepsOn, Zenon
  <2>6. QED BY ONLY <2>1, <2>3, <2>5, f \in Writers, Zenon
<1>3. QED BY ONLY <1>2, Zenon DEF Carried

LEMMA OctetCarried ==
  ASSUME NEW m, Complete(m), NEW x, x \in {"pid", "dcs", "reference", "status", "command", "message"} \cap DOMAIN m, NEW H, NEW S
  PROVE  Carried(m, <<"octet", x>>, <<"octet", x>>, H, S, H, S \cup {x})
<1>0. x \in DOMAIN m /\ x # "text"
  OBVIOUS
<1>1. m[x] \in Octet
  BY ValuesTyped
<1>2. ASSUME NEW e \in Writers
      PROVE  \E f \in Writers : /\ f = Encoded(e, <<"octet", x>>, m) /\ Extends(e, f)
                                /\ ReadOn(m, e, f, <<"octet", x>>, H, S, H, S \cup {x})
  <2>1. PICK f \in Writers : f = SetOctets(e, <<m[x]>>) /\ Extends(e, f) /\ OctetIn(e, f, m[x])
    BY <1>1, OctetRead, Zenon
  <2>3. f = Encoded(e, <<"octet", x>>, m)
    BY ONLY <2>1, EncodedOctet, Zenon
  <2>4. ASSUME NEW B \in Seq(Bit), Begins(B, f.bits), NEW v
        PROVE  Decoded(In(B, e, v, H, OnlyOf(Meant(m), S)), <<"octet", x>>)
                 = Keep(In(B, f, m[x], H, OnlyOf(Meant(m), S)), x)
    <3>1. PICK d : d = In(B, e, v, H, OnlyOf(Meant(m), S))
      OBVIOUS
    <3>2. d.ok
      BY ONLY <3>1, ReaderOk
    <3>3. Decoded(d, <<"octet", x>>) = Keep(GetOctet(d), x)
      BY ONLY <3>2, DecodedOctet, Zenon
    <3>4. GetOctet(d) = In(B, f, m[x], H, OnlyOf(Meant(m), S))
      BY ONLY <2>1, <2>4, <3>1, B \in Seq(Bit), Zenon DEF OctetIn
    <3>5. QED BY ONLY <3>1, <3>3, <3>4, Zenon
  <2>5. ReadOn(m, e, f, <<"octet", x>>, H, S, H, S \cup {x})
    BY <1>0, <2>4, KeepsOn, Zenon
  <2>6. QED BY ONLY <2>1, <2>3, <2>5, f \in Writers, Zenon
<1>3. QED BY ONLY <1>2, Zenon DEF Carried

LEMMA AddressCarried ==
  ASSUME NEW m, Complete(m), m.type # "deliver",
         NEW x, x = "address" /\ x \in DOMAIN m, NEW H, NEW S
  PROVE  Carried(m, <<"address", x>>, <<"address", x>>, H, S, H, S \cup {x})
<1>0. x \in DOMAIN m /\ x # "text"
  OBVIOUS
<1>1. FALSE \in BOOLEAN /\ m[x] \in Addresses(FALSE)
  BY ValuesTyped DEF Addresses
<1>2. m[x].type # Alphanumeric
  BY DEF Complete, Dialled
<1>3. ASSUME NEW e \in Writers
      PROVE  \E f \in Writers : /\ f = Encoded(e, <<"address", x>>, m) /\ Extends(e, f)
                                /\ ReadOn(m, e, f, <<"address", x>>, H, S, H, S \cup {x})
  <2>1. PICK f \in Writers : f = NetworkAddress(e, m[x], FALSE) /\ Extends(e, f) /\ AddressRead(e, f, m[x], FALSE)
    BY <1>1, AnAddressRead, Zenon
  <2>2. SetAddress(e, m[x], FALSE) = NetworkAddress(e, m[x], FALSE)
    BY ONLY <1>2, DialledAlike
  <2>3. f = Encoded(e, <<"address", x>>, m)
    BY ONLY <2>1, <2>2, EncodedAddress, Zenon
  <2>4. ASSUME NEW B \in Seq(Bit), Begins(B, f.bits), NEW v
        PROVE  Decoded(In(B, e, v, H, OnlyOf(Meant(m), S)), <<"address", x>>)
                 = Keep(In(B, f, m[x], H, OnlyOf(Meant(m), S)), x)
    <3>1. PICK d : d = In(B, e, v, H, OnlyOf(Meant(m), S))
      OBVIOUS
    <3>2. d.ok
      BY ONLY <3>1, ReaderOk
    <3>3. Decoded(d, <<"address", x>>) = Keep(GetAddress(d, FALSE), x)
      BY ONLY <3>2, DecodedAddress, Zenon
    <3>4. GetAddress(d, FALSE) = In(B, f, m[x], H, OnlyOf(Meant(m), S))
      BY ONLY <2>1, <2>4, <3>1, B \in Seq(Bit), Zenon DEF AddressRead
    <3>5. QED BY ONLY <3>1, <3>3, <3>4, Zenon
  <2>5. ReadOn(m, e, f, <<"address", x>>, H, S, H, S \cup {x})
    BY <1>0, <2>4, KeepsOn, Zenon
  <2>6. QED BY ONLY <2>1, <2>3, <2>5, f \in Writers, Zenon
<1>4. QED BY ONLY <1>3, Zenon DEF Carried

LEMMA SenderCarried ==
  ASSUME NEW m, Complete(m), NEW x, x = "address" /\ x \in DOMAIN m, NEW H, NEW S
  PROVE  Carried(m, <<"sender", x>>, <<"address", x>>, H, S, H, S \cup {x})
<1>0. x \in DOMAIN m /\ x # "text"
  OBVIOUS
<1>1. FALSE \in BOOLEAN /\ m[x] \in Addresses(FALSE)
  BY ValuesTyped DEF Addresses
<1>2. ASSUME NEW e \in Writers
      PROVE  \E f \in Writers : /\ f = Encoded(e, <<"sender", x>>, m) /\ Extends(e, f)
                                /\ ReadOn(m, e, f, <<"address", x>>, H, S, H, S \cup {x})
  <2>1. PICK f \in Writers : f = NetworkAddress(e, m[x], FALSE) /\ Extends(e, f) /\ AddressRead(e, f, m[x], FALSE)
    BY <1>1, AnAddressRead, Zenon
  <2>3. f = Encoded(e, <<"sender", x>>, m)
    BY ONLY <2>1, EncodedSender, Zenon
  <2>4. ASSUME NEW B \in Seq(Bit), Begins(B, f.bits), NEW v
        PROVE  Decoded(In(B, e, v, H, OnlyOf(Meant(m), S)), <<"address", x>>)
                 = Keep(In(B, f, m[x], H, OnlyOf(Meant(m), S)), x)
    <3>1. PICK d : d = In(B, e, v, H, OnlyOf(Meant(m), S))
      OBVIOUS
    <3>2. d.ok
      BY ONLY <3>1, ReaderOk
    <3>3. Decoded(d, <<"address", x>>) = Keep(GetAddress(d, FALSE), x)
      BY ONLY <3>2, DecodedAddress, Zenon
    <3>4. GetAddress(d, FALSE) = In(B, f, m[x], H, OnlyOf(Meant(m), S))
      BY ONLY <2>1, <2>4, <3>1, B \in Seq(Bit), Zenon DEF AddressRead
    <3>5. QED BY ONLY <3>1, <3>3, <3>4, Zenon
  <2>5. ReadOn(m, e, f, <<"address", x>>, H, S, H, S \cup {x})
    BY <1>0, <2>4, KeepsOn, Zenon
  <2>6. QED BY ONLY <2>1, <2>3, <2>5, f \in Writers, Zenon
<1>3. QED BY ONLY <1>2, Zenon DEF Carried

LEMMA TimeCarried ==
  ASSUME NEW m, Complete(m), NEW x, x \in {"time", "discharge"} \cap DOMAIN m, NEW H, NEW S
  PROVE  Carried(m, <<"time", x>>, <<"time", x>>, H, S, H, S \cup {x})
<1>0. x \in DOMAIN m /\ x # "text"
  OBVIOUS
<1>1. m[x] \in Times
  BY ValuesTyped
<1>2. ASSUME NEW e \in Writers
      PROVE  \E f \in Writers : /\ f = Encoded(e, <<"time", x>>, m) /\ Extends(e, f)
                                /\ ReadOn(m, e, f, <<"time", x>>, H, S, H, S \cup {x})
  <2>1. PICK f \in Writers : f = SetTimestamp(e, m[x]) /\ Extends(e, f) /\ TimeRead(e, f, m[x])
    BY <1>1, TimestampRead, Zenon
  <2>3. f = Encoded(e, <<"time", x>>, m)
    BY ONLY <2>1, EncodedTime, Zenon
  <2>4. ASSUME NEW B \in Seq(Bit), Begins(B, f.bits), NEW v
        PROVE  Decoded(In(B, e, v, H, OnlyOf(Meant(m), S)), <<"time", x>>)
                 = Keep(In(B, f, m[x], H, OnlyOf(Meant(m), S)), x)
    <3>1. PICK d : d = In(B, e, v, H, OnlyOf(Meant(m), S))
      OBVIOUS
    <3>2. d.ok
      BY ONLY <3>1, ReaderOk
    <3>3. Decoded(d, <<"time", x>>) = Keep(GetTimestamp(d), x)
      BY ONLY <3>2, DecodedTime, Zenon
    <3>4. GetTimestamp(d) = In(B, f, m[x], H, OnlyOf(Meant(m), S))
      BY ONLY <2>1, <2>4, <3>1, B \in Seq(Bit), Zenon DEF TimeRead
    <3>5. QED BY ONLY <3>1, <3>3, <3>4, Zenon
  <2>5. ReadOn(m, e, f, <<"time", x>>, H, S, H, S \cup {x})
    BY <1>0, <2>4, KeepsOn, Zenon
  <2>6. QED BY ONLY <2>1, <2>3, <2>5, f \in Writers, Zenon
<1>3. QED BY ONLY <1>2, Zenon DEF Carried

LEMMA PeriodCarried ==
  ASSUME NEW m, Complete(m), "validity" \in DOMAIN m, "format" \in DOMAIN m,
         m["format"] = m["validity"].format, NEW H, NEW S, "format" \in S
  PROVE  Carried(m, <<"period", "validity">>, <<"period", "validity">>, H, S, H, S \cup {"validity"})
<1>1. PICK p \in Periods : p = m["validity"]
  BY ValuesTyped, Zenon
<1>2. OnlyOf(Meant(m), S).format = p.format
  <2>1. Meant(m)["format"] = m["format"]
    BY MeantParts
  <2>2. OnlyOf(Meant(m), S)["format"] = Meant(m)["format"]
    BY Zenon DEF OnlyOf
  <2>3. QED BY <1>1, <2>1, <2>2, Zenon
<1>3. ASSUME NEW e \in Writers
      PROVE  \E f \in Writers :
               /\ f = Encoded(e, <<"period", "validity">>, m) /\ Extends(e, f)
               /\ ReadOn(m, e, f, <<"period", "validity">>, H, S, H, S \cup {"validity"})
  <2>1. PICK f \in Writers : f = SetTimePeriod(e, p) /\ Extends(e, f) /\ PeriodRead(e, f, p)
    BY TimePeriodRead, Zenon
  <2>2. f = Encoded(e, <<"period", "validity">>, m)
    BY ONLY <1>1, <2>1, EncodedPeriod, Zenon
  <2>3. ASSUME NEW B \in Seq(Bit), Begins(B, f.bits), NEW v
        PROVE  Decoded(In(B, e, v, H, OnlyOf(Meant(m), S)), <<"period", "validity">>)
                 = Keep(In(B, f, m["validity"], H, OnlyOf(Meant(m), S)), "validity")
    <3>1. PICK d : d = In(B, e, v, H, OnlyOf(Meant(m), S))
      OBVIOUS
    <3>2. d.ok /\ d.msg = OnlyOf(Meant(m), S)
      BY ONLY <3>1, ReaderOk
    <3>3. Decoded(d, <<"period", "validity">>) = Keep(GetTimePeriod(d, d.msg.format), "validity")
      BY ONLY <3>2, DecodedPeriod, Zenon
    <3>4. GetTimePeriod(d, p.format) = In(B, f, p, H, OnlyOf(Meant(m), S))
      BY ONLY <2>1, <2>3, <3>1, B \in Seq(Bit), Zenon DEF PeriodRead
    <3>5. QED BY ONLY <1>1, <1>2, <3>1, <3>2, <3>3, <3>4, Zenon
  <2>4. ReadOn(m, e, f, <<"period", "validity">>, H, S, H, S \cup {"validity"})
    <3>1. "validity" # "text"
      OBVIOUS
    <3>2. QED BY <2>3, <3>1, KeepsOn, Zenon
  <2>5. QED BY ONLY <2>1, <2>2, <2>4, f \in Writers, Zenon
<1>4. QED BY ONLY <1>3, Zenon DEF Carried

LEMMA DataCarried ==
  ASSUME NEW m, Complete(m), "data" \in DOMAIN m, NEW H, NEW S
  PROVE  Carried(m, <<"octets", "data">>, <<"dropped", "data">>, H, S, H, S \cup {"data"})
<1>1. PICK s \in Counted(Octet) : s = <<>> /\ m["data"] = s
  <2>1. <<>> \in Counted(Octet)
    BY DEF Counted, Octet
  <2>2. QED BY <2>1, ValuesTyped, Zenon
<1>2. ASSUME NEW e \in Writers
      PROVE  \E f \in Writers :
               /\ f = Encoded(e, <<"octets", "data">>, m) /\ Extends(e, f)
               /\ ReadOn(m, e, f, <<"dropped", "data">>, H, S, H, S \cup {"data"})
  <2>1. PICK f \in Writers : /\ f = SetOctets(SetOctets(e, <<Len(s)>>), s)
                             /\ Extends(e, f) /\ CountRead(e, f, s)
    BY CountedRead, Zenon
  <2>2. f = Encoded(e, <<"octets", "data">>, m)
    BY ONLY <1>1, <2>1, EncodedOctets, Zenon
  <2>3. ASSUME NEW B \in Seq(Bit), Begins(B, f.bits), NEW v
        PROVE  Decoded(In(B, e, v, H, OnlyOf(Meant(m), S)), <<"dropped", "data">>)
                 = Keep(In(B, f, m["data"], H, OnlyOf(Meant(m), S)), "data")
    <3>1. PICK d : d = In(B, e, v, H, OnlyOf(Meant(m), S))
      OBVIOUS
    <3>2. d.ok
      BY ONLY <3>1, ReaderOk
    <3>3. Decoded(d, <<"dropped", "data">>) = Keep([GetCounted(d) EXCEPT !.val = <<>>], "data")
      BY ONLY <3>2, DecodedDropped, Zenon
    <3>4. PICK k : k = GetCounted(d) /\ k = In(B, f, s, H, OnlyOf(Meant(m), S))
      BY ONLY <2>1, <2>3, <3>1, B \in Seq(Bit), Zenon DEF CountRead
    <3>5. [k EXCEPT !.val = <<>>] = In(B, f, <<>>, H, OnlyOf(Meant(m), S))
      BY ONLY <3>4, ReaderMoves DEF In
    <3>6. QED BY ONLY <1>1, <3>1, <3>3, <3>4, <3>5, Zenon
  <2>4. ReadOn(m, e, f, <<"dropped", "data">>, H, S, H, S \cup {"data"})
    <3>1. "data" # "text"
      OBVIOUS
    <3>2. QED BY <2>3, <3>1, KeepsOn, Zenon
  <2>5. QED BY ONLY <2>1, <2>2, <2>4, f \in Writers, Zenon
<1>3. QED BY ONLY <1>2, Zenon DEF Carried

(* Fields that are written and read alike, and a field that is left out.      *)
LEMMA AlikeCarried ==
  ASSUME NEW m, NEW w, NEW r, NEW w2, NEW r2, NEW H, NEW S, NEW H2, NEW S2,
         Carried(m, w, r, H, S, H2, S2),
         \A e : Encoded(e, w2, m) = Encoded(e, w, m),
         \A d : d.ok /\ d.has = H => Decoded(d, r2) = Decoded(d, r)
  PROVE  Carried(m, w2, r2, H, S, H2, S2)
<1>1. ASSUME NEW B, NEW e, NEW v, NEW g
      PROVE  Decoded(In(B, e, v, H, g), r2) = Decoded(In(B, e, v, H, g), r)
  <2>1. PICK d : d = In(B, e, v, H, g)
    OBVIOUS
  <2>2. d.ok /\ d.has = H
    BY ONLY <2>1, ReaderOk
  <2>3. QED BY <2>1, <2>2, Zenon
<1>2. ASSUME NEW e \in Writers
      PROVE  \E f \in Writers : f = Encoded(e, w2, m) /\ Extends(e, f) /\ ReadOn(m, e, f, r2, H, S, H2, S2)
  <2>1. PICK f \in Writers : f = Encoded(e, w, m) /\ Extends(e, f) /\ ReadOn(m, e, f, r, H, S, H2, S2)
    BY Zenon DEF Carried
  <2>2. ReadOn(m, e, f, r2, H, S, H2, S2)
    <3>1. ASSUME NEW B \in Seq(Bit), Begins(B, f.bits), NEW v
          PROVE  \E x : Decoded(In(B, e, v, H, OnlyOf(Meant(m), S)), r2)
                          = In(B, f, x, H2, OnlyOf(Meant(m), S2))
      <4>1. PICK x : Decoded(In(B, e, v, H, OnlyOf(Meant(m), S)), r)
                       = In(B, f, x, H2, OnlyOf(Meant(m), S2))
        BY ONLY <2>1, <3>1, B \in Seq(Bit), Zenon DEF ReadOn
      <4>2. Decoded(In(B, e, v, H, OnlyOf(Meant(m), S)), r2) = Decoded(In(B, e, v, H, OnlyOf(Meant(m), S)), r)
        BY ONLY <1>1, Zenon
      <4>3. QED BY ONLY <4>1, <4>2, Zenon
    <3>2. QED BY ONLY <3>1, Zenon DEF ReadOn
  <2>3. f = Encoded(e, w2, m)
    BY <2>1, Zenon
  <2>4. QED BY ONLY <2>1, <2>2, <2>3, f \in Writers, Zenon
<1>3. QED BY ONLY <1>2, Zenon DEF Carried

LEMMA NothingCarried ==
  ASSUME NEW m, NEW w, NEW r, NEW H, NEW S,
         \A e : Encoded(e, w, m) = e, \A d : d.ok /\ d.has = H => Decoded(d, r) = d
  PROVE  Carried(m, w, r, H, S, H, S)
<1>1. ASSUME NEW B, NEW e, NEW v, NEW g
      PROVE  Decoded(In(B, e, v, H, g), r) = In(B, e, v, H, g)
  <2>1. PICK d : d = In(B, e, v, H, g)
    OBVIOUS
  <2>2. d.ok /\ d.has = H
    BY ONLY <2>1, ReaderOk
  <2>3. QED BY <2>1, <2>2, Zenon
<1>2. ASSUME NEW e \in Writers
      PROVE  \E f \in Writers : f = Encoded(e, w, m) /\ Extends(e, f) /\ ReadOn(m, e, f, r, H, S, H, S)
  <2>1. e = Encoded(e, w, m)
    BY Zenon
  <2>2. Extends(e, e)
    BY Zenon DEF Extends
  <2>3. ReadOn(m, e, e, r, H, S, H, S)
    BY ONLY <1>1, Zenon DEF ReadOn
  <2>4. QED BY ONLY <2>1, <2>2, <2>3, e \in Writers, Zenon
<1>3. QED BY ONLY <1>2, Zenon DEF Carried

LEMMA OctetIfCarried ==
  ASSUME NEW m, Complete(m), NEW x \in {"pid", "dcs"}, NEW H, NEW S, x \in H <=> x \in DOMAIN m
  PROVE  Carried(m, <<"octet if", x>>, <<"octet if", x>>, H, S, H, S \cup ({x} \cap DOMAIN m))
<1>1. CASE x \in DOMAIN m
  <2>1. Carried(m, <<"octet", x>>, <<"octet", x>>, H, S, H, S \cup {x})
    <3>1. x \in {"pid", "dcs", "reference", "status", "command", "message"} \cap DOMAIN m
      BY <1>1
    <3>2. QED BY <3>1, OctetCarried, Zenon
  <2>2. \A e : Encoded(e, <<"octet if", x>>, m) = Encoded(e, <<"octet", x>>, m)
    BY ONLY <1>1, EncodedOctetIf, Zenon
  <2>3. \A d : d.ok /\ d.has = H => Decoded(d, <<"octet if", x>>) = Decoded(d, <<"octet", x>>)
    <3>1. x \in H
      BY <1>1
    <3>2. QED BY ONLY <3>1, DecodedOctetIf, Zenon
  <2>4. Carried(m, <<"octet if", x>>, <<"octet if", x>>, H, S, H, S \cup {x})
    BY ONLY <2>1, <2>2, <2>3, AlikeCarried, Zenon
  <2>5. S \cup ({x} \cap DOMAIN m) = S \cup {x}
    BY ONLY <1>1, Zenon
  <2>6. QED BY ONLY <2>4, <2>5, Zenon
<1>2. CASE x \notin DOMAIN m
  <2>1. \A e : Encoded(e, <<"octet if", x>>, m) = e
    BY ONLY <1>2, EncodedOctetIf, Zenon
  <2>2. \A d : d.ok /\ d.has = H => Decoded(d, <<"octet if", x>>) = d
    <3>1. x \notin H
      BY <1>2
    <3>2. QED BY ONLY <3>1, DecodedOctetIf, Zenon
  <2>3. S \cup ({x} \cap DOMAIN m) = S
    BY ONLY <1>2, Zenon
  <2>4. Carried(m, <<"octet if", x>>, <<"octet if", x>>, H, S, H, S)
    BY ONLY <2>1, <2>2, NothingCarried, Zenon
  <2>5. QED BY ONLY <2>3, <2>4, Zenon
<1>3. QED BY ONLY <1>1, <1>2

LEMMA TextCarried ==
  ASSUME NEW m, Complete(m), "text" \in DOMAIN m, NEW H, NEW S,
         "header" \in H <=> "header" \in DOMAIN m,
         "dcs" \in S <=> "dcs" \in DOMAIN m, "header" \notin S
  PROVE  Carried(m, <<"data", "text">>, <<"data", "text">>, H, S,
                 H, (S \cup ({"header"} \cap DOMAIN m)) \cup {"text"})
<1>1. PICK T : T = (S \cup ({"header"} \cap DOMAIN m)) \cup {"text"}
  OBVIOUS
<1>2. ASSUME NEW e \in Writers
      PROVE  \E f \in Writers :
               /\ f = Encoded(e, <<"data", "text">>, m) /\ Extends(e, f)
               /\ ReadOn(m, e, f, <<"data", "text">>, H, S, H, T)
  <2>1. PICK f \in Writers : f = SetUserData(e, m) /\ Extends(e, f) /\ DataIn(m, e, f, H, S, T)
    <3>1. \E f \in Writers :
            /\ f = SetUserData(e, m) /\ Extends(e, f)
            /\ DataIn(m, e, f, H, S, (S \cup ({"header"} \cap DOMAIN m)) \cup {"text"})
      BY UserDataRead, Zenon
    <3>2. QED BY ONLY <1>1, <3>1, Zenon
  <2>2. f = Encoded(e, <<"data", "text">>, m)
    BY ONLY <2>1, EncodedData, Zenon
  <2>3. ASSUME NEW B \in Seq(Bit), Begins(B, f.bits), NEW v
        PROVE  Decoded(In(B, e, v, H, OnlyOf(Meant(m), S)), <<"data", "text">>)
                 = In(B, f, Meant(m)["text"], H, OnlyOf(Meant(m), T))
    <3>1. PICK d : d = In(B, e, v, H, OnlyOf(Meant(m), S))
      OBVIOUS
    <3>2. d.ok
      BY ONLY <3>1, ReaderOk
    <3>3. Decoded(d, <<"data", "text">>) = GetUserData(d)
      BY ONLY <3>2, DecodedData, Zenon
    <3>4. QED BY ONLY <2>1, <2>3, <3>1, <3>3, B \in Seq(Bit), Zenon DEF DataIn
  <2>4. ReadOn(m, e, f, <<"data", "text">>, H, S, H, T)
    BY ONLY <2>3, Zenon DEF ReadOn
  <2>5. QED BY ONLY <2>1, <2>2, <2>4, f \in Writers, Zenon
<1>3. QED BY ONLY <1>1, <1>2, Zenon DEF Carried

LEMMA TextIfCarried ==
  ASSUME NEW m, Complete(m), "header" \notin DOMAIN m, NEW H, NEW S,
         "header" \notin H, "text" \in H <=> "text" \in DOMAIN m,
         "dcs" \in S <=> "dcs" \in DOMAIN m, "header" \notin S
  PROVE  Carried(m, <<"data if", "text">>, <<"data if", "text">>, H, S, H, S \cup ({"text"} \cap DOMAIN m))
<1>1. CASE "text" \in DOMAIN m
  <2>1. Carried(m, <<"data", "text">>, <<"data", "text">>, H, S,
                H, (S \cup ({"header"} \cap DOMAIN m)) \cup {"text"})
    <3>1. "header" \in H <=> "header" \in DOMAIN m
      OBVIOUS
    <3>2. QED BY <1>1, <3>1, TextCarried, Zenon
  <2>2. (S \cup ({"header"} \cap DOMAIN m)) \cup {"text"} = S \cup ({"text"} \cap DOMAIN m)
    BY <1>1, Zenon
  <2>3. \A e : Encoded(e, <<"data if", "text">>, m) = Encoded(e, <<"data", "text">>, m)
    BY ONLY <1>1, EncodedDataIf, Zenon
  <2>4. \A d : d.ok /\ d.has = H => Decoded(d, <<"data if", "text">>) = Decoded(d, <<"data", "text">>)
    <3>1. "text" \in H
      BY <1>1
    <3>2. QED BY ONLY <3>1, DecodedDataIf, Zenon
  <2>5. PICK T : T = S \cup ({"text"} \cap DOMAIN m) /\ Carried(m, <<"data", "text">>, <<"data", "text">>, H, S, H, T)
    BY ONLY <2>1, <2>2, Zenon
  <2>6. Carried(m, <<"data if", "text">>, <<"data if", "text">>, H, S, H, T)
    BY ONLY <2>3, <2>4, <2>5, AlikeCarried, Zenon
  <2>7. QED BY ONLY <2>5, <2>6, Zenon
<1>2. CASE "text" \notin DOMAIN m
  <2>1. \A e : Encoded(e, <<"data if", "text">>, m) = e
    BY ONLY <1>2, EncodedDataIf, Zenon
  <2>2. \A d : d.ok /\ d.has = H => Decoded(d, <<"data if", "text">>) = d
    <3>1. "text" \notin H
      BY <1>2
    <3>2. QED BY ONLY <3>1, DecodedDataIf, Zenon
  <2>3. S \cup ({"text"} \cap DOMAIN m) = S
    BY ONLY <1>2, Zenon
  <2>4. Carried(m, <<"data if", "text">>, <<"data if", "text">>, H, S, H, S)
    BY ONLY <2>1, <2>2, NothingCarried, Zenon
  <2>5. QED BY ONLY <2>3, <2>4, Zenon
<1>3. QED BY ONLY <1>1, <1>2

-----------------------------------------------------------------------------
(* Messages, field by field.                                                *)
WriteStep(f, m, n) ==
  IF n = 0 THEN SetBits(ScAddress(m), Bits(TypeCode[m.type], 2)) ELSE Encoded(f[n - 1], Writes[m.type][n], m)
IsWritten(f, m, N) == f = [n \in 0 .. N |-> WriteStep(f, m, n)]
ReadStep(f, d, fields, n) == IF n = 0 THEN d ELSE Decoded(f[n - 1], fields[n])
IsRead(f, d, fields, N) == f = [n \in 0 .. N |-> ReadStep(f, d, fields, n)]

LEMMA WrittenExists ==
  ASSUME NEW m, NEW N \in Nat
  PROVE  \E f : IsWritten(f, m, N)
<1> DEFINE Bad == {z \in Nat : ~ \E f : IsWritten(f, m, z)}
<1> SUFFICES ASSUME Bad # {} PROVE FALSE
  OBVIOUS
<1>1. PICK z \in Bad : \A w \in Bad : z <= w
  <2>1. Bad \subseteq Nat
    OBVIOUS
  <2> HIDE DEF Bad
  <2> QED BY <2>1, LeastNumber
<1>2. z \in Nat /\ ~ \E f : IsWritten(f, m, z)
  OBVIOUS
<1>3. PICK f : \A n \in 0 .. z - 1 : f[n] = WriteStep(f, m, n)
  <2>1. CASE z = 0
    <3>1. 0 .. z - 1 = {}
      BY <2>1
    <3>2. QED BY <3>1, Zenon
  <2>2. CASE z # 0
    <3>1. z - 1 \in Nat /\ ~ (z <= z - 1)
      BY <1>2, <2>2
    <3>2. z - 1 \notin Bad
      BY <1>1, <3>1, Zenon
    <3>3. PICK f : IsWritten(f, m, z - 1)
      BY <3>1, <3>2, Zenon
    <3>4. \A n \in 0 .. z - 1 : f[n] = WriteStep(f, m, n)
      BY ONLY <3>3, Zenon DEF IsWritten
    <3>5. QED BY <3>4, Zenon
  <2>3. QED BY <2>1, <2>2, Zenon
<1>4. PICK g : g = [n \in 0 .. z |-> WriteStep(f, m, n)]
  BY ONLY Zenon
<1>5. \A n \in 0 .. z : WriteStep(g, m, n) = WriteStep(f, m, n)
  <2>1. SUFFICES ASSUME NEW n \in 0 .. z PROVE WriteStep(g, m, n) = WriteStep(f, m, n)
    BY Zenon
  <2>2. CASE n = 0
    BY <2>2, Zenon DEF WriteStep
  <2>3. CASE n # 0
    <3>1. n - 1 \in 0 .. z /\ n - 1 \in 0 .. z - 1
      BY <1>2, <2>1, <2>3
    <3>2. g[n - 1] = f[n - 1]
      BY ONLY <1>3, <1>4, <3>1, Zenon
    <3>3. QED BY ONLY <2>3, <3>2, Zenon DEF WriteStep
  <2>4. QED BY <2>2, <2>3, Zenon
<1>6. g = [n \in 0 .. z |-> WriteStep(g, m, n)]
  BY ONLY <1>4, <1>5, Zenon
<1>7. QED BY ONLY <1>2, <1>6, Zenon DEF IsWritten

LEMMA ReadExists ==
  ASSUME NEW d, NEW fields, NEW N \in Nat
  PROVE  \E f : IsRead(f, d, fields, N)
<1> DEFINE Bad == {z \in Nat : ~ \E f : IsRead(f, d, fields, z)}
<1> SUFFICES ASSUME Bad # {} PROVE FALSE
  OBVIOUS
<1>1. PICK z \in Bad : \A w \in Bad : z <= w
  <2>1. Bad \subseteq Nat
    OBVIOUS
  <2> HIDE DEF Bad
  <2> QED BY <2>1, LeastNumber
<1>2. z \in Nat /\ ~ \E f : IsRead(f, d, fields, z)
  OBVIOUS
<1>3. PICK f : \A n \in 0 .. z - 1 : f[n] = ReadStep(f, d, fields, n)
  <2>1. CASE z = 0
    <3>1. 0 .. z - 1 = {}
      BY <2>1
    <3>2. QED BY <3>1, Zenon
  <2>2. CASE z # 0
    <3>1. z - 1 \in Nat /\ ~ (z <= z - 1)
      BY <1>2, <2>2
    <3>2. z - 1 \notin Bad
      BY <1>1, <3>1, Zenon
    <3>3. PICK f : IsRead(f, d, fields, z - 1)
      BY <3>1, <3>2, Zenon
    <3>4. \A n \in 0 .. z - 1 : f[n] = ReadStep(f, d, fields, n)
      BY ONLY <3>3, Zenon DEF IsRead
    <3>5. QED BY <3>4, Zenon
  <2>3. QED BY <2>1, <2>2, Zenon
<1>4. PICK g : g = [n \in 0 .. z |-> ReadStep(f, d, fields, n)]
  BY ONLY Zenon
<1>5. \A n \in 0 .. z : ReadStep(g, d, fields, n) = ReadStep(f, d, fields, n)
  <2>1. SUFFICES ASSUME NEW n \in 0 .. z PROVE ReadStep(g, d, fields, n) = ReadStep(f, d, fields, n)
    BY Zenon
  <2>2. CASE n = 0
    BY <2>2, Zenon DEF ReadStep
  <2>3. CASE n # 0
    <3>1. n - 1 \in 0 .. z /\ n - 1 \in 0 .. z - 1
      BY <1>2, <2>1, <2>3
    <3>2. g[n - 1] = f[n - 1]
      BY ONLY <1>3, <1>4, <3>1, Zenon
    <3>3. QED BY ONLY <2>3, <3>2, Zenon DEF ReadStep
  <2>4. QED BY <2>2, <2>3, Zenon
<1>6. g = [n \in 0 .. z |-> ReadStep(g, d, fields, n)]
  BY ONLY <1>4, <1>5, Zenon
<1>7. QED BY ONLY <1>2, <1>6, Zenon DEF IsRead

LEMMA WrittenSteps ==
  ASSUME NEW m, NEW N \in Nat, N = Len(Writes[m.type])
  PROVE  /\ Written(m)[0] = SetBits(ScAddress(m), Bits(TypeCode[m.type], 2))
         /\ \A n \in 1 .. N : Written(m)[n] = Encoded(Written(m)[n - 1], Writes[m.type][n], m)
<1>1. Written(m) = CHOOSE f : IsWritten(f, m, N)
  BY Zenon DEF Written, IsWritten, WriteStep
<1>2. \E f : IsWritten(f, m, N)
  BY WrittenExists
<1>3. PICK f : f = Written(m) /\ IsWritten(f, m, N)
  BY ONLY <1>1, <1>2, Zenon
<1>4. \A n \in 0 .. N : f[n] = WriteStep(f, m, n)
  BY ONLY <1>3, Zenon DEF IsWritten
<1>5. 0 \in 0 .. N /\ \A n \in 1 .. N : n \in 0 .. N /\ n # 0
  OBVIOUS
<1>6. f[0] = SetBits(ScAddress(m), Bits(TypeCode[m.type], 2))
  BY ONLY <1>4, <1>5, Zenon DEF WriteStep
<1>7. \A n \in 1 .. N : f[n] = Encoded(f[n - 1], Writes[m.type][n], m)
  BY ONLY <1>4, <1>5, Zenon DEF WriteStep
<1>8. QED BY ONLY <1>3, <1>6, <1>7, Zenon

LEMMA ReadSteps ==
  ASSUME NEW d, NEW fields, NEW N \in Nat, N = Len(fields)
  PROVE  /\ ReadAll(d, fields)[0] = d
         /\ \A n \in 1 .. N : ReadAll(d, fields)[n] = Decoded(ReadAll(d, fields)[n - 1], fields[n])
<1>1. ReadAll(d, fields) = CHOOSE f : IsRead(f, d, fields, N)
  BY Zenon DEF ReadAll, IsRead, ReadStep
<1>2. \E f : IsRead(f, d, fields, N)
  BY ReadExists
<1>3. PICK f : f = ReadAll(d, fields) /\ IsRead(f, d, fields, N)
  BY ONLY <1>1, <1>2, Zenon
<1>4. \A n \in 0 .. N : f[n] = ReadStep(f, d, fields, n)
  BY ONLY <1>3, Zenon DEF IsRead
<1>5. 0 \in 0 .. N /\ \A n \in 1 .. N : n \in 0 .. N /\ n # 0
  OBVIOUS
<1>6. f[0] = d
  BY ONLY <1>4, <1>5, Zenon DEF ReadStep
<1>7. \A n \in 1 .. N : f[n] = Decoded(f[n - 1], fields[n])
  BY ONLY <1>4, <1>5, Zenon DEF ReadStep
<1>8. QED BY ONLY <1>3, <1>6, <1>7, Zenon

(* The reader has followed the writer through the first n fields.            *)
Opened(B, m) == In(B, Written(m)[0], TypeCode[m.type], {}, OnlyOf(Meant(m), {"sca", "type"}))
Follows(m, n, H, S) ==
  /\ Written(m)[n] \in Writers /\ Extends(Written(m)[0], Written(m)[n])
  /\ \A B \in Seq(Bit) : Begins(B, Written(m)[n].bits) => \E v :
       ReadAll(Opened(B, m), Reads[m.type])[n] = In(B, Written(m)[n], v, H, OnlyOf(Meant(m), S))
Lengths(m, N) == N \in Nat /\ Len(Writes[m.type]) = N /\ Len(Reads[m.type]) = N

LEMMA FollowsFirst ==
  ASSUME NEW m, NEW N, Lengths(m, N), Written(m)[0] \in Writers
  PROVE  Follows(m, 0, {}, {"sca", "type"})
<1>1. N \in Nat /\ N = Len(Reads[m.type])
  BY Zenon DEF Lengths
<1>2. ASSUME NEW B
      PROVE  ReadAll(Opened(B, m), Reads[m.type])[0] = Opened(B, m)
  <2>1. PICK d, fields : d = Opened(B, m) /\ fields = Reads[m.type] /\ N = Len(fields)
    BY <1>1, Zenon
  <2>2. ReadAll(d, fields)[0] = d
    BY <1>1, <2>1, ReadSteps, Zenon
  <2>3. QED BY ONLY <2>1, <2>2, Zenon
<1>3. Extends(Written(m)[0], Written(m)[0])
  BY Zenon DEF Extends
<1>4. QED BY <1>2, <1>3, Zenon DEF Follows, Opened

(* The nth field, written as w and read as r.                               *)
FieldAt(m, N, k, n, w, r) ==
  /\ Lengths(m, N) /\ n \in 1 .. N /\ k = n - 1 /\ w = Writes[m.type][n] /\ r = Reads[m.type][n]

LEMMA FollowsNext ==
  ASSUME NEW m, NEW N, NEW k, NEW n, NEW w, NEW r, NEW H, NEW S, NEW H2, NEW S2,
         FieldAt(m, N, k, n, w, r), Follows(m, k, H, S), Carried(m, w, r, H, S, H2, S2)
  PROVE  Follows(m, n, H2, S2)
<1>0. Lengths(m, N) /\ n \in 1 .. N /\ k = n - 1 /\ w = Writes[m.type][n] /\ r = Reads[m.type][n]
  BY Zenon DEF FieldAt
<1>1. N \in Nat /\ N = Len(Writes[m.type]) /\ N = Len(Reads[m.type])
  BY <1>0, Zenon DEF Lengths
<1>2. PICK e \in Writers :
        /\ e = Written(m)[k] /\ Extends(Written(m)[0], e)
        /\ \A B \in Seq(Bit) : Begins(B, e.bits) => \E v :
             ReadAll(Opened(B, m), Reads[m.type])[k] = In(B, e, v, H, OnlyOf(Meant(m), S))
  BY Zenon DEF Follows
<1>3. PICK f \in Writers : f = Encoded(e, w, m) /\ Extends(e, f) /\ ReadOn(m, e, f, r, H, S, H2, S2)
  BY Zenon DEF Carried
<1>4. Written(m)[n] = f
  <2>1. \A i \in 1 .. N : Written(m)[i] = Encoded(Written(m)[i - 1], Writes[m.type][i], m)
    BY ONLY <1>1, WrittenSteps, Zenon
  <2>2. Written(m)[n] = Encoded(Written(m)[k], w, m)
    BY ONLY <1>0, <2>1, Zenon
  <2>3. QED BY ONLY <1>2, <1>3, <2>2, Zenon
<1>5. ASSUME NEW B \in Seq(Bit), Begins(B, f.bits)
      PROVE  \E v : ReadAll(Opened(B, m), Reads[m.type])[n] = In(B, f, v, H2, OnlyOf(Meant(m), S2))
  <2>1. Begins(B, e.bits)
    BY ONLY <1>3, <1>5, B \in Seq(Bit), Zenon DEF Extends
  <2>2. PICK v : ReadAll(Opened(B, m), Reads[m.type])[k] = In(B, e, v, H, OnlyOf(Meant(m), S))
    BY ONLY <1>2, <2>1, B \in Seq(Bit), Zenon
  <2>3. \A i \in 1 .. N : ReadAll(Opened(B, m), Reads[m.type])[i]
                            = Decoded(ReadAll(Opened(B, m), Reads[m.type])[i - 1], Reads[m.type][i])
    <3>1. PICK d, fields : d = Opened(B, m) /\ fields = Reads[m.type] /\ N = Len(fields)
      BY <1>1, Zenon
    <3>2. /\ ReadAll(d, fields)[0] = d
          /\ \A i \in 1 .. N : ReadAll(d, fields)[i] = Decoded(ReadAll(d, fields)[i - 1], fields[i])
      BY ONLY <1>1, <3>1, ReadSteps
    <3>3. QED BY ONLY <3>1, <3>2, Zenon
  <2>4. ReadAll(Opened(B, m), Reads[m.type])[n] = Decoded(ReadAll(Opened(B, m), Reads[m.type])[k], r)
    BY ONLY <1>0, <2>3, Zenon
  <2>5. PICK x : Decoded(In(B, e, v, H, OnlyOf(Meant(m), S)), r) = In(B, f, x, H2, OnlyOf(Meant(m), S2))
    BY ONLY <1>3, <1>5, B \in Seq(Bit), Zenon DEF ReadOn
  <2>6. QED BY ONLY <2>2, <2>4, <2>5, Zenon
<1>6. Extends(Written(m)[0], f)
  BY ONLY <1>2, <1>3, ExtendsOn
<1>7. QED BY ONLY <1>4, <1>5, <1>6, f \in Writers, Zenon DEF Follows

(* The reader has followed the writer to the end, and has read every field.  *)
AllFollowed(m) == \E N, H : Lengths(m, N) /\ Follows(m, N, H, DOMAIN m)

LEMMA DeliverAt ==
  ASSUME NEW m, m.type = "deliver"
  PROVE  /\ Lengths(m, 11)
         /\ FieldAt(m, 11, 0, 1, <<"bit", "more">>, <<"bit", "more">>)
         /\ FieldAt(m, 11, 1, 2, <<"spare", "">>, <<"spare", "">>)
         /\ FieldAt(m, 11, 2, 3, <<"spare", "">>, <<"spare", "">>)
         /\ FieldAt(m, 11, 3, 4, <<"bit", "report">>, <<"bit", "report">>)
         /\ FieldAt(m, 11, 4, 5, <<"has", "header">>, <<"has", "header">>)
         /\ FieldAt(m, 11, 5, 6, <<"bit", "reply">>, <<"bit", "reply">>)
         /\ FieldAt(m, 11, 6, 7, <<"sender", "address">>, <<"address", "address">>)
         /\ FieldAt(m, 11, 7, 8, <<"octet", "pid">>, <<"octet", "pid">>)
         /\ FieldAt(m, 11, 8, 9, <<"octet", "dcs">>, <<"octet", "dcs">>)
         /\ FieldAt(m, 11, 9, 10, <<"time", "time">>, <<"time", "time">>)
         /\ FieldAt(m, 11, 10, 11, <<"data", "text">>, <<"data", "text">>)
<1>1. Writes[m.type] = NetworkDelivers /\ Reads[m.type] = DeliverReads
  BY DEF Writes, Reads
<1>2. Len(NetworkDelivers) = 11 /\ Len(DeliverReads) = 11 /\ 11 \in Nat
  BY DEF NetworkDelivers, DeliverReads
<1>3. /\ NetworkDelivers[1] = <<"bit", "more">>
      /\ NetworkDelivers[2] = <<"spare", "">>
      /\ NetworkDelivers[3] = <<"spare", "">>
      /\ NetworkDelivers[4] = <<"bit", "report">>
      /\ NetworkDelivers[5] = <<"has", "header">>
      /\ NetworkDelivers[6] = <<"bit", "reply">>
      /\ NetworkDelivers[7] = <<"sender", "address">>
      /\ NetworkDelivers[8] = <<"octet", "pid">>
      /\ NetworkDelivers[9] = <<"octet", "dcs">>
      /\ NetworkDelivers[10] = <<"time", "time">>
      /\ NetworkDelivers[11] = <<"data", "text">>
  BY DEF NetworkDelivers, Spare
<1>4. /\ DeliverReads[1] = <<"bit", "more">>
      /\ DeliverReads[2] = <<"spare", "">>
      /\ DeliverReads[3] = <<"spare", "">>
      /\ DeliverReads[4] = <<"bit", "report">>
      /\ DeliverReads[5] = <<"has", "header">>
      /\ DeliverReads[6] = <<"bit", "reply">>
      /\ DeliverReads[7] = <<"address", "address">>
      /\ DeliverReads[8] = <<"octet", "pid">>
      /\ DeliverReads[9] = <<"octet", "dcs">>
      /\ DeliverReads[10] = <<"time", "time">>
      /\ DeliverReads[11] = <<"data", "text">>
  BY DEF DeliverReads, Spare
<1>5. /\ 1 \in 1 .. 11 /\ 0 = 1 - 1 /\ 2 \in 1 .. 11 /\ 1 = 2 - 1 /\ 3 \in 1 .. 11 /\ 2 = 3 - 1
      /\ 4 \in 1 .. 11 /\ 3 = 4 - 1 /\ 5 \in 1 .. 11 /\ 4 = 5 - 1 /\ 6 \in 1 .. 11 /\ 5 = 6 - 1
      /\ 7 \in 1 .. 11 /\ 6 = 7 - 1 /\ 8 \in 1 .. 11 /\ 7 = 8 - 1 /\ 9 \in 1 .. 11 /\ 8 = 9 - 1
      /\ 10 \in 1 .. 11 /\ 9 = 10 - 1 /\ 11 \in 1 .. 11 /\ 10 = 11 - 1
  OBVIOUS
<1>6. Lengths(m, 11)
  BY ONLY <1>1, <1>2, Zenon DEF Lengths
<1>7. QED BY ONLY <1>1, <1>3, <1>4, <1>5, <1>6, Zenon DEF FieldAt

LEMMA DeliverFollowed ==
  ASSUME NEW m, Complete(m), m.type = "deliver", Follows(m, 0, {}, {"sca", "type"})
  PROVE  AllFollowed(m)
<1> DEFINE s0 == {"sca", "type"}
           h0 == {}
           s1 == s0 \cup {"more"}
           s2 == s1 \cup {"report"}
           h1 == h0 \cup ({"header"} \cap DOMAIN m)
           s3 == s2 \cup {"reply"}
           s4 == s3 \cup {"address"}
           s5 == s4 \cup {"pid"}
           s6 == s5 \cup {"dcs"}
           s7 == s6 \cup {"time"}
           s8 == (s7 \cup ({"header"} \cap DOMAIN m)) \cup {"text"}
<1>1. /\ {"more", "reply", "report", "address", "pid", "time", "dcs", "text"} \subseteq DOMAIN m
      /\ {"sca", "type"} \subseteq DOMAIN m
      /\ DOMAIN m \subseteq {"sca", "type"} \cup DeliverFields
  BY DEF Complete, AllFields, Fields, MayLack, DeliverFields, DataFields
<1>2. Follows(m, 1, h0, s1)
  <2>1. Carried(m, <<"bit", "more">>, <<"bit", "more">>, h0, s0, h0, s1)
    BY <1>1, BitCarried, Zenon
  <2>2. FieldAt(m, 11, 0, 1, <<"bit", "more">>, <<"bit", "more">>)
    BY DeliverAt, Zenon
  <2>3. QED BY ONLY Follows(m, 0, {}, {"sca", "type"}), <2>1, <2>2, FollowsNext
<1>3. Follows(m, 2, h0, s1)
  <2>1. Carried(m, <<"spare", "">>, <<"spare", "">>, h0, s1, h0, s1)
    BY <1>1, SpareCarried, Zenon
  <2>2. FieldAt(m, 11, 1, 2, <<"spare", "">>, <<"spare", "">>)
    BY DeliverAt, Zenon
  <2>3. PICK w, r : FieldAt(m, 11, 1, 2, w, r) /\ Carried(m, w, r, h0, s1, h0, s1)
    BY ONLY <2>1, <2>2, Zenon
  <2>4. QED BY ONLY <1>2, <2>3, FollowsNext
<1>4. Follows(m, 3, h0, s1)
  <2>1. Carried(m, <<"spare", "">>, <<"spare", "">>, h0, s1, h0, s1)
    BY <1>1, SpareCarried, Zenon
  <2>2. FieldAt(m, 11, 2, 3, <<"spare", "">>, <<"spare", "">>)
    BY DeliverAt, Zenon
  <2>3. PICK w, r : FieldAt(m, 11, 2, 3, w, r) /\ Carried(m, w, r, h0, s1, h0, s1)
    BY ONLY <2>1, <2>2, Zenon
  <2>4. QED BY ONLY <1>3, <2>3, FollowsNext
<1>5. Follows(m, 4, h0, s2)
  <2>1. Carried(m, <<"bit", "report">>, <<"bit", "report">>, h0, s1, h0, s2)
    BY <1>1, BitCarried, Zenon
  <2>2. FieldAt(m, 11, 3, 4, <<"bit", "report">>, <<"bit", "report">>)
    BY DeliverAt, Zenon
  <2>3. QED BY ONLY <1>4, <2>1, <2>2, FollowsNext
<1>6. Follows(m, 5, h1, s2)
  <2>1. Carried(m, <<"has", "header">>, <<"has", "header">>, h0, s2, h1, s2)
    BY <1>1, HasCarried, Zenon
  <2>2. FieldAt(m, 11, 4, 5, <<"has", "header">>, <<"has", "header">>)
    BY DeliverAt, Zenon
  <2>3. QED BY ONLY <1>5, <2>1, <2>2, FollowsNext
<1>7. Follows(m, 6, h1, s3)
  <2>1. Carried(m, <<"bit", "reply">>, <<"bit", "reply">>, h1, s2, h1, s3)
    BY <1>1, BitCarried, Zenon
  <2>2. FieldAt(m, 11, 5, 6, <<"bit", "reply">>, <<"bit", "reply">>)
    BY DeliverAt, Zenon
  <2>3. QED BY ONLY <1>6, <2>1, <2>2, FollowsNext
<1>8. Follows(m, 7, h1, s4)
  <2>1. Carried(m, <<"sender", "address">>, <<"address", "address">>, h1, s3, h1, s4)
    BY <1>1, SenderCarried, Zenon
  <2>2. FieldAt(m, 11, 6, 7, <<"sender", "address">>, <<"address", "address">>)
    BY DeliverAt, Zenon
  <2>3. QED BY ONLY <1>7, <2>1, <2>2, FollowsNext
<1>9. Follows(m, 8, h1, s5)
  <2>1. Carried(m, <<"octet", "pid">>, <<"octet", "pid">>, h1, s4, h1, s5)
    BY <1>1, OctetCarried, Zenon
  <2>2. FieldAt(m, 11, 7, 8, <<"octet", "pid">>, <<"octet", "pid">>)
    BY DeliverAt, Zenon
  <2>3. QED BY ONLY <1>8, <2>1, <2>2, FollowsNext
<1>10. Follows(m, 9, h1, s6)
  <2>1. Carried(m, <<"octet", "dcs">>, <<"octet", "dcs">>, h1, s5, h1, s6)
    BY <1>1, OctetCarried, Zenon
  <2>2. FieldAt(m, 11, 8, 9, <<"octet", "dcs">>, <<"octet", "dcs">>)
    BY DeliverAt, Zenon
  <2>3. QED BY ONLY <1>9, <2>1, <2>2, FollowsNext
<1>11. Follows(m, 10, h1, s7)
  <2>1. Carried(m, <<"time", "time">>, <<"time", "time">>, h1, s6, h1, s7)
    BY <1>1, TimeCarried, Zenon
  <2>2. FieldAt(m, 11, 9, 10, <<"time", "time">>, <<"time", "time">>)
    BY DeliverAt, Zenon
  <2>3. QED BY ONLY <1>10, <2>1, <2>2, FollowsNext
<1>12. Follows(m, 11, h1, s8)
  <2>1. /\ "header" \in h1 <=> "header" \in DOMAIN m
        /\ "dcs" \in s7 <=> "dcs" \in DOMAIN m
        /\ "header" \notin s7
    BY <1>1
  <2>2. Carried(m, <<"data", "text">>, <<"data", "text">>, h1, s7, h1, s8)
    BY <1>1, <2>1, TextCarried, Zenon
  <2>3. FieldAt(m, 11, 10, 11, <<"data", "text">>, <<"data", "text">>)
    BY DeliverAt, Zenon
  <2>4. QED BY ONLY <1>11, <2>2, <2>3, FollowsNext
<1>13. s8 = DOMAIN m
  BY <1>1 DEF DeliverFields, DataFields
<1>14. QED BY <1>12, <1>13, DeliverAt, Zenon DEF AllFollowed

LEMMA SubmitAt ==
  ASSUME NEW m, m.type = "submit"
  PROVE  /\ Lengths(m, 11)
         /\ FieldAt(m, 11, 0, 1, <<"bit", "reject">>, <<"bit", "reject">>)
         /\ FieldAt(m, 11, 1, 2, <<"2 bits", "format">>, <<"2 bits", "format">>)
         /\ FieldAt(m, 11, 2, 3, <<"bit", "report">>, <<"bit", "report">>)
         /\ FieldAt(m, 11, 3, 4, <<"has", "header">>, <<"has", "header">>)
         /\ FieldAt(m, 11, 4, 5, <<"bit", "reply">>, <<"bit", "reply">>)
         /\ FieldAt(m, 11, 5, 6, <<"octet", "reference">>, <<"octet", "reference">>)
         /\ FieldAt(m, 11, 6, 7, <<"address", "address">>, <<"address", "address">>)
         /\ FieldAt(m, 11, 7, 8, <<"octet", "pid">>, <<"octet", "pid">>)
         /\ FieldAt(m, 11, 8, 9, <<"octet", "dcs">>, <<"octet", "dcs">>)
         /\ FieldAt(m, 11, 9, 10, <<"period", "validity">>, <<"period", "validity">>)
         /\ FieldAt(m, 11, 10, 11, <<"data", "text">>, <<"data", "text">>)
<1>1. Writes[m.type] = SubmitWrites /\ Reads[m.type] = SubmitReads
  BY DEF Writes, Reads
<1>2. Len(SubmitWrites) = 11 /\ Len(SubmitReads) = 11 /\ 11 \in Nat
  BY DEF SubmitWrites, SubmitReads
<1>3. /\ SubmitWrites[1] = <<"bit", "reject">>
      /\ SubmitWrites[2] = <<"2 bits", "format">>
      /\ SubmitWrites[3] = <<"bit", "report">>
      /\ SubmitWrites[4] = <<"has", "header">>
      /\ SubmitWrites[5] = <<"bit", "reply">>
      /\ SubmitWrites[6] = <<"octet", "reference">>
      /\ SubmitWrites[7] = <<"address", "address">>
      /\ SubmitWrites[8] = <<"octet", "pid">>
      /\ SubmitWrites[9] = <<"octet", "dcs">>
      /\ SubmitWrites[10] = <<"period", "validity">>
      /\ SubmitWrites[11] = <<"data", "text">>
  BY DEF SubmitWrites, Spare
<1>4. /\ SubmitReads[1] = <<"bit", "reject">>
      /\ SubmitReads[2] = <<"2 bits", "format">>
      /\ SubmitReads[3] = <<"bit", "report">>
      /\ SubmitReads[4] = <<"has", "header">>
      /\ SubmitReads[5] = <<"bit", "reply">>
      /\ SubmitReads[6] = <<"octet", "reference">>
      /\ SubmitReads[7] = <<"address", "address">>
      /\ SubmitReads[8] = <<"octet", "pid">>
      /\ SubmitReads[9] = <<"octet", "dcs">>
      /\ SubmitReads[10] = <<"period", "validity">>
      /\ SubmitReads[11] = <<"data", "text">>
  BY DEF SubmitReads, Spare
<1>5. /\ 1 \in 1 .. 11 /\ 0 = 1 - 1 /\ 2 \in 1 .. 11 /\ 1 = 2 - 1 /\ 3 \in 1 .. 11 /\ 2 = 3 - 1
      /\ 4 \in 1 .. 11 /\ 3 = 4 - 1 /\ 5 \in 1 .. 11 /\ 4 = 5 - 1 /\ 6 \in 1 .. 11 /\ 5 = 6 - 1
      /\ 7 \in 1 .. 11 /\ 6 = 7 - 1 /\ 8 \in 1 .. 11 /\ 7 = 8 - 1 /\ 9 \in 1 .. 11 /\ 8 = 9 - 1
      /\ 10 \in 1 .. 11 /\ 9 = 10 - 1 /\ 11 \in 1 .. 11 /\ 10 = 11 - 1
  OBVIOUS
<1>6. Lengths(m, 11)
  BY ONLY <1>1, <1>2, Zenon DEF Lengths
<1>7. QED BY ONLY <1>1, <1>3, <1>4, <1>5, <1>6, Zenon DEF FieldAt

LEMMA SubmitFollowed ==
  ASSUME NEW m, Complete(m), m.type = "submit", Follows(m, 0, {}, {"sca", "type"})
  PROVE  AllFollowed(m)
<1> DEFINE s0 == {"sca", "type"}
           h0 == {}
           s1 == s0 \cup {"reject"}
           s2 == s1 \cup {"format"}
           s3 == s2 \cup {"report"}
           h1 == h0 \cup ({"header"} \cap DOMAIN m)
           s4 == s3 \cup {"reply"}
           s5 == s4 \cup {"reference"}
           s6 == s5 \cup {"address"}
           s7 == s6 \cup {"pid"}
           s8 == s7 \cup {"dcs"}
           s9 == s8 \cup {"validity"}
           s10 == (s9 \cup ({"header"} \cap DOMAIN m)) \cup {"text"}
<1>1. /\ {"reject", "format", "reply", "report", "reference", "address", "pid", "validity", "dcs", "text"} \subseteq DOMAIN m
      /\ {"sca", "type"} \subseteq DOMAIN m
      /\ DOMAIN m \subseteq {"sca", "type"} \cup SubmitFields
      /\ m["format"] = m["validity"].format
  BY DEF Complete, AllFields, Fields, MayLack, SubmitFields, DataFields
<1>2. Follows(m, 1, h0, s1)
  <2>1. Carried(m, <<"bit", "reject">>, <<"bit", "reject">>, h0, s0, h0, s1)
    BY <1>1, BitCarried, Zenon
  <2>2. FieldAt(m, 11, 0, 1, <<"bit", "reject">>, <<"bit", "reject">>)
    BY SubmitAt, Zenon
  <2>3. QED BY ONLY Follows(m, 0, {}, {"sca", "type"}), <2>1, <2>2, FollowsNext
<1>3. Follows(m, 2, h0, s2)
  <2>1. Carried(m, <<"2 bits", "format">>, <<"2 bits", "format">>, h0, s1, h0, s2)
    BY <1>1, TwoBitsCarried, Zenon
  <2>2. FieldAt(m, 11, 1, 2, <<"2 bits", "format">>, <<"2 bits", "format">>)
    BY SubmitAt, Zenon
  <2>3. PICK w, r : FieldAt(m, 11, 1, 2, w, r) /\ Carried(m, w, r, h0, s1, h0, s2)
    BY ONLY <2>1, <2>2, Zenon
  <2>4. QED BY ONLY <1>2, <2>3, FollowsNext
<1>4. Follows(m, 3, h0, s3)
  <2>1. Carried(m, <<"bit", "report">>, <<"bit", "report">>, h0, s2, h0, s3)
    BY <1>1, BitCarried, Zenon
  <2>2. FieldAt(m, 11, 2, 3, <<"bit", "report">>, <<"bit", "report">>)
    BY SubmitAt, Zenon
  <2>3. QED BY ONLY <1>3, <2>1, <2>2, FollowsNext
<1>5. Follows(m, 4, h1, s3)
  <2>1. Carried(m, <<"has", "header">>, <<"has", "header">>, h0, s3, h1, s3)
    BY <1>1, HasCarried, Zenon
  <2>2. FieldAt(m, 11, 3, 4, <<"has", "header">>, <<"has", "header">>)
    BY SubmitAt, Zenon
  <2>3. QED BY ONLY <1>4, <2>1, <2>2, FollowsNext
<1>6. Follows(m, 5, h1, s4)
  <2>1. Carried(m, <<"bit", "reply">>, <<"bit", "reply">>, h1, s3, h1, s4)
    BY <1>1, BitCarried, Zenon
  <2>2. FieldAt(m, 11, 4, 5, <<"bit", "reply">>, <<"bit", "reply">>)
    BY SubmitAt, Zenon
  <2>3. QED BY ONLY <1>5, <2>1, <2>2, FollowsNext
<1>7. Follows(m, 6, h1, s5)
  <2>1. Carried(m, <<"octet", "reference">>, <<"octet", "reference">>, h1, s4, h1, s5)
    BY <1>1, OctetCarried, Zenon
  <2>2. FieldAt(m, 11, 5, 6, <<"octet", "reference">>, <<"octet", "reference">>)
    BY SubmitAt, Zenon
  <2>3. QED BY ONLY <1>6, <2>1, <2>2, FollowsNext
<1>8. Follows(m, 7, h1, s6)
  <2>1. Carried(m, <<"address", "address">>, <<"address", "address">>, h1, s5, h1, s6)
    BY <1>1, AddressCarried, Zenon
  <2>2. FieldAt(m, 11, 6, 7, <<"address", "address">>, <<"address", "address">>)
    BY SubmitAt, Zenon
  <2>3. QED BY ONLY <1>7, <2>1, <2>2, FollowsNext
<1>9. Follows(m, 8, h1, s7)
  <2>1. Carried(m, <<"octet", "pid">>, <<"octet", "pid">>, h1, s6, h1, s7)
    BY <1>1, OctetCarried, Zenon
  <2>2. FieldAt(m, 11, 7, 8, <<"octet", "pid">>, <<"octet", "pid">>)
    BY SubmitAt, Zenon
  <2>3. QED BY ONLY <1>8, <2>1, <2>2, FollowsNext
<1>10. Follows(m, 9, h1, s8)
  <2>1. Carried(m, <<"octet", "dcs">>, <<"octet", "dcs">>, h1, s7, h1, s8)
    BY <1>1, OctetCarried, Zenon
  <2>2. FieldAt(m, 11, 8, 9, <<"octet", "dcs">>, <<"octet", "dcs">>)
    BY SubmitAt, Zenon
  <2>3. QED BY ONLY <1>9, <2>1, <2>2, FollowsNext
<1>11. Follows(m, 10, h1, s9)
  <2>1. "format" \in s8
    OBVIOUS
  <2>2. Carried(m, <<"period", "validity">>, <<"period", "validity">>, h1, s8, h1, s9)
    BY <1>1, <2>1, PeriodCarried, Zenon
  <2>3. FieldAt(m, 11, 9, 10, <<"period", "validity">>, <<"period", "validity">>)
    BY SubmitAt, Zenon
  <2>4. QED BY ONLY <1>10, <2>2, <2>3, FollowsNext
<1>12. Follows(m, 11, h1, s10)
  <2>1. /\ "header" \in h1 <=> "header" \in DOMAIN m
        /\ "dcs" \in s9 <=> "dcs" \in DOMAIN m
        /\ "header" \notin s9
    BY <1>1
  <2>2. Carried(m, <<"data", "text">>, <<"data", "text">>, h1, s9, h1, s10)
    BY <1>1, <2>1, TextCarried, Zenon
  <2>3. FieldAt(m, 11, 10, 11, <<"data", "text">>, <<"data", "text">>)
    BY SubmitAt, Zenon
  <2>4. QED BY ONLY <1>11, <2>2, <2>3, FollowsNext
<1>13. s10 = DOMAIN m
  BY <1>1 DEF SubmitFields, DataFields
<1>14. QED BY <1>12, <1>13, SubmitAt, Zenon DEF AllFollowed

LEMMA StatusReportAt ==
  ASSUME NEW m, m.type = "status"
  PROVE  /\ Lengths(m, 9)
         /\ FieldAt(m, 9, 0, 1, <<"bit", "more">>, <<"bit", "more">>)
         /\ FieldAt(m, 9, 1, 2, <<"spare", "">>, <<"spare", "">>)
         /\ FieldAt(m, 9, 2, 3, <<"spare", "">>, <<"spare", "">>)
         /\ FieldAt(m, 9, 3, 4, <<"bit", "qualifier">>, <<"bit", "qualifier">>)
         /\ FieldAt(m, 9, 4, 5, <<"octet", "reference">>, <<"octet", "reference">>)
         /\ FieldAt(m, 9, 5, 6, <<"address", "address">>, <<"address", "address">>)
         /\ FieldAt(m, 9, 6, 7, <<"time", "time">>, <<"time", "time">>)
         /\ FieldAt(m, 9, 7, 8, <<"time", "discharge">>, <<"time", "discharge">>)
         /\ FieldAt(m, 9, 8, 9, <<"octet", "status">>, <<"octet", "status">>)
<1>1. Writes[m.type] = StatusReportWrites /\ Reads[m.type] = StatusReportReads
  BY DEF Writes, Reads
<1>2. Len(StatusReportWrites) = 9 /\ Len(StatusReportReads) = 9 /\ 9 \in Nat
  BY DEF StatusReportWrites, StatusReportReads
<1>3. /\ StatusReportWrites[1] = <<"bit", "more">>
      /\ StatusReportWrites[2] = <<"spare", "">>
      /\ StatusReportWrites[3] = <<"spare", "">>
      /\ StatusReportWrites[4] = <<"bit", "qualifier">>
      /\ StatusReportWrites[5] = <<"octet", "reference">>
      /\ StatusReportWrites[6] = <<"address", "address">>
      /\ StatusReportWrites[7] = <<"time", "time">>
      /\ StatusReportWrites[8] = <<"time", "discharge">>
      /\ StatusReportWrites[9] = <<"octet", "status">>
  BY DEF StatusReportWrites, Spare
<1>4. /\ StatusReportReads[1] = <<"bit", "more">>
      /\ StatusReportReads[2] = <<"spare", "">>
      /\ StatusReportReads[3] = <<"spare", "">>
      /\ StatusReportReads[4] = <<"bit", "qualifier">>
      /\ StatusReportReads[5] = <<"octet", "reference">>
      /\ StatusReportReads[6] = <<"address", "address">>
      /\ StatusReportReads[7] = <<"time", "time">>
      /\ StatusReportReads[8] = <<"time", "discharge">>
      /\ StatusReportReads[9] = <<"octet", "status">>
  BY DEF StatusReportReads, Spare
<1>5. /\ 1 \in 1 .. 9 /\ 0 = 1 - 1 /\ 2 \in 1 .. 9 /\ 1 = 2 - 1 /\ 3 \in 1 .. 9 /\ 2 = 3 - 1
      /\ 4 \in 1 .. 9 /\ 3 = 4 - 1 /\ 5 \in 1 .. 9 /\ 4 = 5 - 1 /\ 6 \in 1 .. 9 /\ 5 = 6 - 1
      /\ 7 \in 1 .. 9 /\ 6 = 7 - 1 /\ 8 \in 1 .. 9 /\ 7 = 8 - 1 /\ 9 \in 1 .. 9 /\ 8 = 9 - 1
  OBVIOUS
<1>6. Lengths(m, 9)
  BY ONLY <1>1, <1>2, Zenon DEF Lengths
<1>7. QED BY ONLY <1>1, <1>3, <1>4, <1>5, <1>6, Zenon DEF FieldAt

LEMMA StatusReportFollowed ==
  ASSUME NEW m, Complete(m), m.type = "status", Follows(m, 0, {}, {"sca", "type"})
  PROVE  AllFollowed(m)
<1> DEFINE s0 == {"sca", "type"}
           h0 == {}
           s1 == s0 \cup {"more"}
           s2 == s1 \cup {"qualifier"}
           s3 == s2 \cup {"reference"}
           s4 == s3 \cup {"address"}
           s5 == s4 \cup {"time"}
           s6 == s5 \cup {"discharge"}
           s7 == s6 \cup {"status"}
<1>1. /\ {"more", "qualifier", "reference", "address", "time", "discharge", "status"} \subseteq DOMAIN m
      /\ {"sca", "type"} \subseteq DOMAIN m
      /\ DOMAIN m \subseteq {"sca", "type"} \cup StatusReportFields
  BY DEF Complete, AllFields, Fields, MayLack, StatusReportFields
<1>2. Follows(m, 1, h0, s1)
  <2>1. Carried(m, <<"bit", "more">>, <<"bit", "more">>, h0, s0, h0, s1)
    BY <1>1, BitCarried, Zenon
  <2>2. FieldAt(m, 9, 0, 1, <<"bit", "more">>, <<"bit", "more">>)
    BY StatusReportAt, Zenon
  <2>3. QED BY ONLY Follows(m, 0, {}, {"sca", "type"}), <2>1, <2>2, FollowsNext
<1>3. Follows(m, 2, h0, s1)
  <2>1. Carried(m, <<"spare", "">>, <<"spare", "">>, h0, s1, h0, s1)
    BY <1>1, SpareCarried, Zenon
  <2>2. FieldAt(m, 9, 1, 2, <<"spare", "">>, <<"spare", "">>)
    BY StatusReportAt, Zenon
  <2>3. PICK w, r : FieldAt(m, 9, 1, 2, w, r) /\ Carried(m, w, r, h0, s1, h0, s1)
    BY ONLY <2>1, <2>2, Zenon
  <2>4. QED BY ONLY <1>2, <2>3, FollowsNext
<1>4. Follows(m, 3, h0, s1)
  <2>1. Carried(m, <<"spare", "">>, <<"spare", "">>, h0, s1, h0, s1)
    BY <1>1, SpareCarried, Zenon
  <2>2. FieldAt(m, 9, 2, 3, <<"spare", "">>, <<"spare", "">>)
    BY StatusReportAt, Zenon
  <2>3. PICK w, r : FieldAt(m, 9, 2, 3, w, r) /\ Carried(m, w, r, h0, s1, h0, s1)
    BY ONLY <2>1, <2>2, Zenon
  <2>4. QED BY ONLY <1>3, <2>3, FollowsNext
<1>5. Follows(m, 4, h0, s2)
  <2>1. Carried(m, <<"bit", "qualifier">>, <<"bit", "qualifier">>, h0, s1, h0, s2)
    BY <1>1, BitCarried, Zenon
  <2>2. FieldAt(m, 9, 3, 4, <<"bit", "qualifier">>, <<"bit", "qualifier">>)
    BY StatusReportAt, Zenon
  <2>3. QED BY ONLY <1>4, <2>1, <2>2, FollowsNext
<1>6. Follows(m, 5, h0, s3)
  <2>1. Carried(m, <<"octet", "reference">>, <<"octet", "reference">>, h0, s2, h0, s3)
    BY <1>1, OctetCarried, Zenon
  <2>2. FieldAt(m, 9, 4, 5, <<"octet", "reference">>, <<"octet", "reference">>)
    BY StatusReportAt, Zenon
  <2>3. QED BY ONLY <1>5, <2>1, <2>2, FollowsNext
<1>7. Follows(m, 6, h0, s4)
  <2>1. Carried(m, <<"address", "address">>, <<"address", "address">>, h0, s3, h0, s4)
    BY <1>1, AddressCarried, Zenon
  <2>2. FieldAt(m, 9, 5, 6, <<"address", "address">>, <<"address", "address">>)
    BY StatusReportAt, Zenon
  <2>3. QED BY ONLY <1>6, <2>1, <2>2, FollowsNext
<1>8. Follows(m, 7, h0, s5)
  <2>1. Carried(m, <<"time", "time">>, <<"time", "time">>, h0, s4, h0, s5)
    BY <1>1, TimeCarried, Zenon
  <2>2. FieldAt(m, 9, 6, 7, <<"time", "time">>, <<"time", "time">>)
    BY StatusReportAt, Zenon
  <2>3. QED BY ONLY <1>7, <2>1, <2>2, FollowsNext
<1>9. Follows(m, 8, h0, s6)
  <2>1. Carried(m, <<"time", "discharge">>, <<"time", "discharge">>, h0, s5, h0, s6)
    BY <1>1, TimeCarried, Zenon
  <2>2. FieldAt(m, 9, 7, 8, <<"time", "discharge">>, <<"time", "discharge">>)
    BY StatusReportAt, Zenon
  <2>3. QED BY ONLY <1>8, <2>1, <2>2, FollowsNext
<1>10. Follows(m, 9, h0, s7)
  <2>1. Carried(m, <<"octet", "status">>, <<"octet", "status">>, h0, s6, h0, s7)
    BY <1>1, OctetCarried, Zenon
  <2>2. FieldAt(m, 9, 8, 9, <<"octet", "status">>, <<"octet", "status">>)
    BY StatusReportAt, Zenon
  <2>3. QED BY ONLY <1>9, <2>1, <2>2, FollowsNext
<1>11. s7 = DOMAIN m
  BY <1>1 DEF StatusReportFields
<1>12. QED BY <1>10, <1>11, StatusReportAt, Zenon DEF AllFollowed

LEMMA CommandAt ==
  ASSUME NEW m, m.type = "command"
  PROVE  /\ Lengths(m, 10)
         /\ FieldAt(m, 10, 0, 1, <<"spare", "">>, <<"spare", "">>)
         /\ FieldAt(m, 10, 1, 2, <<"spare", "">>, <<"spare", "">>)
         /\ FieldAt(m, 10, 2, 3, <<"spare", "">>, <<"spare", "">>)
         /\ FieldAt(m, 10, 3, 4, <<"bit", "report">>, <<"bit", "report">>)
         /\ FieldAt(m, 10, 4, 5, <<"octet", "reference">>, <<"octet", "reference">>)
         /\ FieldAt(m, 10, 5, 6, <<"octet", "pid">>, <<"octet", "pid">>)
         /\ FieldAt(m, 10, 6, 7, <<"octet", "command">>, <<"octet", "command">>)
         /\ FieldAt(m, 10, 7, 8, <<"octet", "message">>, <<"octet", "message">>)
         /\ FieldAt(m, 10, 8, 9, <<"address", "address">>, <<"address", "address">>)
         /\ FieldAt(m, 10, 9, 10, <<"octets", "data">>, <<"dropped", "data">>)
<1>1. Writes[m.type] = CommandWrites /\ Reads[m.type] = CommandReads
  BY DEF Writes, Reads
<1>2. Len(CommandWrites) = 10 /\ Len(CommandReads) = 10 /\ 10 \in Nat
  BY DEF CommandWrites, CommandReads
<1>3. /\ CommandWrites[1] = <<"spare", "">>
      /\ CommandWrites[2] = <<"spare", "">>
      /\ CommandWrites[3] = <<"spare", "">>
      /\ CommandWrites[4] = <<"bit", "report">>
      /\ CommandWrites[5] = <<"octet", "reference">>
      /\ CommandWrites[6] = <<"octet", "pid">>
      /\ CommandWrites[7] = <<"octet", "command">>
      /\ CommandWrites[8] = <<"octet", "message">>
      /\ CommandWrites[9] = <<"address", "address">>
      /\ CommandWrites[10] = <<"octets", "data">>
  BY DEF CommandWrites, Spare
<1>4. /\ CommandReads[1] = <<"spare", "">>
      /\ CommandReads[2] = <<"spare", "">>
      /\ CommandReads[3] = <<"spare", "">>
      /\ CommandReads[4] = <<"bit", "report">>
      /\ CommandReads[5] = <<"octet", "reference">>
      /\ CommandReads[6] = <<"octet", "pid">>
      /\ CommandReads[7] = <<"octet", "command">>
      /\ CommandReads[8] = <<"octet", "message">>
      /\ CommandReads[9] = <<"address", "address">>
      /\ CommandReads[10] = <<"dropped", "data">>
  BY DEF CommandReads, Spare
<1>5. /\ 1 \in 1 .. 10 /\ 0 = 1 - 1 /\ 2 \in 1 .. 10 /\ 1 = 2 - 1 /\ 3 \in 1 .. 10 /\ 2 = 3 - 1
      /\ 4 \in 1 .. 10 /\ 3 = 4 - 1 /\ 5 \in 1 .. 10 /\ 4 = 5 - 1 /\ 6 \in 1 .. 10 /\ 5 = 6 - 1
      /\ 7 \in 1 .. 10 /\ 6 = 7 - 1 /\ 8 \in 1 .. 10 /\ 7 = 8 - 1 /\ 9 \in 1 .. 10 /\ 8 = 9 - 1
      /\ 10 \in 1 .. 10 /\ 9 = 10 - 1
  OBVIOUS
<1>6. Lengths(m, 10)
  BY ONLY <1>1, <1>2, Zenon DEF Lengths
<1>7. QED BY ONLY <1>1, <1>3, <1>4, <1>5, <1>6, Zenon DEF FieldAt

LEMMA CommandFollowed ==
  ASSUME NEW m, Complete(m), m.type = "command", Follows(m, 0, {}, {"sca", "type"})
  PROVE  AllFollowed(m)
<1> DEFINE s0 == {"sca", "type"}
           h0 == {}
           s1 == s0 \cup {"report"}
           s2 == s1 \cup {"reference"}
           s3 == s2 \cup {"pid"}
           s4 == s3 \cup {"command"}
           s5 == s4 \cup {"message"}
           s6 == s5 \cup {"address"}
           s7 == s6 \cup {"data"}
<1>1. /\ {"reference", "report", "pid", "command", "message", "address", "data"} \subseteq DOMAIN m
      /\ {"sca", "type"} \subseteq DOMAIN m
      /\ DOMAIN m \subseteq {"sca", "type"} \cup CommandFields
  BY DEF Complete, AllFields, Fields, MayLack, CommandFields
<1>2. Follows(m, 1, h0, s0)
  <2>1. Carried(m, <<"spare", "">>, <<"spare", "">>, h0, s0, h0, s0)
    BY <1>1, SpareCarried, Zenon
  <2>2. FieldAt(m, 10, 0, 1, <<"spare", "">>, <<"spare", "">>)
    BY CommandAt, Zenon
  <2>3. PICK w, r : FieldAt(m, 10, 0, 1, w, r) /\ Carried(m, w, r, h0, s0, h0, s0)
    BY ONLY <2>1, <2>2, Zenon
  <2>4. QED BY ONLY Follows(m, 0, {}, {"sca", "type"}), <2>3, FollowsNext
<1>3. Follows(m, 2, h0, s0)
  <2>1. Carried(m, <<"spare", "">>, <<"spare", "">>, h0, s0, h0, s0)
    BY <1>1, SpareCarried, Zenon
  <2>2. FieldAt(m, 10, 1, 2, <<"spare", "">>, <<"spare", "">>)
    BY CommandAt, Zenon
  <2>3. PICK w, r : FieldAt(m, 10, 1, 2, w, r) /\ Carried(m, w, r, h0, s0, h0, s0)
    BY ONLY <2>1, <2>2, Zenon
  <2>4. QED BY ONLY <1>2, <2>3, FollowsNext
<1>4. Follows(m, 3, h0, s0)
  <2>1. Carried(m, <<"spare", "">>, <<"spare", "">>, h0, s0, h0, s0)
    BY <1>1, SpareCarried, Zenon
  <2>2. FieldAt(m, 10, 2, 3, <<"spare", "">>, <<"spare", "">>)
    BY CommandAt, Zenon
  <2>3. PICK w, r : FieldAt(m, 10, 2, 3, w, r) /\ Carried(m, w, r, h0, s0, h0, s0)
    BY ONLY <2>1, <2>2, Zenon
  <2>4. QED BY ONLY <1>3, <2>3, FollowsNext
<1>5. Follows(m, 4, h0, s1)
  <2>1. Carried(m, <<"bit", "report">>, <<"bit", "report">>, h0, s0, h0, s1)
    BY <1>1, BitCarried, Zenon
  <2>2. FieldAt(m, 10, 3, 4, <<"bit", "report">>, <<"bit", "report">>)
    BY CommandAt, Zenon
  <2>3. QED BY ONLY <1>4, <2>1, <2>2, FollowsNext
<1>6. Follows(m, 5, h0, s2)
  <2>1. Carried(m, <<"octet", "reference">>, <<"octet", "reference">>, h0, s1, h0, s2)
    BY <1>1, OctetCarried, Zenon
  <2>2. FieldAt(m, 10, 4, 5, <<"octet", "reference">>, <<"octet", "reference">>)
    BY CommandAt, Zenon
  <2>3. QED BY ONLY <1>5, <2>1, <2>2, FollowsNext
<1>7. Follows(m, 6, h0, s3)
  <2>1. Carried(m, <<"octet", "pid">>, <<"octet", "pid">>, h0, s2, h0, s3)
    BY <1>1, OctetCarried, Zenon
  <2>2. FieldAt(m, 10, 5, 6, <<"octet", "pid">>, <<"octet", "pid">>)
    BY CommandAt, Zenon
  <2>3. QED BY ONLY <1>6, <2>1, <2>2, FollowsNext
<1>8. Follows(m, 7, h0, s4)
  <2>1. Carried(m, <<"octet", "command">>, <<"octet", "command">>, h0, s3, h0, s4)
    BY <1>1, OctetCarried, Zenon
  <2>2. FieldAt(m, 10, 6, 7, <<"octet", "command">>, <<"octet", "command">>)
    BY CommandAt, Zenon
  <2>3. QED BY ONLY <1>7, <2>1, <2>2, FollowsNext
<1>9. Follows(m, 8, h0, s5)
  <2>1. Carried(m, <<"octet", "message">>, <<"octet", "message">>, h0, s4, h0, s5)
    BY <1>1, OctetCarried, Zenon
  <2>2. FieldAt(m, 10, 7, 8, <<"octet", "message">>, <<"octet", "message">>)
    BY CommandAt, Zenon
  <2>3. QED BY ONLY <1>8, <2>1, <2>2, FollowsNext
<1>10. Follows(m, 9, h0, s6)
  <2>1. Carried(m, <<"address", "address">>, <<"address", "address">>, h0, s5, h0, s6)
    BY <1>1, AddressCarried, Zenon
  <2>2. FieldAt(m, 10, 8, 9, <<"address", "address">>, <<"address", "address">>)
    BY CommandAt, Zenon
  <2>3. QED BY ONLY <1>9, <2>1, <2>2, FollowsNext
<1>11. Follows(m, 10, h0, s7)
  <2>1. Carried(m, <<"octets", "data">>, <<"dropped", "data">>, h0, s6, h0, s7)
    BY <1>1, DataCarried, Zenon
  <2>2. FieldAt(m, 10, 9, 10, <<"octets", "data">>, <<"dropped", "data">>)
    BY CommandAt, Zenon
  <2>3. QED BY ONLY <1>10, <2>1, <2>2, FollowsNext
<1>12. s7 = DOMAIN m
  BY <1>1 DEF CommandFields
<1>13. QED BY <1>11, <1>12, CommandAt, Zenon DEF AllFollowed

LEMMA DeliverReportAt ==
  ASSUME NEW m, m.type = "deliverReport"
  PROVE  /\ Lengths(m, 7)
         /\ FieldAt(m, 7, 0, 1, <<"align", "">>, <<"align", "">>)
         /\ FieldAt(m, 7, 1, 2, <<"has", "pid">>, <<"has", "pid">>)
         /\ FieldAt(m, 7, 2, 3, <<"has", "dcs">>, <<"has", "dcs">>)
         /\ FieldAt(m, 7, 3, 4, <<"has", "text">>, <<"has", "text">>)
         /\ FieldAt(m, 7, 4, 5, <<"octet if", "pid">>, <<"octet if", "pid">>)
         /\ FieldAt(m, 7, 5, 6, <<"octet if", "dcs">>, <<"octet if", "dcs">>)
         /\ FieldAt(m, 7, 6, 7, <<"data if", "text">>, <<"data if", "text">>)
<1>1. Writes[m.type] = NetworkDeliverReport /\ Reads[m.type] = DeliverReportReads
  BY DEF Writes, Reads
<1>2. Len(NetworkDeliverReport) = 7 /\ Len(DeliverReportReads) = 7 /\ 7 \in Nat
  BY DEF NetworkDeliverReport, DeliverReportReads
<1>3. /\ NetworkDeliverReport[1] = <<"align", "">>
      /\ NetworkDeliverReport[2] = <<"has", "pid">>
      /\ NetworkDeliverReport[3] = <<"has", "dcs">>
      /\ NetworkDeliverReport[4] = <<"has", "text">>
      /\ NetworkDeliverReport[5] = <<"octet if", "pid">>
      /\ NetworkDeliverReport[6] = <<"octet if", "dcs">>
      /\ NetworkDeliverReport[7] = <<"data if", "text">>
  BY DEF NetworkDeliverReport, Spare
<1>4. /\ DeliverReportReads[1] = <<"align", "">>
      /\ DeliverReportReads[2] = <<"has", "pid">>
      /\ DeliverReportReads[3] = <<"has", "dcs">>
      /\ DeliverReportReads[4] = <<"has", "text">>
      /\ DeliverReportReads[5] = <<"octet if", "pid">>
      /\ DeliverReportReads[6] = <<"octet if", "dcs">>
      /\ DeliverReportReads[7] = <<"data if", "text">>
  BY DEF DeliverReportReads, Spare
<1>5. /\ 1 \in 1 .. 7 /\ 0 = 1 - 1 /\ 2 \in 1 .. 7 /\ 1 = 2 - 1 /\ 3 \in 1 .. 7 /\ 2 = 3 - 1
      /\ 4 \in 1 .. 7 /\ 3 = 4 - 1 /\ 5 \in 1 .. 7 /\ 4 = 5 - 1 /\ 6 \in 1 .. 7 /\ 5 = 6 - 1
      /\ 7 \in 1 .. 7 /\ 6 = 7 - 1
  OBVIOUS
<1>6. Lengths(m, 7)
  BY ONLY <1>1, <1>2, Zenon DEF Lengths
<1>7. QED BY ONLY <1>1, <1>3, <1>4, <1>5, <1>6, Zenon DEF FieldAt

LEMMA DeliverReportFollowed ==
  ASSUME NEW m, Complete(m), m.type = "deliverReport", Follows(m, 0, {}, {"sca", "type"})
  PROVE  AllFollowed(m)
<1> DEFINE s0 == {"sca", "type"}
           h0 == {}
           h1 == h0 \cup ({"pid"} \cap DOMAIN m)
           h2 == h1 \cup ({"dcs"} \cap DOMAIN m)
           h3 == h2 \cup ({"text"} \cap DOMAIN m)
           s1 == s0 \cup ({"pid"} \cap DOMAIN m)
           s2 == s1 \cup ({"dcs"} \cap DOMAIN m)
           s3 == s2 \cup ({"text"} \cap DOMAIN m)
<1>1. /\ {"sca", "type"} \subseteq DOMAIN m
      /\ DOMAIN m \subseteq {"sca", "type"} \cup DeliverReportFields
  BY DEF Complete, AllFields, Fields, MayLack, DeliverReportFields
<1>2. Follows(m, 1, h0, s0)
  <2>1. Carried(m, <<"align", "">>, <<"align", "">>, h0, s0, h0, s0)
    BY <1>1, AlignCarried, Zenon
  <2>2. FieldAt(m, 7, 0, 1, <<"align", "">>, <<"align", "">>)
    BY DeliverReportAt, Zenon
  <2>3. PICK w, r : FieldAt(m, 7, 0, 1, w, r) /\ Carried(m, w, r, h0, s0, h0, s0)
    BY ONLY <2>1, <2>2, Zenon
  <2>4. QED BY ONLY Follows(m, 0, {}, {"sca", "type"}), <2>3, FollowsNext
<1>3. Follows(m, 2, h1, s0)
  <2>1. Carried(m, <<"has", "pid">>, <<"has", "pid">>, h0, s0, h1, s0)
    BY <1>1, HasCarried, Zenon
  <2>2. FieldAt(m, 7, 1, 2, <<"has", "pid">>, <<"has", "pid">>)
    BY DeliverReportAt, Zenon
  <2>3. QED BY ONLY <1>2, <2>1, <2>2, FollowsNext
<1>4. Follows(m, 3, h2, s0)
  <2>1. Carried(m, <<"has", "dcs">>, <<"has", "dcs">>, h1, s0, h2, s0)
    BY <1>1, HasCarried, Zenon
  <2>2. FieldAt(m, 7, 2, 3, <<"has", "dcs">>, <<"has", "dcs">>)
    BY DeliverReportAt, Zenon
  <2>3. QED BY ONLY <1>3, <2>1, <2>2, FollowsNext
<1>5. Follows(m, 4, h3, s0)
  <2>1. Carried(m, <<"has", "text">>, <<"has", "text">>, h2, s0, h3, s0)
    BY <1>1, HasCarried, Zenon
  <2>2. FieldAt(m, 7, 3, 4, <<"has", "text">>, <<"has", "text">>)
    BY DeliverReportAt, Zenon
  <2>3. QED BY ONLY <1>4, <2>1, <2>2, FollowsNext
<1>6. Follows(m, 5, h3, s1)
  <2>1. "pid" \in {"pid", "dcs"} /\ ("pid" \in h3 <=> "pid" \in DOMAIN m)
    OBVIOUS
  <2>2. Carried(m, <<"octet if", "pid">>, <<"octet if", "pid">>, h3, s0, h3, s1)
    BY <1>1, <2>1, OctetIfCarried, Zenon
  <2>3. FieldAt(m, 7, 4, 5, <<"octet if", "pid">>, <<"octet if", "pid">>)
    BY DeliverReportAt, Zenon
  <2>4. PICK w, r : FieldAt(m, 7, 4, 5, w, r) /\ Carried(m, w, r, h3, s0, h3, s1)
    BY ONLY <2>2, <2>3, Zenon
  <2>5. QED BY ONLY <1>5, <2>4, FollowsNext
<1>7. Follows(m, 6, h3, s2)
  <2>1. "dcs" \in {"pid", "dcs"} /\ ("dcs" \in h3 <=> "dcs" \in DOMAIN m)
    OBVIOUS
  <2>2. Carried(m, <<"octet if", "dcs">>, <<"octet if", "dcs">>, h3, s1, h3, s2)
    BY <1>1, <2>1, OctetIfCarried, Zenon
  <2>3. FieldAt(m, 7, 5, 6, <<"octet if", "dcs">>, <<"octet if", "dcs">>)
    BY DeliverReportAt, Zenon
  <2>4. PICK w, r : FieldAt(m, 7, 5, 6, w, r) /\ Carried(m, w, r, h3, s1, h3, s2)
    BY ONLY <2>2, <2>3, Zenon
  <2>5. QED BY ONLY <1>6, <2>4, FollowsNext
<1>8. Follows(m, 7, h3, s3)
  <2>1. /\ "header" \notin h3 /\ "header" \notin s2 /\ "header" \notin DOMAIN m
        /\ "text" \in h3 <=> "text" \in DOMAIN m
        /\ "dcs" \in s2 <=> "dcs" \in DOMAIN m
    BY <1>1 DEF DeliverReportFields
  <2>2. Carried(m, <<"data if", "text">>, <<"data if", "text">>, h3, s2, h3, s3)
    BY <1>1, <2>1, TextIfCarried, Zenon
  <2>3. FieldAt(m, 7, 6, 7, <<"data if", "text">>, <<"data if", "text">>)
    BY DeliverReportAt, Zenon
  <2>4. PICK w, r : FieldAt(m, 7, 6, 7, w, r) /\ Carried(m, w, r, h3, s2, h3, s3)
    BY ONLY <2>2, <2>3, Zenon
  <2>5. QED BY ONLY <1>7, <2>4, FollowsNext
<1>9. s3 = DOMAIN m
  BY <1>1 DEF DeliverReportFields
<1>10. QED BY <1>8, <1>9, DeliverReportAt, Zenon DEF AllFollowed

LEMMA SubmitReportAt ==
  ASSUME NEW m, m.type = "submitReport"
  PROVE  /\ Lengths(m, 7)
         /\ FieldAt(m, 7, 0, 1, <<"time", "time">>, <<"time", "time">>)
         /\ FieldAt(m, 7, 1, 2, <<"has", "pid">>, <<"has", "pid">>)
         /\ FieldAt(m, 7, 2, 3, <<"has", "dcs">>, <<"has", "dcs">>)
         /\ FieldAt(m, 7, 3, 4, <<"has", "text">>, <<"has", "text">>)
         /\ FieldAt(m, 7, 4, 5, <<"octet if", "pid">>, <<"octet if", "pid">>)
         /\ FieldAt(m, 7, 5, 6, <<"octet if", "dcs">>, <<"octet if", "dcs">>)
         /\ FieldAt(m, 7, 6, 7, <<"data if", "text">>, <<"data if", "text">>)
<1>1. Writes[m.type] = NetworkSubmitReport /\ Reads[m.type] = SubmitReportReads
  BY DEF Writes, Reads
<1>2. Len(NetworkSubmitReport) = 7 /\ Len(SubmitReportReads) = 7 /\ 7 \in Nat
  BY DEF NetworkSubmitReport, SubmitReportReads
<1>3. /\ NetworkSubmitReport[1] = <<"time", "time">>
      /\ NetworkSubmitReport[2] = <<"has", "pid">>
      /\ NetworkSubmitReport[3] = <<"has", "dcs">>
      /\ NetworkSubmitReport[4] = <<"has", "text">>
      /\ NetworkSubmitReport[5] = <<"octet if", "pid">>
      /\ NetworkSubmitReport[6] = <<"octet if", "dcs">>
      /\ NetworkSubmitReport[7] = <<"data if", "text">>
  BY DEF NetworkSubmitReport, Spare
<1>4. /\ SubmitReportReads[1] = <<"time", "time">>
      /\ SubmitReportReads[2] = <<"has", "pid">>
      /\ SubmitReportReads[3] = <<"has", "dcs">>
      /\ SubmitReportReads[4] = <<"has", "text">>
      /\ SubmitReportReads[5] = <<"octet if", "pid">>
      /\ SubmitReportReads[6] = <<"octet if", "dcs">>
      /\ SubmitReportReads[7] = <<"data if", "text">>
  BY DEF SubmitReportReads, Spare
<1>5. /\ 1 \in 1 .. 7 /\ 0 = 1 - 1 /\ 2 \in 1 .. 7 /\ 1 = 2 - 1 /\ 3 \in 1 .. 7 /\ 2 = 3 - 1
      /\ 4 \in 1 .. 7 /\ 3 = 4 - 1 /\ 5 \in 1 .. 7 /\ 4 = 5 - 1 /\ 6 \in 1 .. 7 /\ 5 = 6 - 1
      /\ 7 \in 1 .. 7 /\ 6 = 7 - 1
  OBVIOUS
<1>6. Lengths(m, 7)
  BY ONLY <1>1, <1>2, Zenon DEF Lengths
<1>7. QED BY ONLY <1>1, <1>3, <1>4, <1>5, <1>6, Zenon DEF FieldAt

LEMMA SubmitReportFollowed ==
  ASSUME NEW m, Complete(m), m.type = "submitReport", Follows(m, 0, {}, {"sca", "type"})
  PROVE  AllFollowed(m)
<1> DEFINE s0 == {"sca", "type"}
           h0 == {}
           s1 == s0 \cup {"time"}
           h1 == h0 \cup ({"pid"} \cap DOMAIN m)
           h2 == h1 \cup ({"dcs"} \cap DOMAIN m)
           h3 == h2 \cup ({"text"} \cap DOMAIN m)
           s2 == s1 \cup ({"pid"} \cap DOMAIN m)
           s3 == s2 \cup ({"dcs"} \cap DOMAIN m)
           s4 == s3 \cup ({"text"} \cap DOMAIN m)
<1>1. /\ {"time"} \subseteq DOMAIN m
      /\ {"sca", "type"} \subseteq DOMAIN m
      /\ DOMAIN m \subseteq {"sca", "type"} \cup SubmitReportFields
  BY DEF Complete, AllFields, Fields, MayLack, SubmitReportFields
<1>2. Follows(m, 1, h0, s1)
  <2>1. Carried(m, <<"time", "time">>, <<"time", "time">>, h0, s0, h0, s1)
    BY <1>1, TimeCarried, Zenon
  <2>2. FieldAt(m, 7, 0, 1, <<"time", "time">>, <<"time", "time">>)
    BY SubmitReportAt, Zenon
  <2>3. QED BY ONLY Follows(m, 0, {}, {"sca", "type"}), <2>1, <2>2, FollowsNext
<1>3. Follows(m, 2, h1, s1)
  <2>1. Carried(m, <<"has", "pid">>, <<"has", "pid">>, h0, s1, h1, s1)
    BY <1>1, HasCarried, Zenon
  <2>2. FieldAt(m, 7, 1, 2, <<"has", "pid">>, <<"has", "pid">>)
    BY SubmitReportAt, Zenon
  <2>3. QED BY ONLY <1>2, <2>1, <2>2, FollowsNext
<1>4. Follows(m, 3, h2, s1)
  <2>1. Carried(m, <<"has", "dcs">>, <<"has", "dcs">>, h1, s1, h2, s1)
    BY <1>1, HasCarried, Zenon
  <2>2. FieldAt(m, 7, 2, 3, <<"has", "dcs">>, <<"has", "dcs">>)
    BY SubmitReportAt, Zenon
  <2>3. QED BY ONLY <1>3, <2>1, <2>2, FollowsNext
<1>5. Follows(m, 4, h3, s1)
  <2>1. Carried(m, <<"has", "text">>, <<"has", "text">>, h2, s1, h3, s1)
    BY <1>1, HasCarried, Zenon
  <2>2. FieldAt(m, 7, 3, 4, <<"has", "text">>, <<"has", "text">>)
    BY SubmitReportAt, Zenon
  <2>3. QED BY ONLY <1>4, <2>1, <2>2, FollowsNext
<1>6. Follows(m, 5, h3, s2)
  <2>1. "pid" \in {"pid", "dcs"} /\ ("pid" \in h3 <=> "pid" \in DOMAIN m)
    OBVIOUS
  <2>2. Carried(m, <<"octet if", "pid">>, <<"octet if", "pid">>, h3, s1, h3, s2)
    BY <1>1, <2>1, OctetIfCarried, Zenon
  <2>3. FieldAt(m, 7, 4, 5, <<"octet if", "pid">>, <<"octet if", "pid">>)
    BY SubmitReportAt, Zenon
  <2>4. PICK w, r : FieldAt(m, 7, 4, 5, w, r) /\ Carried(m, w, r, h3, s1, h3, s2)
    BY ONLY <2>2, <2>3, Zenon
  <2>5. QED BY ONLY <1>5, <2>4, FollowsNext
<1>7. Follows(m, 6, h3, s3)
  <2>1. "dcs" \in {"pid", "dcs"} /\ ("dcs" \in h3 <=> "dcs" \in DOMAIN m)
    OBVIOUS
  <2>2. Carried(m, <<"octet if", "dcs">>, <<"octet if", "dcs">>, h3, s2, h3, s3)
    BY <1>1, <2>1, OctetIfCarried, Zenon
  <2>3. FieldAt(m, 7, 5, 6, <<"octet if", "dcs">>, <<"octet if", "dcs">>)
    BY SubmitReportAt, Zenon
  <2>4. PICK w, r : FieldAt(m, 7, 5, 6, w, r) /\ Carried(m, w, r, h3, s2, h3, s3)
    BY ONLY <2>2, <2>3, Zenon
  <2>5. QED BY ONLY <1>6, <2>4, FollowsNext
<1>8. Follows(m, 7, h3, s4)
  <2>1. /\ "header" \notin h3 /\ "header" \notin s3 /\ "header" \notin DOMAIN m
        /\ "text" \in h3 <=> "text" \in DOMAIN m
        /\ "dcs" \in s3 <=> "dcs" \in DOMAIN m
    BY <1>1 DEF SubmitReportFields
  <2>2. Carried(m, <<"data if", "text">>, <<"data if", "text">>, h3, s3, h3, s4)
    BY <1>1, <2>1, TextIfCarried, Zenon
  <2>3. FieldAt(m, 7, 6, 7, <<"data if", "text">>, <<"data if", "text">>)
    BY SubmitReportAt, Zenon
  <2>4. PICK w, r : FieldAt(m, 7, 6, 7, w, r) /\ Carried(m, w, r, h3, s3, h3, s4)
    BY ONLY <2>2, <2>3, Zenon
  <2>5. QED BY ONLY <1>7, <2>4, FollowsNext
<1>9. s4 = DOMAIN m
  BY <1>1 DEF SubmitReportFields
<1>10. QED BY <1>8, <1>9, SubmitReportAt, Zenon DEF AllFollowed

-----------------------------------------------------------------------------
(* Whole messages.                                                          *)
PutAs(M, S, x, y, T) == Put(OnlyOf(M, S), x, y) = OnlyOf(M, T)

LEMMA PutMore ==
  ASSUME NEW M, NEW S, NEW x, NEW y, y = M[x]
  PROVE  PutAs(M, S, x, y, S \cup {x})
<1>1. PICK g : g = OnlyOf(M, S)
  OBVIOUS
<1>2. DOMAIN g = S /\ \A z \in S : g[z] = M[z]
  BY ONLY <1>1, Zenon DEF OnlyOf
<1>3. Put(g, x, y) = [z \in S \cup {x} |-> IF z = x THEN y ELSE g[z]]
  BY ONLY <1>2, Zenon DEF Put
<1>4. \A z \in S \cup {x} : (IF z = x THEN y ELSE g[z]) = M[z]
  BY ONLY <1>2, y = M[x], Zenon
<1>5. Put(g, x, y) = OnlyOf(M, S \cup {x})
  BY ONLY <1>3, <1>4, Zenon DEF OnlyOf
<1>6. QED BY ONLY <1>1, <1>5, Zenon DEF PutAs

NewWriter == [bits |-> <<>>, mark |-> 0]

LEMMA NewWriterIs ==
  NewWriter \in Writers /\ Len(NewWriter.bits) = 0 /\ NewWriter.bits = <<>> /\ NewWriter.mark = 0
<1>1. <<>> \in Seq(Bit) /\ Len(<<>>) = 0
  OBVIOUS
<1>2. NewWriter.bits = <<>> /\ NewWriter.mark = 0
  BY ONLY Zenon DEF NewWriter
<1>3. NewWriter \in Writers
  BY <1>1 DEF NewWriter, Writers
<1>4. QED BY ONLY <1>1, <1>2, <1>3, Zenon

LEMMA NewReaderIs ==
  ASSUME NEW B, NEW M
  PROVE  NewDecoder(B) = In(B, NewWriter, 0, {}, OnlyOf(M, {}))
<1>1. <<>> = OnlyOf(M, {})
  BY DEF OnlyOf
<1>2. Len(NewWriter.bits) = 0 /\ NewWriter.mark = 0
  BY NewWriterIs
<1>3. In(B, NewWriter, 0, {}, <<>>) = Reader(B, 0, 0, 0, {}, <<>>)
  BY ONLY <1>2, Zenon DEF In
<1>4. NewDecoder(B) = Reader(B, 0, 0, 0, {}, <<>>)
  BY ONLY Zenon DEF NewDecoder, Reader
<1>5. QED BY ONLY <1>1, <1>3, <1>4, Zenon

(* The address of the centre and the code.                                  *)
OpenedBy(m, k) ==
  \A B \in Seq(Bit) : Begins(B, k.bits) =>
    GetBits(Keep(GetAddress(NewDecoder(B), TRUE), "sca"), 2)
      = In(B, k, TypeCode[m.type], {}, OnlyOf(Meant(m), {"sca"}))

LEMMA CentreWritten ==
  ASSUME NEW m, Complete(m)
  PROVE  \E f \in Writers : /\ f = ScAddress(m) /\ Extends(NewWriter, f)
                            /\ AddressRead(NewWriter, f, m["sca"], TRUE)
<1>1. PICK a : a = m["sca"] /\ a \in Addresses(TRUE)
  BY ValuesTyped, Zenon DEF Addresses
<1>2. TRUE \in BOOLEAN /\ NewWriter \in Writers
  BY NewWriterIs
<1>3. PICK f \in Writers : /\ f = NetworkAddress(NewWriter, a, TRUE) /\ Extends(NewWriter, f)
                           /\ AddressRead(NewWriter, f, a, TRUE)
  BY <1>1, <1>2, AnAddressRead, Zenon
<1>4. f = ScAddress(m)
  BY ONLY <1>1, <1>3, DialledAlike, Zenon DEF ScAddress, NewWriter
<1>5. QED BY ONLY <1>1, <1>3, <1>4, f \in Writers, Zenon

LEMMA OpeningRead ==
  ASSUME NEW m, Complete(m)
  PROVE  \E k \in Writers :
           /\ k = SetBits(ScAddress(m), Bits(TypeCode[m.type], 2))
           /\ Extends(ScAddress(m), k) /\ OpenedBy(m, k)
<1>1. PICK f \in Writers : /\ f = ScAddress(m) /\ Extends(NewWriter, f)
                           /\ AddressRead(NewWriter, f, m["sca"], TRUE)
  BY CentreWritten, Zenon
<1>2. PICK code \in 0 .. 2 : code = TypeCode[m.type]
  <2>1. m.type \in DOMAIN Fields
    BY ValuesTyped, Zenon
  <2>2. DOMAIN Fields = {"deliver", "submit", "status", "command", "deliverReport", "submitReport"}
    BY DEF Fields
  <2>3. TypeCode[m.type] \in 0 .. 2
    BY ONLY <2>1, <2>2 DEF TypeCode
  <2>4. QED BY ONLY <2>3, Zenon
<1>3. 2 \in Sizes /\ Fits(code, 2)
  BY DEF Sizes, Fits, Weights
<1>4. PICK k \in Writers : k = SetBits(f, Bits(code, 2)) /\ Extends(f, k) /\ NumberIn(f, k, 2, code)
  BY <1>3, NumberWritten, Zenon
<1>5. PICK a : a = m["sca"] /\ a = Meant(m)["sca"]
  <2>1. "sca" \in DOMAIN m
    BY Zenon DEF Complete, AllFields
  <2>2. "sca" # "text"
    OBVIOUS
  <2>3. QED BY <2>1, <2>2, MeantParts, Zenon
<1>6. ASSUME NEW B \in Seq(Bit), Begins(B, k.bits)
      PROVE  GetBits(Keep(GetAddress(NewDecoder(B), TRUE), "sca"), 2)
               = In(B, k, code, {}, OnlyOf(Meant(m), {"sca"}))
  <2>1. Begins(B, f.bits)
    BY ONLY <1>4, <1>6, B \in Seq(Bit), Zenon DEF Extends
  <2>2. PICK g : g = OnlyOf(Meant(m), {}) /\ NewDecoder(B) = In(B, NewWriter, 0, {}, g)
    BY ONLY NewReaderIs, Zenon
  <2>3. \A v, h1, g1 : GetAddress(In(B, NewWriter, v, h1, g1), TRUE) = In(B, f, a, h1, g1)
    BY ONLY <1>1, <1>5, <2>1, B \in Seq(Bit), Zenon DEF AddressRead
  <2>4. GetAddress(NewDecoder(B), TRUE) = In(B, f, a, {}, g)
    BY ONLY <2>2, <2>3, Zenon
  <2>5. KeptAs(Meant(m), {}, "sca", a, {} \cup {"sca"})
    BY ONLY <1>5, KeptMore, Zenon
  <2>6. \A e, h : Keep(In(B, e, a, h, OnlyOf(Meant(m), {})), "sca")
                    = In(B, e, a, h, OnlyOf(Meant(m), {} \cup {"sca"}))
    BY ONLY <2>5, Zenon DEF KeptAs
  <2>7. {} \cup {"sca"} = {"sca"}
    OBVIOUS
  <2>8. Keep(In(B, f, a, {}, g), "sca") = In(B, f, a, {}, OnlyOf(Meant(m), {"sca"}))
    BY ONLY <2>2, <2>6, <2>7, Zenon
  <2>9. \A v, h1, g1 : GetBits(In(B, f, v, h1, g1), 2) = In(B, k, code, h1, g1)
    BY ONLY <1>4, <1>6, B \in Seq(Bit), Zenon DEF NumberIn
  <2>10. GetBits(In(B, f, a, {}, OnlyOf(Meant(m), {"sca"})), 2) = In(B, k, code, {}, OnlyOf(Meant(m), {"sca"}))
    BY ONLY <2>9, Zenon
  <2>11. QED BY ONLY <2>4, <2>8, <2>10, Zenon
<1>7. OpenedBy(m, k)
  BY ONLY <1>2, <1>6, Zenon DEF OpenedBy
<1>8. QED BY ONLY <1>1, <1>2, <1>4, <1>7, k \in Writers, Zenon

LEMMA AllRead ==
  ASSUME NEW m, Complete(m)
  PROVE  /\ AllFollowed(m) /\ Written(m)[0] = SetBits(ScAddress(m), Bits(TypeCode[m.type], 2))
         /\ Extends(ScAddress(m), Written(m)[0]) /\ OpenedBy(m, Written(m)[0])
<1>1. PICK k \in Writers : /\ k = SetBits(ScAddress(m), Bits(TypeCode[m.type], 2))
                           /\ Extends(ScAddress(m), k) /\ OpenedBy(m, k)
  BY OpeningRead, Zenon
<1>2. m.type \in {"deliver", "submit", "status", "command", "deliverReport", "submitReport"}
  <2>1. m.type \in DOMAIN Fields
    BY ValuesTyped, Zenon
  <2>2. QED BY ONLY <2>1 DEF Fields
<1>3. PICK N : Lengths(m, N)
  BY <1>2, DeliverAt, SubmitAt, StatusReportAt, CommandAt, DeliverReportAt, SubmitReportAt, Zenon
<1>4. Written(m)[0] = k
  <2>1. N \in Nat /\ N = Len(Writes[m.type])
    BY ONLY <1>3, Zenon DEF Lengths
  <2>2. Written(m)[0] = SetBits(ScAddress(m), Bits(TypeCode[m.type], 2))
    BY ONLY <2>1, WrittenSteps, Zenon
  <2>3. QED BY ONLY <1>1, <2>2, Zenon
<1>5. Follows(m, 0, {}, {"sca", "type"})
  <2>1. Written(m)[0] \in Writers
    BY ONLY <1>4, k \in Writers, Zenon
  <2>2. QED BY ONLY <1>3, <2>1, FollowsFirst, Zenon
<1>6. AllFollowed(m)
  BY <1>2, <1>5, DeliverFollowed, SubmitFollowed, StatusReportFollowed, CommandFollowed,
     DeliverReportFollowed, SubmitReportFollowed, Zenon
<1>7. QED BY ONLY <1>1, <1>4, <1>6, Zenon

LEMMA EncodedWhole ==
  ASSUME NEW m, Complete(m)
  PROVE  \E B, N, H :
           /\ B \in Seq(Bit) /\ B = Encode(m) /\ Len(B) % 8 = 0
           /\ Lengths(m, N) /\ Follows(m, N, H, DOMAIN m) /\ Begins(B, Written(m)[N].bits)
<1>1. PICK N, H : Lengths(m, N) /\ Follows(m, N, H, DOMAIN m)
  BY AllRead, Zenon DEF AllFollowed
<1>2. PICK w \in Writers : w = Written(m)[N]
  BY ONLY <1>1, Zenon DEF Follows
<1>3. PICK f \in Writers : f = AlignOctet(w) /\ Extends(w, f) /\ Len(f.bits) % 8 = 0
  BY OctetAligned, Zenon
<1>4. N = Len(Writes[m.type])
  BY ONLY <1>1, Zenon DEF Lengths
<1>5. Encode(m) = f.bits
  BY ONLY <1>2, <1>3, <1>4, Zenon DEF Encode, HexString
<1>6. f.bits \in Seq(Bit)
  BY WriterParts
<1>7. Begins(f.bits, w.bits)
  BY ONLY <1>3, <1>6, BeginsWhole, Zenon DEF Extends
<1>8. QED BY ONLY <1>1, <1>2, <1>3, <1>5, <1>6, <1>7, Zenon

LEMMA MessageRead ==
  ASSUME NEW m, Complete(m), NEW fromSC, NEW wrong,
         TypeOf(TypeCode[m.type], fromSC, wrong) = m.type
  PROVE  /\ Decode(Encode(m), fromSC, wrong).ok
         /\ Decode(Encode(m), fromSC, wrong).msg = Meant(m)
<1>0. PICK B \in Seq(Bit) :
        \E N, H :
          /\ B \in Seq(Bit) /\ B = Encode(m) /\ Len(B) % 8 = 0
          /\ Lengths(m, N) /\ Follows(m, N, H, DOMAIN m) /\ Begins(B, Written(m)[N].bits)
  BY EncodedWhole, Zenon
<1>1. PICK N, H :
        /\ B \in Seq(Bit) /\ B = Encode(m) /\ Len(B) % 8 = 0
        /\ Lengths(m, N) /\ Follows(m, N, H, DOMAIN m) /\ Begins(B, Written(m)[N].bits)
  BY ONLY <1>0, Zenon
<1>2. PICK k : k = Written(m)[0] /\ OpenedBy(m, k)
  BY AllRead, Zenon
<1>3. Begins(B, k.bits)
  BY ONLY <1>1, <1>2, Zenon DEF Follows, Extends
<1>4. PICK d : /\ d = GetBits(Keep(GetAddress(NewDecoder(B), TRUE), "sca"), 2)
               /\ d = In(B, k, TypeCode[m.type], {}, OnlyOf(Meant(m), {"sca"}))
  BY ONLY <1>2, <1>3, <1>1, Zenon DEF OpenedBy
<1>5. d.ok /\ d.val = TypeCode[m.type] /\ d.msg = OnlyOf(Meant(m), {"sca"})
  <2>1. PICK code, g : code = TypeCode[m.type] /\ g = OnlyOf(Meant(m), {"sca"})
    OBVIOUS
  <2>2. d = In(B, k, code, {}, g)
    BY ONLY <1>4, <2>1, Zenon
  <2>3. d.ok /\ d.val = code /\ d.msg = g
    BY ONLY <2>2, ReaderOk
  <2>4. QED BY ONLY <2>1, <2>3, Zenon
<1>6. m.type # "unhandled" /\ Meant(m)["type"] = m.type
  <2>1. m.type \in DOMAIN Fields /\ "type" \in DOMAIN m
    BY ValuesTyped, Zenon DEF Complete, AllFields
  <2>2. m.type # "unhandled"
    BY ONLY <2>1 DEF Fields
  <2>3. "type" # "text" /\ m["type"] = m.type
    OBVIOUS
  <2>4. Meant(m)["type"] = m["type"]
    BY <2>1, <2>3, MeantParts, Zenon
  <2>5. QED BY ONLY <2>2, <2>3, <2>4, Zenon
<1>7. Put(d.msg, "type", m.type) = OnlyOf(Meant(m), {"sca", "type"})
  <2>1. Put(OnlyOf(Meant(m), {"sca"}), "type", m.type) = OnlyOf(Meant(m), {"sca"} \cup {"type"})
    <3>1. PutAs(Meant(m), {"sca"}, "type", m.type, {"sca"} \cup {"type"})
      BY ONLY <1>6, PutMore, Zenon
    <3>2. QED BY ONLY <3>1, Zenon DEF PutAs
  <2>2. {"sca"} \cup {"type"} = {"sca", "type"}
    OBVIOUS
  <2>3. QED BY ONLY <1>5, <2>1, <2>2, Zenon
<1>8. [d EXCEPT !.msg = Put(d.msg, "type", m.type)] = Opened(B, m)
  <2>1. PICK g : g = OnlyOf(Meant(m), {"sca", "type"})
    OBVIOUS
  <2>2. [d EXCEPT !.msg = g] = In(B, k, TypeCode[m.type], {}, g)
    <3>1. PICK code, h : code = TypeCode[m.type] /\ h = OnlyOf(Meant(m), {"sca"})
      OBVIOUS
    <3>2. d = In(B, k, code, {}, h)
      BY ONLY <1>4, <3>1, Zenon
    <3>3. [d EXCEPT !.msg = g] = In(B, k, code, {}, g)
      BY ONLY <3>2, ReaderMoves DEF In
    <3>4. QED BY ONLY <3>1, <3>3, Zenon
  <2>3. QED BY ONLY <1>2, <1>7, <2>1, <2>2, Zenon DEF Opened
<1>9. Decode(B, fromSC, wrong) = FromClass(d, m.type)
  <2>1. TypeOf(d.val, fromSC, wrong) = m.type
    BY <1>5
  <2>2. QED BY ONLY <1>4, <2>1, Zenon DEF Decode, FromCode
<1>10. FromClass(d, m.type) = ReadAll(Opened(B, m), Reads[m.type])[N]
  <2>1. N = Len(Reads[m.type])
    BY ONLY <1>1, Zenon DEF Lengths
  <2>2. QED BY ONLY <1>5, <1>6, <1>8, <2>1, Zenon DEF FromClass
<1>11. PICK v : ReadAll(Opened(B, m), Reads[m.type])[N] = In(B, Written(m)[N], v, H, OnlyOf(Meant(m), DOMAIN m))
  BY ONLY <1>1, Zenon DEF Follows
<1>12. OnlyOf(Meant(m), DOMAIN m) = Meant(m)
  BY MeantParts
<1>13. PICK r : r = Decode(Encode(m), fromSC, wrong) /\ r = In(B, Written(m)[N], v, H, Meant(m))
  BY ONLY <1>1, <1>9, <1>10, <1>11, <1>12, Zenon
<1>14. r.ok /\ r.msg = Meant(m)
  BY ONLY <1>13, ReaderOk
<1>15. QED BY ONLY <1>13, <1>14, Zenon

(* What is put back is what was left out.                                   *)
LEMMA CentrePutBack ==
  ASSUME NEW m, Complete(m), m.sca = NoSca
  PROVE  Whole(SubSeq(Encode(m), 9, Len(Encode(m))), FALSE) = Encode(m)
<1>0. PICK B \in Seq(Bit) :
        \E N, H :
          /\ B \in Seq(Bit) /\ B = Encode(m) /\ Len(B) % 8 = 0
          /\ Lengths(m, N) /\ Follows(m, N, H, DOMAIN m) /\ Begins(B, Written(m)[N].bits)
  BY EncodedWhole, Zenon
<1>1. PICK N, H :
        /\ B \in Seq(Bit) /\ B = Encode(m) /\ Len(B) % 8 = 0
        /\ Lengths(m, N) /\ Follows(m, N, H, DOMAIN m) /\ Begins(B, Written(m)[N].bits)
  BY ONLY <1>0, Zenon
<1>2. PICK s \in Seq(Bit) : s = Bits(0, 8) /\ s = BitsOf(<<0>>, 8) /\ Len(s) = 8
  <2>1. 8 \in Sizes
    BY DEF Sizes
  <2>2. QED BY <2>1, BitsAgain
<1>3. PICK e \in Writers : e = NewWriter /\ e.bits = <<>> /\ Len(e.bits) = 0
  BY NewWriterIs, Zenon
<1>4. ScAddress(m) = SetBits(e, s)
  <2>1. Len(e.bits) % 8 = 0
    BY ONLY <1>3
  <2>2. AlignOctet(e) = e
    BY <2>1, AlignedAlready, Zenon
  <2>3. SetAddress(e, NoSca, TRUE) = SetOctets(e, <<0>>)
    BY ONLY Zenon DEF SetAddress, SetSized, NoSca
  <2>4. ScAddress(m) = SetAddress(e, NoSca, TRUE)
    BY ONLY <1>3, m.sca = NoSca, Zenon DEF ScAddress, NewWriter
  <2>5. QED BY ONLY <1>2, <2>2, <2>3, <2>4, Zenon DEF SetOctets
<1>5. Begins(B, SetBits(e, s).bits)
  <2>1. Begins(B, Written(m)[0].bits)
    BY ONLY <1>1, Zenon DEF Follows, Extends
  <2>2. Extends(ScAddress(m), Written(m)[0])
    BY AllRead
  <2>3. Begins(B, ScAddress(m).bits)
    BY ONLY <2>1, <2>2, <1>1, Zenon DEF Extends
  <2>4. QED BY ONLY <1>4, <2>3, Zenon
<1>6. Begins(B, <<>> \o s)
  <2>1. SetBits(e, s).bits = <<>> \o s
    BY <1>3, BitsSet
  <2>2. QED BY ONLY <1>5, <2>1, Zenon
<1>7. 8 <= Len(B) /\ \A i \in 1 .. 8 : B[i] = s[i]
  <2>1. <<>> \in Seq(Bit) /\ Len(<<>>) = 0
    OBVIOUS
  <2>2. Carries(B, 0, s)
    BY <1>6, <2>1, BeginsApart
  <2>3. 0 + 8 <= Len(B) /\ \A i \in 1 .. 8 : B[0 + i] = s[i]
    BY ONLY <1>2, <2>2, Zenon DEF Carries
  <2>4. QED BY <2>3
<1>8. s \o SubSeq(B, 9, Len(B)) = B
  <2>1. PICK L \in Nat : L = Len(B) /\ 8 <= L
    BY <1>7, LenProperties
  <2>2. PICK t \in Seq(Bit) : t = SubSeq(B, 9, L) /\ Len(t) = L - 8 /\ \A i \in 1 .. L - 8 : t[i] = B[8 + i]
    <3>1. SubSeq(B, 9, L) \in Seq(Bit) /\ Len(SubSeq(B, 9, L)) = L - 8
      BY <2>1
    <3>2. \A i \in 1 .. L - 8 : SubSeq(B, 9, L)[i] = B[8 + i]
      BY <2>1
    <3>3. QED BY ONLY <3>1, <3>2, Zenon
  <2>3. /\ s \o t \in Seq(Bit) /\ Len(s \o t) = L
        /\ \A i \in 1 .. L : (s \o t)[i] = IF i <= 8 THEN s[i] ELSE t[i - 8]
    <3>1. s \o t \in Seq(Bit) /\ Len(s \o t) = Len(s) + Len(t)
      BY ConcatProperties
    <3>2. \A i \in 1 .. Len(s) + Len(t) : (s \o t)[i] = IF i <= Len(s) THEN s[i] ELSE t[i - Len(s)]
      BY ConcatProperties
    <3>3. Len(s) + Len(t) = L
      <4>1. 8 + (L - 8) = L
        BY ONLY L \in Nat
      <4>2. QED BY ONLY <1>2, <2>2, <4>1, Zenon
    <3>4. QED BY ONLY <1>2, <3>1, <3>2, <3>3, Zenon
  <2>4. \A i \in 1 .. L : (s \o t)[i] = B[i]
    <3> SUFFICES ASSUME NEW i \in 1 .. L PROVE (s \o t)[i] = B[i]
      OBVIOUS
    <3>1. CASE i <= 8
      <4>1. i \in 1 .. 8
        BY ONLY <3>1, i \in 1 .. L, L \in Nat
      <4>2. (s \o t)[i] = s[i]
        BY ONLY <2>3, <3>1, i \in 1 .. L, Zenon
      <4>3. B[i] = s[i]
        BY ONLY <1>7, <4>1, Zenon
      <4>4. QED BY ONLY <4>2, <4>3, Zenon
    <3>2. CASE ~ (i <= 8)
      <4>1. i - 8 \in 1 .. L - 8 /\ 8 + (i - 8) = i
        BY ONLY <3>2, <2>1, i \in 1 .. L, L \in Nat
      <4>2. QED BY ONLY <2>2, <2>3, <3>2, <4>1, i \in 1 .. L, Zenon
    <3>3. QED BY ONLY <3>1, <3>2
  <2>5. s \o t = B
    BY <2>1, <2>3, <2>4, SeqEqual
  <2>6. QED BY ONLY <2>1, <2>2, <2>5, Zenon
<1>9. QED BY ONLY <1>1, <1>2, <1>8, Zenon DEF Whole

(* What the modem is told of is all of the message.                          *)
LEMMA AllTaken ==
  ASSUME NEW m, Complete(m), m.sca = NoSca
  PROVE  SubSeq(Encode(m), 1, 8 * (Octets(ScAddress([sca |-> NoSca]).bits) + Announced(m))) = Encode(m)
<1>1. PICK B \in Seq(Bit) : B = Encode(m) /\ Len(B) % 8 = 0
  BY EncodedWhole, Zenon
<1>2. ScAddress([sca |-> NoSca]) = ScAddress(m)
  BY DEF ScAddress
<1>3. ScAddress(m).bits \in Seq(Bit)
  BY CentreWritten, WriterParts
<1>4. PICK c \in Int : c = Octets(ScAddress(m).bits)
  <2>1. PICK n \in Nat : n = Len(ScAddress(m).bits)
    BY <1>3, LenProperties
  <2>2. n \div 8 \in Int
    BY ONLY n \in Nat
  <2>3. QED BY ONLY <2>1, <2>2, Zenon DEF Octets
<1>5. PICK L \in Nat : L = Len(B)
  BY LenProperties
<1>6. Announced(m) = (L \div 8) - c
  BY ONLY <1>1, <1>4, <1>5, Zenon DEF Announced, Octets
<1>7. 8 * (c + ((L \div 8) - c)) = L
  <2>1. L % 8 = 0
    BY ONLY <1>1, <1>5, Zenon
  <2>2. QED BY ONLY <2>1, L \in Nat, c \in Int
<1>8. SubSeq(B, 1, L) = B
  BY <1>5
<1>9. QED BY ONLY <1>1, <1>2, <1>4, <1>6, <1>7, <1>8, Zenon

-----------------------------------------------------------------------------
(* What is under way was written for a complete message.                    *)
OutWire(number, text) ==
  [bits |-> Encode(SubmitMessage(number, text)), way |-> "out",
   meant |-> Meant(SubmitMessage(number, text)), announced |-> Announced(SubmitMessage(number, text))]
Received(m) == m.type \in {"deliver", "status", "submitReport"}
InWire(m, prefix, wrong) ==
  [bits |-> IF prefix THEN Encode(m) ELSE SubSeq(Encode(m), 9, Len(Encode(m))), prefix |-> prefix,
   way |-> IF m.type = "submitReport" THEN "answer" ELSE "in",
   fromSC |-> Received(m) \/ wrong, wrong |-> wrong, meant |-> Meant(m)]

PduUnderWay ==
  \/ pduWire = NoPdu
  \/ \E number \in PduNumbers, text \in PduTexts :
       Len(text) <= PduLongest /\ pduWire = OutWire(number, text)
  \/ \E m \in PduIncoming, prefix \in BOOLEAN, wrong \in BOOLEAN :
       /\ ~prefix => m.sca = NoSca
       /\ wrong => m.type \in {"deliver", "status", "submitReport", "submit"}
       /\ pduWire = InWire(m, prefix, wrong)
PduInv == PduUnderWay /\ PduReadAsMeant

LEMMA SubmitComplete ==
  ASSUME NEW number \in PduNumbers, NEW text \in PduTexts, Len(text) <= PduLongest
  PROVE  /\ Complete(SubmitMessage(number, text)) /\ SubmitMessage(number, text).type = "submit"
         /\ SubmitMessage(number, text).sca = NoSca
<1>1. number \in [plus : BOOLEAN, digits : Counted(0 .. 9)] /\ text \in Seq(Octet) /\ PduLongest \in Octet
  BY PduAssumption
<1>2. PICK a : a = Address(number)
  OBVIOUS
<1>3. a \in Dialled
  <2>1. number.digits \in Counted(0 .. 9)
    BY ONLY <1>1
  <2>2. PICK k \in {0, 1} : k = (IF number.plus THEN International ELSE Unknown)
    BY ONLY TRUE DEF International, Unknown
  <2>3. a = [type |-> k, plan |-> 1, number |-> number.digits]
    BY ONLY <1>2, <2>2, Zenon DEF Address
  <2>4. k \in (0 .. 7) \ {Alphanumeric} /\ 1 \in 0 .. 15
    BY DEF Alphanumeric
  <2>5. QED BY ONLY <2>1, <2>3, <2>4 DEF Dialled
<1>4. text \in Counted(Octet)
  <2>1. PICK n \in Nat : n = Len(text)
    BY <1>1, LenProperties
  <2>2. n \in Octet
    <3>1. PICK x \in 0 .. 255 : x = PduLongest
      BY ONLY <1>1, Zenon DEF Octet
    <3>2. n <= x
      BY <2>1, <3>1, Zenon
    <3>3. n \in 0 .. 255
      BY ONLY <3>2, n \in Nat, x \in 0 .. 255
    <3>4. QED BY ONLY <3>3, Zenon DEF Octet
  <2>3. QED BY ONLY <1>1, <2>1, <2>2, Zenon DEF Counted
<1>5. PICK p : p = [format |-> 2, relative |-> 168]
  OBVIOUS
<1>6. p \in Periods /\ p.format = 2
  BY <1>5 DEF Periods, Octet
<1>7. PICK m : m = SubmitMessage(number, text)
  OBVIOUS
<1>8. m = [type |-> "submit", sca |-> NoSca, reject |-> 1, format |-> 2, report |-> 0, reply |-> 0,
           reference |-> 0, address |-> a, pid |-> 0, dcs |-> 0, validity |-> p, text |-> text]
  BY ONLY <1>2, <1>5, <1>7, Zenon DEF SubmitMessage
<1>9. DOMAIN m = {"type", "sca", "reject", "format", "report", "reply", "reference", "address", "pid", "dcs",
                  "validity", "text"}
  BY ONLY <1>8
<1>10. /\ m["type"] = "submit" /\ m["sca"] = NoSca /\ m["reject"] = 1 /\ m["format"] = 2 /\ m["report"] = 0
       /\ m["reply"] = 0 /\ m["reference"] = 0 /\ m["address"] = a /\ m["pid"] = 0 /\ m["dcs"] = 0
       /\ m["validity"] = p /\ m["text"] = text
  BY ONLY <1>8
<1>11. m = [name \in DOMAIN m |-> m[name]]
  BY ONLY <1>8
<1>12. /\ FieldValues["type"] = DOMAIN Fields /\ FieldValues["sca"] = Centres
       /\ FieldValues["reject"] = 0 .. 1 /\ FieldValues["format"] = 0 .. 3 /\ FieldValues["report"] = 0 .. 1
       /\ FieldValues["reply"] = 0 .. 1 /\ FieldValues["reference"] = Octet
       /\ FieldValues["address"] = Dialled \cup Senders /\ FieldValues["pid"] = Octet
       /\ FieldValues["dcs"] = Octet /\ FieldValues["validity"] = Periods
       /\ FieldValues["text"] = Counted(Octet)
  BY ONLY Zenon DEF FieldValues
<1>13. /\ "submit" \in DOMAIN Fields /\ NoSca \in Centres /\ 0 \in 0 .. 1 /\ 1 \in 0 .. 1 /\ 2 \in 0 .. 3
       /\ 0 \in Octet
  BY DEF Fields, Centres, Octet
<1>14. \A name \in DOMAIN m : m[name] \in FieldValues[name]
  <2>1. /\ m["type"] \in FieldValues["type"] /\ m["sca"] \in FieldValues["sca"]
        /\ m["reject"] \in FieldValues["reject"] /\ m["format"] \in FieldValues["format"]
        /\ m["report"] \in FieldValues["report"] /\ m["reply"] \in FieldValues["reply"]
    BY ONLY <1>10, <1>12, <1>13, Zenon
  <2>2. /\ m["reference"] \in FieldValues["reference"] /\ m["address"] \in FieldValues["address"]
        /\ m["pid"] \in FieldValues["pid"] /\ m["dcs"] \in FieldValues["dcs"]
        /\ m["validity"] \in FieldValues["validity"] /\ m["text"] \in FieldValues["text"]
    BY ONLY <1>3, <1>4, <1>6, <1>10, <1>12, <1>13, Zenon
  <2>3. QED BY ONLY <1>9, <2>1, <2>2, Zenon
<1>15. m.type = "submit" /\ m.sca = NoSca /\ m.format = m.validity.format
  BY <1>6, <1>10
<1>16. Complete(m)
  <2>1. Fields[m.type] = SubmitFields /\ MayLack[m.type] = {"header"}
    BY ONLY <1>15 DEF Fields, MayLack
  <2>2. AllFields \subseteq DOMAIN m
    BY ONLY <1>9 DEF AllFields
  <2>3. SubmitFields \ {"header"} \subseteq DOMAIN m
    BY ONLY <1>9 DEF SubmitFields, DataFields
  <2>4. DOMAIN m \subseteq AllFields \cup SubmitFields
    BY ONLY <1>9 DEF AllFields, SubmitFields, DataFields
  <2>5. m.address \in Dialled
    BY ONLY <1>3, <1>10
  <2>6. QED BY ONLY <1>11, <1>13, <1>14, <1>15, <2>1, <2>2, <2>3, <2>4, <2>5, Zenon DEF Complete
<1>17. QED BY ONLY <1>7, <1>15, <1>16, Zenon

LEMMA SubmitTaken ==
  ASSUME NEW number \in PduNumbers, NEW text \in PduTexts, Len(text) <= PduLongest,
         pduWire = OutWire(number, text), PduNetworkTakes
  PROVE  PduReadAsMeant'
<1>1. PICK m : /\ m = SubmitMessage(number, text) /\ Complete(m)
               /\ m.type = "submit" /\ m.sca = NoSca
  BY SubmitComplete, Zenon
<1>2. pduWire.bits = Encode(m) /\ pduWire.announced = Announced(m) /\ pduWire.meant = Meant(m)
  <2>1. pduWire = [bits |-> Encode(m), way |-> "out", meant |-> Meant(m), announced |-> Announced(m)]
    BY <1>1, Zenon DEF OutWire
  <2>2. QED BY ONLY <2>1, Zenon
<1>3. PICK d : /\ d = Decode(SubSeq(pduWire.bits, 1,
                                    8 * (Octets(ScAddress([sca |-> NoSca]).bits) + pduWire.announced)),
                             FALSE, FALSE)
               /\ pduTrip' = [meant |-> pduWire.meant, read |-> IF d.ok THEN d.msg ELSE NoPdu]
  BY Zenon DEF PduNetworkTakes
<1>4. d = Decode(Encode(m), FALSE, FALSE)
  BY ONLY <1>1, <1>2, <1>3, AllTaken, Zenon
<1>5. TypeOf(TypeCode[m.type], FALSE, FALSE) = m.type
  BY ONLY <1>1 DEF TypeOf, TypeCode
<1>6. d.ok /\ d.msg = Meant(m)
  BY ONLY <1>1, <1>4, <1>5, MessageRead, Zenon
<1>7. pduTrip' = [meant |-> Meant(m), read |-> Meant(m)]
  BY ONLY <1>2, <1>3, <1>6, Zenon
<1>8. QED BY ONLY <1>7 DEF PduReadAsMeant

(* The direction of each class, as the phones tell it.                       *)
LEMMA DirectionRight ==
  ASSUME NEW m, Complete(m), NEW wrong \in BOOLEAN,
         wrong => m.type \in {"deliver", "status", "submitReport", "submit"}
  PROVE  TypeOf(TypeCode[m.type], Received(m) \/ wrong, wrong /\ m.type # "submitReport") = m.type
<1>1. m.type \in {"deliver", "submit", "status", "command", "deliverReport", "submitReport"}
  <2>1. m.type \in DOMAIN Fields
    BY ValuesTyped, Zenon
  <2>2. QED BY ONLY <2>1 DEF Fields
<1>2. PICK type : type = m.type
  OBVIOUS
<1>3. CASE type = "deliver"
  BY <1>2, <1>3 DEF TypeOf, TypeCode, Received
<1>4. CASE type = "submit"
  BY <1>2, <1>4 DEF TypeOf, TypeCode, Received
<1>5. CASE type = "status"
  BY <1>2, <1>5 DEF TypeOf, TypeCode, Received
<1>6. CASE type = "command"
  BY <1>2, <1>6 DEF TypeOf, TypeCode, Received
<1>7. CASE type = "deliverReport"
  BY <1>2, <1>7 DEF TypeOf, TypeCode, Received
<1>8. CASE type = "submitReport"
  BY <1>2, <1>8 DEF TypeOf, TypeCode, Received
<1>9. QED BY <1>1, <1>2, <1>3, <1>4, <1>5, <1>6, <1>7, <1>8

LEMMA HeldRead ==
  ASSUME NEW m \in PduIncoming, NEW prefix \in BOOLEAN, NEW wrong \in BOOLEAN,
         ~prefix => m.sca = NoSca,
         wrong => m.type \in {"deliver", "status", "submitReport", "submit"},
         pduWire = InWire(m, prefix, wrong), PduProgramReads
  PROVE  PduReadAsMeant'
<1>1. Complete(m)
  BY PduAssumption
<1>2. PICK b, w, f : /\ b = (IF prefix THEN Encode(m) ELSE SubSeq(Encode(m), 9, Len(Encode(m))))
                     /\ w = (IF m.type = "submitReport" THEN "answer" ELSE "in")
                     /\ f = (Received(m) \/ wrong)
  BY ONLY Zenon
<1>3. pduWire = [bits |-> b, prefix |-> prefix, way |-> w, fromSC |-> f, wrong |-> wrong, meant |-> Meant(m)]
  BY <1>2, Zenon DEF InWire
<1>4. /\ pduWire.bits = b /\ pduWire.prefix = prefix /\ pduWire.way = w /\ pduWire.fromSC = f
      /\ pduWire.wrong = wrong /\ pduWire.meant = Meant(m)
  BY ONLY <1>3, Zenon
<1>5. Whole(b, prefix) = Encode(m)
  <2>1. CASE prefix
    BY ONLY <1>2, <2>1, Zenon DEF Whole
  <2>2. CASE ~ prefix
    <3>1. prefix = FALSE /\ m.sca = NoSca
      BY <2>2
    <3>2. Whole(SubSeq(Encode(m), 9, Len(Encode(m))), FALSE) = Encode(m)
      BY <1>1, <3>1, CentrePutBack, Zenon
    <3>3. QED BY ONLY <1>2, <3>1, <3>2, Zenon
  <2>3. QED BY ONLY <2>1, <2>2
<1>6. PICK k : k = (wrong /\ w = "in") /\ k = (wrong /\ m.type # "submitReport")
  <2>1. w = "in" <=> m.type # "submitReport"
    BY ONLY <1>2
  <2>2. (wrong /\ w = "in") = (wrong /\ m.type # "submitReport")
    BY ONLY <2>1, wrong \in BOOLEAN
  <2>3. QED BY ONLY <2>2, Zenon
<1>7. PICK d : /\ d = Decode(Whole(pduWire.bits, pduWire.prefix), pduWire.fromSC,
                             pduWire.wrong /\ pduWire.way = "in")
               /\ pduTrip' = [meant |-> pduWire.meant, read |-> IF d.ok THEN d.msg ELSE NoPdu]
  BY Zenon DEF PduProgramReads
<1>8. d = Decode(Encode(m), f, k)
  BY ONLY <1>4, <1>5, <1>6, <1>7, Zenon
<1>9. TypeOf(TypeCode[m.type], f, k) = m.type
  <2>1. TypeOf(TypeCode[m.type], Received(m) \/ wrong, wrong /\ m.type # "submitReport") = m.type
    BY <1>1, DirectionRight, Zenon
  <2>2. QED BY ONLY <1>2, <1>6, <2>1, Zenon
<1>10. d.ok /\ d.msg = Meant(m)
  BY ONLY <1>1, <1>8, <1>9, MessageRead, Zenon
<1>11. pduTrip' = [meant |-> Meant(m), read |-> Meant(m)]
  BY ONLY <1>4, <1>7, <1>10, Zenon
<1>12. QED BY ONLY <1>11 DEF PduReadAsMeant

LEMMA PduInitInv ==
  ASSUME PduInit
  PROVE  PduInv
BY DEF PduInit, PduInv, PduUnderWay, PduReadAsMeant, NoTrip

LEMMA PduStepInv ==
  ASSUME PduInv, [PduNext]_pduVars
  PROVE  PduInv'
<1>1. CASE PduProgramSends
  <2>1. PICK number \in PduNumbers, text \in PduTexts :
          Len(text) <= PduLongest /\ pduWire' = OutWire(number, text)
    BY <1>1, Zenon DEF PduProgramSends, OutWire
  <2>2. PduReadAsMeant'
    BY <1>1 DEF PduProgramSends, PduInv, PduReadAsMeant
  <2>3. PduUnderWay'
    BY ONLY <2>1, Zenon DEF PduUnderWay
  <2>4. QED BY ONLY <2>2, <2>3, Zenon DEF PduInv
<1>2. CASE PduNetworkTakes
  <2>1. pduWire # NoPdu /\ pduWire.way = "out" /\ pduWire' = NoPdu
    BY <1>2, Zenon DEF PduNetworkTakes
  <2>2. \A m, prefix, wrong : pduWire # InWire(m, prefix, wrong)
    <3>1. \A m, prefix, wrong : InWire(m, prefix, wrong).way # "out"
      BY ONLY TRUE DEF InWire
    <3>2. QED BY ONLY <2>1, <3>1, Zenon
  <2>3. PICK number \in PduNumbers, text \in PduTexts :
          Len(text) <= PduLongest /\ pduWire = OutWire(number, text)
    BY ONLY <2>1, <2>2, PduInv, Zenon DEF PduInv, PduUnderWay
  <2>4. PduReadAsMeant'
    BY <1>2, <2>3, SubmitTaken, Zenon
  <2>5. QED BY ONLY <2>1, <2>4, Zenon DEF PduInv, PduUnderWay
<1>3. CASE PduModemHolds
  <2>1. PICK m \in PduIncoming, prefix \in BOOLEAN, wrong \in BOOLEAN :
          /\ ~prefix => m.sca = NoSca
          /\ wrong => m.type \in {"deliver", "status", "submitReport", "submit"}
          /\ pduWire' = InWire(m, prefix, wrong)
    BY <1>3, Zenon DEF PduModemHolds, InWire, Received
  <2>2. PduReadAsMeant'
    BY <1>3 DEF PduModemHolds, PduInv, PduReadAsMeant
  <2>3. PduUnderWay'
    BY ONLY <2>1, Zenon DEF PduUnderWay
  <2>4. QED BY ONLY <2>2, <2>3, Zenon DEF PduInv
<1>4. CASE PduProgramReads
  <2>1. pduWire # NoPdu /\ pduWire.way \in {"in", "answer"} /\ pduWire' = NoPdu
    BY <1>4, Zenon DEF PduProgramReads
  <2>2. \A number, text : pduWire # OutWire(number, text)
    <3>1. \A number, text : OutWire(number, text).way = "out"
      BY ONLY TRUE DEF OutWire
    <3>2. "out" \notin {"in", "answer"}
      OBVIOUS
    <3>3. QED BY ONLY <2>1, <3>1, <3>2, Zenon
  <2>3. PICK m \in PduIncoming, prefix \in BOOLEAN, wrong \in BOOLEAN :
          /\ ~prefix => m.sca = NoSca
          /\ wrong => m.type \in {"deliver", "status", "submitReport", "submit"}
          /\ pduWire = InWire(m, prefix, wrong)
    BY ONLY <2>1, <2>2, PduInv, Zenon DEF PduInv, PduUnderWay
  <2>4. PduReadAsMeant'
    BY <1>4, <2>3, HeldRead, Zenon
  <2>5. QED BY ONLY <2>1, <2>4, Zenon DEF PduInv, PduUnderWay
<1>5. CASE UNCHANGED pduVars
  BY <1>5 DEF PduInv, PduUnderWay, PduReadAsMeant, pduVars
<1>6. QED BY <1>1, <1>2, <1>3, <1>4, <1>5, Zenon DEF PduNext

(* Whatever the numbers, the texts and the messages of the network are,     *)
(* whoever reads a message reads what its writer meant, for every class of  *)
(* message, with or without the address of the centre, and from no more of  *)
(* the PDU than was announced (gsm_sms_codec.cc, gsm_sms.cc).               *)
THEOREM PduAlwaysReadAsMeant == PduSpec => []PduReadAsMeant
<1>1. PduInit => PduInv
  BY PduInitInv
<1>2. PduInv /\ [PduNext]_pduVars => PduInv'
  BY PduStepInv
<1>3. PduInv => PduReadAsMeant
  BY DEF PduInv
<1>4. QED BY <1>1, <1>2, <1>3, PTL DEF PduSpec
=============================================================================
