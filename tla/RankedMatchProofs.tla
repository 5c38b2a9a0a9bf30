--------------------------- MODULE RankedMatchProofs ---------------------------
(***************************************************************************)
(* Theorems about TraceCodec and RankedMatch, for every width of a byte,   *)
(* schema, limit, match and device.  First the codec: reading back what    *)
(* was encoded, and the one encoding of an input.  Then the pipeline: the  *)
(* update loop adds frames whose replay gives the live match, and the      *)
(* evidence, its completion and its verdict follow from the recorder.      *)
(*                                                                         *)
(* What the recursive functions of the model compute is proved by          *)
(* induction: a set of numbers that contains zero and every successor      *)
(* contains all, because the numbers it lacks would have a least one.      *)
(***************************************************************************)
EXTENDS RankedMatch, SequenceTheorems, WellFoundedInduction, TLAPS

-----------------------------------------------------------------------------
(* Numbers *)

LEMMA LeastNatural ==
  ASSUME NEW T \in SUBSET Nat, T # {}
  PROVE  \E x \in T : \A y \in T : x <= y
<1> DEFINE R == {ss \in Nat \X Nat : ss[1] < ss[2]}
<1>1. IsWellFoundedOn(R, Nat)
  BY NatLessThanWellFounded DEF OpToRel
<1>2. \E x \in T : \A y \in T : ~ (<<y, x>> \in R)
  <2> HIDE DEF R
  <2> QED BY <1>1, WFMin
<1>3. PICK x \in T : \A y \in T : ~ (<<y, x>> \in R)
  BY <1>2
<1>4. \A y \in T : x <= y
  <2> TAKE y \in T
  <2>1. x \in Nat /\ y \in Nat
    OBVIOUS
  <2>2. <<y, x>> \in Nat \X Nat /\ ~(<<y, x>> \in R)
    BY <1>3, <2>1
  <2>3. ~(y < x)
    BY <2>2
  <2> QED BY <2>1, <2>3
<1> QED BY <1>4

(* A set of numbers that contains zero and every successor contains all. *)
LEMMA ByInduction ==
  ASSUME NEW T, 0 \in T, \A n \in Nat : n \in T => n + 1 \in T
  PROVE  Nat \subseteq T
<1> SUFFICES ASSUME Nat \ T # {} PROVE FALSE
  OBVIOUS
<1>1. PICK m \in Nat \ T : \A y \in Nat \ T : m <= y
  BY LeastNatural
<1>2. m # 0 /\ m - 1 \in Nat
  OBVIOUS
<1>3. m - 1 \in T
  BY <1>1, <1>2
<1>4. (m - 1) + 1 = m
  BY <1>2
<1> QED BY <1>2, <1>3, <1>4

LEMMA LeastIsMember ==
  ASSUME NEW S \in SUBSET Nat, S # {}
  PROVE  Min(S) \in S
BY LeastNatural DEF Min

LEMMA DivisionTheorem ==
  ASSUME NEW a \in Int, NEW b \in Nat \ {0}
  PROVE  a = b * (a \div b) + (a % b) /\ a % b \in 0..(b - 1) /\ a \div b \in Int
OBVIOUS

LEMMA QuotientUnique ==
  ASSUME NEW w \in Nat \ {0}, NEW q \in Int, NEW p \in Int,
         NEW r \in 0..(w - 1), NEW s \in 0..(w - 1), w * q + r = w * p + s
  PROVE  q = p /\ r = s
<1>1. w * (q - p) = s - r
  OBVIOUS
<1>2. q - p \in Int /\ s - r < w /\ s - r > -w
  OBVIOUS
<1> DEFINE d == q - p
<1>3. ~(d >= 1)
  <2> SUFFICES ASSUME d >= 1 PROVE FALSE
    OBVIOUS
  <2>1. w * d >= w
    BY <1>2
  <2> QED BY <1>1, <1>2, <2>1
<1>4. ~(d <= -1)
  <2> SUFFICES ASSUME d <= -1 PROVE FALSE
    OBVIOUS
  <2>1. w * d <= -w
    BY <1>2
  <2> QED BY <1>1, <1>2, <2>1
<1>5. d = 0
  BY <1>2, <1>3, <1>4
<1> QED BY <1>1, <1>5

LEMMA Quotient ==
  ASSUME NEW w \in Nat \ {0}, NEW q \in Int, NEW r \in 0..(w - 1)
  PROVE  (w * q + r) \div w = q /\ (w * q + r) % w = r
<1> DEFINE a == w * q + r
<1>1. a \in Int
  OBVIOUS
<1> HIDE DEF a
<1>2. a = w * (a \div w) + (a % w) /\ a % w \in 0..(w - 1) /\ a \div w \in Int
  BY <1>1, DivisionTheorem
<1>3. w * q + r = w * (a \div w) + (a % w)
  BY <1>2 DEF a
<1>4. q = a \div w /\ r = a % w
  BY <1>2, <1>3, QuotientUnique
<1> QED BY <1>4 DEF a

LEMMA NestedDivision ==
  ASSUME NEW x \in Nat, NEW c \in Nat \ {0}, NEW d \in Nat \ {0}
  PROVE  x \div (c * d) = (x \div c) \div d
<1> DEFINE q == x \div c
           r == x % c
           p == q \div d
           s == q % d
<1>1. x = c * q + r /\ r \in 0..(c - 1) /\ q \in Int
  BY DivisionTheorem
<1>2. q = d * p + s /\ s \in 0..(d - 1) /\ p \in Int
  <2> HIDE DEF q
  <2> QED BY <1>1, DivisionTheorem
<1> HIDE DEF q, r, p, s
<1>3. x = (c * d) * p + (c * s + r)
  BY <1>1, <1>2
<1>4. c * s + r \in 0..(c * d - 1)
  <2>1. s <= d - 1 /\ s \in Nat /\ r \in Nat /\ r <= c - 1
    BY <1>1, <1>2
  <2>2. c * s <= c * (d - 1)
    BY <2>1
  <2>3. c * (d - 1) = c * d - c
    OBVIOUS
  <2>4. c * s \in Nat /\ c * d \in Nat
    BY <2>1
  <2> QED BY <2>1, <2>2, <2>3, <2>4
<1>5. c * d \in Nat \ {0}
  OBVIOUS
<1>6. ((c * d) * p + (c * s + r)) \div (c * d) = p
  BY <1>2, <1>4, <1>5, Quotient
<1> QED BY <1>3, <1>6 DEF p, q

-----------------------------------------------------------------------------
(* Bytes and their bits *)

IsTwoTo(f, n) == f = [k \in 0..n |-> IF k = 0 THEN 1 ELSE 2 * f[k - 1]]

LEMMA TwoToUnfolds ==
  TwoTo = [k \in 0..ByteBits |-> IF k = 0 THEN 1 ELSE 2 * TwoTo[k - 1]]
<1> DEFINE T == {n \in Nat : \E f : IsTwoTo(f, n)}
<1>1. 0 \in T
  <2>1. IsTwoTo([k \in 0..0 |-> 1], 0)
    BY DEF IsTwoTo
  <2> QED BY <2>1
<1>2. ASSUME NEW n \in Nat, n \in T PROVE n + 1 \in T
  <2>1. PICK f : IsTwoTo(f, n)
    BY <1>2
  <2> DEFINE h == [k \in 0..(n + 1) |-> IF k = n + 1 THEN 2 * f[n] ELSE f[k]]
  <2>2. ASSUME NEW k \in 0..(n + 1)
        PROVE  h[k] = IF k = 0 THEN 1 ELSE 2 * h[k - 1]
    <3>1. CASE k = n + 1
      BY <3>1
    <3>2. CASE k # n + 1
      <4>1. k \in 0..n /\ h[k] = f[k]
        BY <3>2
      <4>2. k # 0 => k - 1 \in 0..n /\ h[k - 1] = f[k - 1]
        BY <4>1
      <4> QED BY <2>1, <4>1, <4>2 DEF IsTwoTo
    <3> QED BY <3>1, <3>2
  <2>3. IsTwoTo(h, n + 1)
    BY <2>2 DEF IsTwoTo
  <2>4. \E e : IsTwoTo(e, n + 1)
    <3> HIDE DEF h
    <3> QED BY <2>3
  <2> QED BY <2>4
<1>3. ByteBits \in T
  <2> HIDE DEF T
  <2> QED BY <1>1, <1>2, ByInduction, ByteAssumption
<1>4. \E f : IsTwoTo(f, ByteBits)
  BY <1>3
<1>5. TwoTo = CHOOSE f : IsTwoTo(f, ByteBits)
  BY DEF TwoTo, IsTwoTo
<1>6. IsTwoTo(TwoTo, ByteBits)
  BY <1>4, <1>5
<1> QED BY <1>6 DEF IsTwoTo

LEMMA TwoToFacts ==
  /\ TwoTo[0] = 1
  /\ \A k \in 0..(ByteBits - 1) : TwoTo[k + 1] = 2 * TwoTo[k]
  /\ \A k \in 0..ByteBits : TwoTo[k] \in Nat \ {0}
<1>1. TwoTo[0] = 1
  BY TwoToUnfolds, ByteAssumption
<1>2. ASSUME NEW k \in 0..(ByteBits - 1) PROVE TwoTo[k + 1] = 2 * TwoTo[k]
  <2>1. k + 1 \in 0..ByteBits /\ k + 1 # 0 /\ (k + 1) - 1 = k
    BY ByteAssumption
  <2> QED BY <2>1, TwoToUnfolds
<1>3. \A k \in 0..ByteBits : TwoTo[k] \in Nat \ {0}
  <2> DEFINE T == {k \in Nat : k <= ByteBits => TwoTo[k] \in Nat \ {0}}
  <2>1. 0 \in T
    BY <1>1
  <2>2. ASSUME NEW k \in Nat, k \in T PROVE k + 1 \in T
    <3>1. CASE k + 1 <= ByteBits
      <4>1. k \in 0..(ByteBits - 1)
        BY <3>1, ByteAssumption
      <4>2. TwoTo[k] \in Nat \ {0}
        BY <2>2, <3>1, ByteAssumption
      <4> QED BY <1>2, <4>1, <4>2
    <3>2. CASE ~(k + 1 <= ByteBits)
      BY <3>2
    <3> QED BY <3>1, <3>2
  <2>3. Nat \subseteq T
    <3> HIDE DEF T
    <3> QED BY <2>1, <2>2, ByInduction
  <2> QED BY <2>3
<1> QED BY <1>1, <1>2, <1>3

(* Radix is even and at least four. *)
LEMMA RadixFacts ==
  /\ Radix \in Nat /\ Radix >= 4
  /\ \E e \in Nat : Radix = 2 * e
<1>1. ByteBits - 1 \in 0..(ByteBits - 1) /\ ByteBits - 2 \in 0..(ByteBits - 1)
      /\ (ByteBits - 1) + 1 = ByteBits /\ (ByteBits - 2) + 1 = ByteBits - 1
      /\ ByteBits - 1 \in 0..ByteBits /\ ByteBits - 2 \in 0..ByteBits
  BY ByteAssumption
<1>2. TwoTo[ByteBits - 2] \in Nat \ {0} /\ TwoTo[ByteBits - 1] \in Nat
  BY <1>1, TwoToFacts
<1>3. TwoTo[ByteBits - 1] = 2 * TwoTo[ByteBits - 2] /\ TwoTo[ByteBits] = 2 * TwoTo[ByteBits - 1]
  BY <1>1, TwoToFacts
<1> QED BY <1>2, <1>3 DEF Radix

IsAbove(bits, f) ==
  f = [k \in 0..ByteBits |->
         IF k = ByteBits THEN 0 ELSE 2 * f[k + 1] + (IF bits[k] THEN 1 ELSE 0)]

(* The bits of a byte from each position on, as numbers. *)
LEMMA ByteIsBuilt ==
  ASSUME NEW bits
  PROVE  \E f : IsAbove(bits, f) /\ ByteOf(bits) = f[0]
<1> DEFINE Built(f, n) == f = [k \in (ByteBits - n)..ByteBits |->
                                 IF k = ByteBits THEN 0
                                 ELSE 2 * f[k + 1] + (IF bits[k] THEN 1 ELSE 0)]
           T == {n \in Nat : \E f : Built(f, n)}
<1>1. 0 \in T
  <2> DEFINE f == [k \in (ByteBits - 0)..ByteBits |-> 0]
  <2>1. Built(f, 0)
    BY ByteAssumption
  <2>2. \E e : Built(e, 0)
    <3> HIDE DEF f
    <3> QED BY <2>1
  <2> HIDE DEF Built
  <2> QED BY <2>2
<1>2. ASSUME NEW n \in Nat, n \in T PROVE n + 1 \in T
  <2>1. PICK f : Built(f, n)
    BY <1>2
  <2> DEFINE low == ByteBits - (n + 1)
             h == [k \in low..ByteBits |->
                     IF k = low THEN 2 * f[low + 1] + (IF bits[low] THEN 1 ELSE 0) ELSE f[k]]
  <2>2. low \in Int /\ low < ByteBits /\ low + 1 = ByteBits - n
    BY ByteAssumption
  <2>3. ASSUME NEW k \in low..ByteBits
        PROVE  h[k] = IF k = ByteBits THEN 0 ELSE 2 * h[k + 1] + (IF bits[k] THEN 1 ELSE 0)
    <3>1. CASE k = low
      <4>1. low + 1 \in low..ByteBits /\ low + 1 # low /\ k # ByteBits
        BY <2>2, <3>1, ByteAssumption
      <4>2. h[low + 1] = f[low + 1]
        BY <4>1
      <4> QED BY <3>1, <4>1, <4>2
    <3>2. CASE k # low
      <4>1. k \in (ByteBits - n)..ByteBits /\ h[k] = f[k]
        BY <2>2, <3>2
      <4>2. k # ByteBits => h[k + 1] = f[k + 1]
        <5>1. k # ByteBits => k + 1 \in low..ByteBits /\ k + 1 # low
          BY <2>2, <3>2, ByteAssumption
        <5> HIDE DEF low
        <5> QED BY <5>1
      <4>3. f[k] = IF k = ByteBits THEN 0 ELSE 2 * f[k + 1] + (IF bits[k] THEN 1 ELSE 0)
        BY <2>1, <4>1
      <4> QED BY <4>1, <4>2, <4>3
    <3> QED BY <3>1, <3>2
  <2>4. Built(h, n + 1)
    BY <2>3
  <2>5. \E e : Built(e, n + 1)
    <3> HIDE DEF h, Built
    <3> QED BY <2>4
  <2> HIDE DEF Built
  <2> QED BY <2>5
<1>3. ByteBits \in T
  <2> HIDE DEF T
  <2> QED BY <1>1, <1>2, ByInduction, ByteAssumption
<1>4. PICK f : Built(f, ByteBits)
  BY <1>3
<1>5. ByteBits - ByteBits = 0
  BY ByteAssumption
<1>6. IsAbove(bits, f)
  BY <1>4, <1>5 DEF IsAbove
<1>7. ByteOf(bits) = (CHOOSE e : IsAbove(bits, e))[0]
  BY DEF ByteOf, IsAbove
<1>8. IsAbove(bits, CHOOSE e : IsAbove(bits, e))
  BY <1>6
<1> QED BY <1>7, <1>8

LEMMA AboveFacts ==
  ASSUME NEW bits, NEW f, IsAbove(bits, f)
  PROVE  /\ f[ByteBits] = 0
         /\ \A k \in 0..(ByteBits - 1) : f[k] = 2 * f[k + 1] + (IF bits[k] THEN 1 ELSE 0)
         /\ \A k \in 0..ByteBits : f[k] \in Nat
<1>1. f[ByteBits] = 0
  BY ByteAssumption DEF IsAbove
<1>2. ASSUME NEW k \in 0..(ByteBits - 1)
      PROVE  f[k] = 2 * f[k + 1] + (IF bits[k] THEN 1 ELSE 0)
  <2>1. k \in 0..ByteBits /\ k # ByteBits
    BY ByteAssumption
  <2> QED BY <2>1 DEF IsAbove
<1>3. \A k \in 0..ByteBits : f[k] \in Nat
  <2> DEFINE T == {n \in Nat : n <= ByteBits => f[ByteBits - n] \in Nat}
  <2>1. 0 \in T
    BY <1>1, ByteAssumption
  <2>2. ASSUME NEW n \in Nat, n \in T PROVE n + 1 \in T
    <3>1. CASE n + 1 <= ByteBits
      <4>1. ByteBits - (n + 1) \in 0..(ByteBits - 1) /\ (ByteBits - (n + 1)) + 1 = ByteBits - n
        BY <3>1, ByteAssumption
      <4>2. f[ByteBits - n] \in Nat
        BY <2>2, <3>1, ByteAssumption
      <4> QED BY <1>2, <4>1, <4>2
    <3>2. CASE ~(n + 1 <= ByteBits)
      BY <3>2
    <3> QED BY <3>1, <3>2
  <2>3. Nat \subseteq T
    <3> HIDE DEF T
    <3> QED BY <2>1, <2>2, ByInduction
  <2>4. ASSUME NEW k \in 0..ByteBits PROVE f[k] \in Nat
    <3>1. ByteBits - k \in T
      <4> HIDE DEF T
      <4> QED BY <2>3, ByteAssumption
    <3>2. ByteBits - (ByteBits - k) = k /\ ByteBits - k <= ByteBits
      BY ByteAssumption
    <3> QED BY <3>1, <3>2
  <2> QED BY <2>4
<1> QED BY <1>1, <1>2, <1>3

(* A byte shifted right by k is its bits from k on. *)
LEMMA ShiftedByte ==
  ASSUME NEW bits, NEW f, IsAbove(bits, f), NEW k \in 0..ByteBits
  PROVE  f[0] \div TwoTo[k] = f[k]
<1>0. 0 \in 0..ByteBits /\ f[0] \in Nat
  BY AboveFacts, ByteAssumption
<1> DEFINE T == {n \in Nat : n <= ByteBits => f[0] \div TwoTo[n] = f[n]}
<1>1. 0 \in T
  BY <1>0, TwoToFacts
<1>2. ASSUME NEW n \in Nat, n \in T PROVE n + 1 \in T
  <2>1. CASE n + 1 <= ByteBits
    <3>1. n \in 0..(ByteBits - 1) /\ n \in 0..ByteBits /\ n + 1 \in 0..ByteBits
      BY <2>1, ByteAssumption
    <3>2. f[0] \div TwoTo[n] = f[n]
      BY <1>2, <3>1
    <3>3. TwoTo[n + 1] = TwoTo[n] * 2 /\ TwoTo[n] \in Nat \ {0}
      BY <3>1, TwoToFacts
    <3>4. f[0] \div TwoTo[n + 1] = (f[0] \div TwoTo[n]) \div 2
      BY <1>0, <3>3, NestedDivision
    <3>5. f[n] = 2 * f[n + 1] + (IF bits[n] THEN 1 ELSE 0) /\ f[n + 1] \in Nat
      BY <3>1, AboveFacts
    <3>6. f[n] \div 2 = f[n + 1]
      BY <3>5
    <3> QED BY <3>2, <3>4, <3>6
  <2>2. CASE ~(n + 1 <= ByteBits)
    BY <2>2
  <2> QED BY <2>1, <2>2
<1>3. k \in T
  <2> HIDE DEF T
  <2> QED BY <1>1, <1>2, ByInduction
<1> QED BY <1>3

(* The bits of a byte can be read back, and no two bytes have the same bits. *)
LEMMA BitsOfByte ==
  ASSUME NEW bits
  PROVE  /\ ByteOf(bits) \in Byte
         /\ \A k \in 0..(ByteBits - 1) : BitSet(ByteOf(bits), k) <=> bits[k]
<1>1. PICK f : IsAbove(bits, f) /\ ByteOf(bits) = f[0]
  BY ByteIsBuilt
<1>2. f[0] \in Nat /\ f[ByteBits] = 0
  BY <1>1, AboveFacts, ByteAssumption
<1>3. f[0] \div Radix = 0
  <2>1. ByteBits \in 0..ByteBits
    BY ByteAssumption
  <2> QED BY <1>1, <1>2, <2>1, ShiftedByte DEF Radix
<1>4. f[0] \in Byte
  <2>1. Radix \in Nat \ {0}
    BY RadixFacts
  <2>2. \A a \in Int : a = Radix * (a \div Radix) + (a % Radix) /\ a % Radix \in 0..(Radix - 1)
    BY <2>1, DivisionTheorem
  <2>3. f[0] = Radix * 0 + (f[0] % Radix) /\ f[0] % Radix \in 0..(Radix - 1)
    BY <1>2, <1>3, <2>2
  <2> QED BY <2>1, <2>3 DEF Byte
<1>5. ASSUME NEW k \in 0..(ByteBits - 1) PROVE BitSet(f[0], k) <=> bits[k]
  <2>1. k \in 0..ByteBits /\ k + 1 \in 0..ByteBits
    BY ByteAssumption
  <2>2. f[0] \div TwoTo[k] = f[k]
    BY <1>1, <2>1, ShiftedByte
  <2>3. f[k] = 2 * f[k + 1] + (IF bits[k] THEN 1 ELSE 0) /\ f[k + 1] \in Nat
    BY <1>1, <2>1, AboveFacts
  <2>4. f[k] % 2 = IF bits[k] THEN 1 ELSE 0
    BY <2>3
  <2> QED BY <2>2, <2>4 DEF BitSet
<1> QED BY <1>1, <1>4, <1>5

LEMMA ByteOfItsBits ==
  ASSUME NEW byte \in Byte
  PROVE  ByteOf([bit \in 0..(ByteBits - 1) |-> BitSet(byte, bit)]) = byte
<1> DEFINE bits == [bit \in 0..(ByteBits - 1) |-> BitSet(byte, bit)]
<1>1. PICK f : IsAbove(bits, f) /\ ByteOf(bits) = f[0]
  BY ByteIsBuilt
<1>2. byte \in Nat /\ byte < Radix /\ Radix \in Nat \ {0}
  BY RadixFacts DEF Byte
<1> DEFINE T == {n \in Nat : n <= ByteBits => f[ByteBits - n] = byte \div TwoTo[ByteBits - n]}
<1>3. 0 \in T
  <2>1. byte \div Radix = 0
    BY <1>2, Quotient
  <2>2. ByteBits - 0 = ByteBits
    BY ByteAssumption
  <2>3. f[ByteBits] = 0
    <3> HIDE DEF bits
    <3> QED BY <1>1, AboveFacts
  <2> QED BY <2>1, <2>2, <2>3 DEF Radix
<1>4. ASSUME NEW n \in Nat, n \in T PROVE n + 1 \in T
  <2>1. CASE n + 1 <= ByteBits
    <3> DEFINE k == ByteBits - (n + 1)
    <3>1. k \in 0..(ByteBits - 1) /\ k \in 0..ByteBits /\ k + 1 = ByteBits - n
      BY <2>1, ByteAssumption
    <3>2. f[k + 1] = byte \div TwoTo[k + 1]
      BY <1>4, <2>1, <3>1, ByteAssumption
    <3>3. TwoTo[k + 1] = TwoTo[k] * 2 /\ TwoTo[k] \in Nat \ {0}
      BY <3>1, TwoToFacts
    <3> DEFINE q == byte \div TwoTo[k]
    <3>4. byte \div TwoTo[k + 1] = q \div 2
      BY <1>2, <3>3, NestedDivision
    <3>5. q \in Int
      BY <1>2, <3>3
    <3>6. f[k] = 2 * f[k + 1] + (IF bits[k] THEN 1 ELSE 0)
      <4> HIDE DEF bits
      <4> QED BY <1>1, <3>1, AboveFacts
    <3>7. bits[k] <=> q % 2 = 1
      BY <3>1 DEF BitSet
    <3>9. f[k + 1] = q \div 2
      BY <3>2, <3>4
    <3> HIDE DEF q, k, bits
    <3>10. q = 2 * (q \div 2) + (q % 2) /\ q % 2 \in {0, 1}
      BY <3>5
    <3>8. f[k] = q
      BY <3>6, <3>7, <3>9, <3>10
    <3> QED BY <3>8 DEF k, q
  <2>2. CASE ~(n + 1 <= ByteBits)
    BY <2>2
  <2> QED BY <2>1, <2>2
<1>5. ByteBits \in T
  <2> HIDE DEF T
  <2> QED BY <1>3, <1>4, ByInduction, ByteAssumption
<1>6. f[0] = byte \div TwoTo[0]
  <2>1. ByteBits - ByteBits = 0 /\ ByteBits <= ByteBits
    BY ByteAssumption
  <2> HIDE DEF bits
  <2> QED BY <1>5, <2>1
<1>7. byte \div 1 = byte
  BY <1>2
<1> QED BY <1>1, <1>6, <1>7, TwoToFacts

-----------------------------------------------------------------------------
(* Axes *)

LEMMA AxisRange ==
  /\ AxisScale \in Nat /\ AxisScale >= 1
  /\ Radix * Radix = 2 * AxisScale + 2
<1>1. PICK e \in Nat : Radix = 2 * e
  BY RadixFacts
<1>2. e >= 2
  BY <1>1, RadixFacts
<1> DEFINE s == e * e
<1>3. s \in Nat /\ s >= 4
  <2>1. e * e >= 2 * e
    BY <1>2
  <2> QED BY <1>2, <2>1
<1>4. Radix * Radix = 4 * s
  BY <1>1
<1>5. (4 * s) \div 2 = 2 * s
  <2> HIDE DEF s
  <2> QED BY <1>3
<1>6. AxisScale = 2 * s - 1
  BY <1>4, <1>5 DEF AxisScale
<1> HIDE DEF s
<1> QED BY <1>3, <1>4, <1>6

(* getInt16 *)
Signed(high, low) ==
  IF high * Radix + low > AxisScale THEN high * Radix + low - Radix * Radix
  ELSE high * Radix + low

LEMMA UnsignedSplits ==
  ASSUME NEW u \in Nat, u < Radix * Radix
  PROVE  /\ u \div Radix \in Byte /\ u % Radix \in Byte
         /\ (u \div Radix) * Radix + (u % Radix) = u
<1>0. Radix \in Nat \ {0}
  BY RadixFacts
<1> DEFINE h == u \div Radix
           l == u % Radix
<1>1. u = Radix * h + l /\ l \in 0..(Radix - 1) /\ h \in Int
  BY <1>0, DivisionTheorem
<1> HIDE DEF h, l
<1>2. h >= 0
  <2> SUFFICES ASSUME h <= -1 PROVE FALSE
    BY <1>1
  <2>1. Radix * h <= -Radix
    BY <1>0, <1>1
  <2> QED BY <1>0, <1>1, <2>1
<1>3. h < Radix
  <2> SUFFICES ASSUME h >= Radix PROVE FALSE
    BY <1>0, <1>1
  <2>1. Radix * h >= Radix * Radix
    BY <1>0, <1>1
  <2> QED BY <1>0, <1>1, <2>1
<1>4. h * Radix = Radix * h
  BY <1>0, <1>1
<1> QED BY <1>0, <1>1, <1>2, <1>3, <1>4 DEF h, l, Byte

LEMMA AxisReadsBack ==
  ASSUME NEW n \in -AxisScale..AxisScale
  PROVE  /\ AxisBytes(n)[1] \in Byte /\ AxisBytes(n)[2] \in Byte
         /\ Signed(AxisBytes(n)[1], AxisBytes(n)[2]) = n
<1> DEFINE u == IF n < 0 THEN n + Radix * Radix ELSE n
<1>1. u \in Nat /\ u < Radix * Radix /\ (u > AxisScale <=> n < 0)
  BY AxisRange
<1>2. AxisBytes(n) = <<u \div Radix, u % Radix>>
  BY DEF AxisBytes
<1>3. /\ u \div Radix \in Byte /\ u % Radix \in Byte
      /\ (u \div Radix) * Radix + (u % Radix) = u
  <2> HIDE DEF u
  <2> QED BY <1>1, UnsignedSplits
<1>4. Signed(u \div Radix, u % Radix) = IF u > AxisScale THEN u - Radix * Radix ELSE u
  <2> DEFINE h == u \div Radix
             l == u % Radix
  <2>1. h * Radix + l = u
    BY <1>3
  <2>2. h \in Int /\ l \in Int /\ u \in Int /\ Radix \in Int /\ AxisScale \in Int
    <3> HIDE DEF u
    <3> QED BY <1>1, <1>3, RadixFacts, AxisRange DEF Byte
  <2> HIDE DEF u, h, l
  <2>3. Signed(h, l) = IF u > AxisScale THEN u - Radix * Radix ELSE u
    BY <2>1, <2>2 DEF Signed
  <2> QED BY <2>3 DEF h, l
<1>5. (IF u > AxisScale THEN u - Radix * Radix ELSE u) = n
  BY <1>1, AxisRange
<1> HIDE DEF u
<1> QED BY <1>2, <1>3, <1>4, <1>5

LEMMA AxisIsCanonical ==
  ASSUME NEW high \in Byte, NEW low \in Byte, Signed(high, low) # -AxisScale - 1
  PROVE  /\ Signed(high, low) \in -AxisScale..AxisScale
         /\ AxisBytes(Signed(high, low)) = <<high, low>>
<1>0. Radix \in Nat \ {0} /\ high \in 0..(Radix - 1) /\ low \in 0..(Radix - 1)
  BY RadixFacts DEF Byte
<1> DEFINE u == high * Radix + low
           n == Signed(high, low)
           s == Radix * Radix
<1>1. u \in Nat /\ u < s
  <2>1. high * Radix <= (Radix - 1) * Radix
    BY <1>0
  <2>2. (Radix - 1) * Radix = s - Radix
    BY <1>0
  <2>3. high * Radix \in Nat /\ s \in Int
    BY <1>0
  <2> HIDE DEF s
  <2> QED BY <1>0, <2>1, <2>2, <2>3
<1>2. n = IF u > AxisScale THEN u - s ELSE u
  BY <1>0, <1>1, AxisRange DEF Signed
<1>3. s = 2 * AxisScale + 2 /\ AxisScale \in Nat
  BY AxisRange
<1>4. u = Radix * high + low
  BY <1>0
<1>5. u \div Radix = high /\ u % Radix = low
  <2> HIDE DEF u
  <2> QED BY <1>0, <1>4, Quotient, SMTT(30)
<1>6. AxisBytes(n) = LET v == IF n < 0 THEN n + s ELSE n IN <<v \div Radix, v % Radix>>
  BY DEF AxisBytes
<1>7. n # -AxisScale - 1
  OBVIOUS
<1> HIDE DEF u, n, s
<1>8. n \in -AxisScale..AxisScale
  BY <1>1, <1>2, <1>3, <1>7
<1>9. (IF n < 0 THEN n + s ELSE n) = u
  BY <1>1, <1>2, <1>3
<1> QED BY <1>5, <1>6, <1>8, <1>9 DEF n

-----------------------------------------------------------------------------
(* The header *)

LEMMA CountReadsBack ==
  ASSUME NEW n \in Nat, n < Radix * Radix * Radix * Radix
  PROVE  LET c == CountBytes(n)
         IN  /\ c \in [1..4 -> Byte]
             /\ ((c[1] * Radix + c[2]) * Radix + c[3]) * Radix + c[4] = n
<1> DEFINE R == Radix
           q1 == n \div R
           q2 == q1 \div R
           q3 == q2 \div R
<1>0. R \in Nat \ {0} /\ R * R \in Nat \ {0} /\ R * R * R \in Nat \ {0}
  <2>1. R \in Nat \ {0}
    BY RadixFacts
  <2> HIDE DEF R
  <2>2. R * R \in Nat \ {0}
    BY <2>1
  <2> DEFINE RR == R * R
  <2>3. RR * R \in Nat \ {0}
    <3> HIDE DEF RR
    <3> QED BY <2>1, <2>2 DEF RR
  <2> QED BY <2>1, <2>2, <2>3
<1>1. CountBytes(n) = <<n \div (R * R * R) % R, n \div (R * R) % R, n \div R % R, n % R>>
  BY DEF CountBytes
<1>2. n < R * R * R * R
  OBVIOUS
<1> HIDE DEF R
<1>3. n = R * q1 + (n % R) /\ n % R \in 0..(R - 1) /\ q1 \in Int
  BY <1>0, DivisionTheorem
<1>4. q1 = R * q2 + (q1 % R) /\ q1 % R \in 0..(R - 1) /\ q2 \in Int
  <2> HIDE DEF q1
  <2> QED BY <1>0, <1>3, DivisionTheorem
<1>5. q2 = R * q3 + (q2 % R) /\ q2 % R \in 0..(R - 1) /\ q3 \in Int
  <2> HIDE DEF q2
  <2> QED BY <1>0, <1>4, DivisionTheorem
<1>6. n \div (R * R) = q2
  BY <1>0, NestedDivision
<1>7. n \div (R * R * R) = q3
  <2>1. n \div ((R * R) * R) = (n \div (R * R)) \div R
    BY <1>0, NestedDivision
  <2> QED BY <1>6, <2>1
<1>8. q3 \in 0..(R - 1)
  <2> DEFINE C == R * R * R
  <2>1. n = C * q3 + (n % C) /\ n % C \in 0..(C - 1)
    <3>1. C \in Nat \ {0}
      BY <1>0
    <3> HIDE DEF C
    <3>2. n = C * (n \div C) + (n % C) /\ n % C \in 0..(C - 1)
      BY <3>1, DivisionTheorem
    <3> QED BY <1>7, <3>2 DEF C
  <2>2. C \in Nat \ {0} /\ n < C * R
    BY <1>0, <1>2
  <2> HIDE DEF C, q3
  <2>3. q3 >= 0
    <3> SUFFICES ASSUME q3 <= -1 PROVE FALSE
      BY <1>5
    <3>1. C * q3 <= -C
      BY <1>5, <2>2
    <3> QED BY <1>5, <2>1, <2>2, <3>1
  <2>4. q3 < R
    <3> SUFFICES ASSUME q3 >= R PROVE FALSE
      BY <1>0, <1>5
    <3>1. C * q3 >= C * R
      BY <1>0, <1>5, <2>2
    <3> QED BY <1>0, <1>5, <2>1, <2>2, <3>1
  <2> QED BY <1>0, <1>5, <2>3, <2>4
<1>9. q3 % R = q3
  <2> HIDE DEF q3
  <2> QED BY <1>0, <1>8
<1> DEFINE c == <<q3, q2 % R, q1 % R, n % R>>
<1>10. CountBytes(n) = c
  BY <1>1, <1>6, <1>7, <1>9
<1>11. Byte = 0..(R - 1)
  BY DEF Byte, R
<1> DEFINE d1 == q3
           d2 == q2 % R
           d3 == q1 % R
           d4 == n % R
<1>12. /\ d1 \in Byte /\ d2 \in Byte /\ d3 \in Byte /\ d4 \in Byte
       /\ d1 \in Int /\ d2 \in Int /\ d3 \in Int /\ d4 \in Int
  BY <1>3, <1>4, <1>5, <1>8, <1>11
<1>13. ((d1 * R + d2) * R + d3) * R + d4 = n
  <2>1. q2 = d1 * R + d2
    <3>1. R * q3 = q3 * R
      BY <1>0, <1>5
    <3> QED BY <1>5, <3>1
  <2>2. q1 = q2 * R + d3
    <3>1. R * q2 = q2 * R
      BY <1>0, <1>4
    <3> QED BY <1>4, <3>1
  <2>3. n = q1 * R + d4
    <3>1. R * q1 = q1 * R
      BY <1>0, <1>3
    <3> QED BY <1>3, <3>1
  <2> HIDE DEF d1, d2, d3, d4, q1, q2, q3
  <2> QED BY <2>1, <2>2, <2>3
<1>14. c = <<d1, d2, d3, d4>>
  OBVIOUS
<1> HIDE DEF d1, d2, d3, d4, q1, q2, q3, c
<1>15. /\ c \in [1..4 -> Byte]
       /\ ((c[1] * R + c[2]) * R + c[3]) * R + c[4] = n
  BY <1>12, <1>13, <1>14
<1> QED BY <1>10, <1>15 DEF R

LEMMA CountIsCanonical ==
  ASSUME NEW a \in Byte, NEW b \in Byte, NEW c \in Byte, NEW d \in Byte
  PROVE  LET n == ((a * Radix + b) * Radix + c) * Radix + d
         IN  n \in Nat /\ CountBytes(n) = <<a, b, c, d>>
<1> DEFINE R == Radix
           q2 == a * R + b
           q1 == q2 * R + c
           n == q1 * R + d
<1>0. R \in Nat \ {0} /\ R * R \in Nat \ {0} /\ Byte = 0..(R - 1)
  <2>1. R \in Nat \ {0} /\ Byte = 0..(R - 1)
    BY RadixFacts DEF Byte
  <2> HIDE DEF R
  <2> QED BY <2>1
<1>1. CountBytes(n) = <<n \div (R * R * R) % R, n \div (R * R) % R, n \div R % R, n % R>>
  BY DEF CountBytes
<1> HIDE DEF R
<1>2. a \in 0..(R - 1) /\ b \in 0..(R - 1) /\ c \in 0..(R - 1) /\ d \in 0..(R - 1)
  BY <1>0
<1>3. q2 \in Nat
  BY <1>0, <1>2
<1>4. q1 \in Nat
  <2> HIDE DEF q2
  <2> QED BY <1>0, <1>2, <1>3
<1>5. n \in Nat
  <2> HIDE DEF q1
  <2> QED BY <1>0, <1>2, <1>4
<1>6. q2 \div R = a /\ q2 % R = b
  <2>1. q2 = R * a + b
    BY <1>0, <1>2
  <2> HIDE DEF q2
  <2> QED BY <1>0, <1>2, <2>1, Quotient
<1>7. q1 \div R = q2 /\ q1 % R = c
  <2>1. q1 = R * q2 + c
    <3> HIDE DEF q2
    <3> QED BY <1>0, <1>2, <1>3
  <2> HIDE DEF q1, q2
  <2> QED BY <1>0, <1>2, <1>3, <2>1, Quotient
<1>8. n \div R = q1 /\ n % R = d
  <2>1. n = R * q1 + d
    <3> HIDE DEF q1
    <3> QED BY <1>0, <1>2, <1>4
  <2> HIDE DEF n, q1
  <2> QED BY <1>0, <1>2, <1>4, <2>1, Quotient
<1> HIDE DEF n, q1, q2
<1>9. n \div (R * R) = q2
  BY <1>0, <1>5, <1>7, <1>8, NestedDivision
<1>10. n \div ((R * R) * R) = a
  <2>1. n \div ((R * R) * R) = (n \div (R * R)) \div R
    BY <1>0, <1>5, NestedDivision
  <2> QED BY <1>6, <1>9, <2>1
<1>11. a % R = a
  BY <1>0, <1>2
<1>12. CountBytes(n) = <<a, b, c, d>>
  BY <1>1, <1>6, <1>7, <1>8, <1>9, <1>10, <1>11
<1> QED BY <1>5, <1>12 DEF n, q1, q2, R

-----------------------------------------------------------------------------
(* The layout of a frame *)

LEMMA SchemaShape ==
  ASSUME NEW schema, ValidSchema(schema)
  PROVE  /\ Len(schema.buttons) \in Nat /\ Len(schema.axes) \in Nat
         /\ DOMAIN schema.buttons = 1..Len(schema.buttons)
         /\ DOMAIN schema.axes = 1..Len(schema.axes)
         /\ \A names \in {schema.buttons, schema.axes} :
              \A i \in DOMAIN names : names[i] \in ToSet(names) /\ IndexOfName(names, names[i]) = i
         /\ \A names \in {schema.buttons, schema.axes} :
              \A name \in ToSet(names) : /\ IndexOfName(names, name) \in DOMAIN names
                                         /\ names[IndexOfName(names, name)] = name
<1>1. schema.buttons \in Seq(STRING) /\ schema.axes \in Seq(STRING)
  BY DEF ValidSchema
<1>2. ASSUME NEW names \in {schema.buttons, schema.axes}, NEW name \in ToSet(names)
      PROVE  IndexOfName(names, name) \in DOMAIN names /\ names[IndexOfName(names, name)] = name
  BY DEF IndexOfName, ToSet
<1>3. ASSUME NEW names \in {schema.buttons, schema.axes}, NEW i \in DOMAIN names
      PROVE  names[i] \in ToSet(names) /\ IndexOfName(names, names[i]) = i
  <2>1. names[i] \in ToSet(names)
    BY DEF ToSet
  <2>2. \A a, b \in DOMAIN names : names[a] = names[b] => a = b
    BY DEF ValidSchema, IsInjective
  <2> QED BY <1>2, <2>1, <2>2
<1> QED BY <1>1, <1>2, <1>3

LEMMA ButtonLayout ==
  ASSUME NEW schema, ValidSchema(schema)
  PROVE  LET L == Len(schema.buttons)
             B == ButtonBytes(schema)
         IN  /\ B \in Nat
             /\ \A i \in 1..L : /\ (i - 1) \div ByteBits \in 0..(B - 1)
                                /\ (i - 1) % ByteBits \in 0..(ByteBits - 1)
                                /\ ((i - 1) \div ByteBits) * ByteBits + ((i - 1) % ByteBits) + 1 = i
             /\ \A j \in 0..(B - 1), bit \in 0..(ByteBits - 1) :
                  j * ByteBits + bit + 1 > L => j = B - 1
<1> DEFINE L == Len(schema.buttons)
           B == ButtonBytes(schema)
           w == ByteBits
           x == L + w - 1
<1>0. w \in Nat \ {0} /\ L \in Nat /\ x \in Nat
  BY SchemaShape, ByteAssumption
<1>1. B = x \div w
  BY DEF ButtonBytes
<1> HIDE DEF w, L, B
<1>2. x = w * B + (x % w) /\ x % w \in 0..(w - 1) /\ B \in Int
  <2> HIDE DEF x
  <2> QED BY <1>0, <1>1, DivisionTheorem
<1>3. w * B >= L /\ w * B <= L + w - 1
  BY <1>0, <1>2
<1>4. B \in Nat
  <2> SUFFICES ASSUME B <= -1 PROVE FALSE
    BY <1>2
  <2>1. w * B <= -w /\ w * B \in Int
    BY <1>0, <1>2
  <2>2. w * B >= 0
    BY <1>0, <1>3, <2>1
  <2> QED BY <1>0, <2>1, <2>2
<1>5. ASSUME NEW i \in 1..L
      PROVE  /\ (i - 1) \div w \in 0..(B - 1)
             /\ (i - 1) % w \in 0..(w - 1)
             /\ ((i - 1) \div w) * w + ((i - 1) % w) + 1 = i
  <2> DEFINE q == (i - 1) \div w
             r == (i - 1) % w
  <2>0. i \in Int /\ i - 1 \in Nat
    BY <1>0
  <2>1. i - 1 = w * q + r /\ r \in 0..(w - 1) /\ q \in Int
    BY <1>0, <2>0, DivisionTheorem
  <2> HIDE DEF q, r
  <2>2. q >= 0
    <3> SUFFICES ASSUME q <= -1 PROVE FALSE
      BY <2>1
    <3>1. w * q <= -w
      BY <1>0, <2>1
    <3> QED BY <1>0, <2>0, <2>1, <3>1
  <2>3. q < B
    <3> SUFFICES ASSUME q >= B PROVE FALSE
      BY <1>4, <2>1
    <3>1. w * q >= w * B
      BY <1>0, <1>4, <2>1
    <3> QED BY <1>0, <1>3, <1>4, <2>0, <2>1, <3>1
  <2>4. q * w = w * q
    BY <1>0, <2>1
  <2>5. q * w + r + 1 = i
    BY <1>0, <2>0, <2>1, <2>4
  <2>6. q \in 0..(B - 1)
    BY <1>4, <2>1, <2>2, <2>3
  <2> QED BY <2>1, <2>5, <2>6 DEF q, r
<1>6. ASSUME NEW j \in 0..(B - 1), NEW bit \in 0..(w - 1), j * w + bit + 1 > L
      PROVE  j = B - 1
  <2> SUFFICES ASSUME j <= B - 2 PROVE FALSE
    BY <1>4
  <2>1. w * j <= w * (B - 2)
    BY <1>0, <1>4
  <2>2. w * (B - 2) = w * B - 2 * w /\ w * B \in Int
    BY <1>0, <1>4
  <2>3. j * w = w * j /\ w * j \in Int
    BY <1>0, <1>4
  <2> QED BY <1>0, <1>3, <1>6, <2>1, <2>2, <2>3
<1> QED BY <1>4, <1>5, <1>6 DEF L, B, w

(* A frame's bytes: its buttons', then two for each axis. *)
LEMMA FrameLayout ==
  ASSUME NEW schema, ValidSchema(schema)
  PROVE  LET w == FrameByteLength(schema)
             B == ButtonBytes(schema)
         IN  /\ w \in Nat \ {0}
             /\ \A j \in 1..B : j \in 1..w
             /\ \A k \in DOMAIN schema.axes :
                  /\ B + 2 * k - 1 \in 1..w /\ B + 2 * k \in 1..w
                  /\ ~(B + 2 * k - 1 <= B) /\ ~(B + 2 * k <= B)
             /\ \A j \in 1..w : ~(j <= B) =>
                  \E k \in DOMAIN schema.axes : j = B + 2 * k - 1 \/ j = B + 2 * k
<1> DEFINE w == FrameByteLength(schema)
           B == ButtonBytes(schema)
           A == Len(schema.axes)
           L == Len(schema.buttons)
<1>1. B \in Nat /\ A \in Nat /\ L \in Nat /\ DOMAIN schema.axes = 1..A /\ w = B + 2 * A
  BY SchemaShape, ButtonLayout DEF FrameByteLength
<1>2. L + A > 0
  BY DEF ValidSchema
<1>3. L > 0 => B > 0
  <2> SUFFICES ASSUME L > 0 PROVE B > 0
    OBVIOUS
  <2>1. 1 \in 1..L
    BY <1>1
  <2>2. (1 - 1) \div ByteBits \in 0..(B - 1)
    BY <2>1, ButtonLayout
  <2> QED BY <1>1, <2>2
<1> HIDE DEF w, B, A, L
<1>4. w \in Nat \ {0}
  BY <1>1, <1>2, <1>3
<1>5. \A j \in 1..B : j \in 1..w
  BY <1>1
<1>6. ASSUME NEW k \in 1..A
      PROVE  /\ B + 2 * k - 1 \in 1..w /\ B + 2 * k \in 1..w
             /\ ~(B + 2 * k - 1 <= B) /\ ~(B + 2 * k <= B)
  BY <1>1
<1>7. ASSUME NEW j \in 1..w, ~(j <= B)
      PROVE  \E k \in 1..A : j = B + 2 * k - 1 \/ j = B + 2 * k
  <2> DEFINE k == (j - B + 1) \div 2
  <2>1. k \in 1..A /\ (j = B + 2 * k - 1 \/ j = B + 2 * k)
    BY <1>1, <1>7
  <2> QED BY <2>1
<1> QED BY <1>1, <1>4, <1>5, <1>6, <1>7 DEF w, B

LEMMA AxisIsSigned ==
  ASSUME NEW schema, NEW chunk, NEW k,
         chunk[ButtonBytes(schema) + 2 * k - 1] \in Byte, chunk[ButtonBytes(schema) + 2 * k] \in Byte
  PROVE  AxisOf(schema, chunk, k) =
           Signed(chunk[ButtonBytes(schema) + 2 * k - 1], chunk[ButtonBytes(schema) + 2 * k])
<1> DEFINE high == chunk[ButtonBytes(schema) + 2 * k - 1]
           low == chunk[ButtonBytes(schema) + 2 * k]
           u == high * Radix + low
<1>1. AxisOf(schema, chunk, k) = IF u > AxisScale THEN u - Radix * Radix ELSE u
  BY Zenon DEF AxisOf
<1>2. high \in Int /\ low \in Int /\ Radix \in Int /\ AxisScale \in Int
  BY RadixFacts, AxisRange DEF Byte
<1> HIDE DEF high, low
<1>3. Signed(high, low) = IF u > AxisScale THEN u - Radix * Radix ELSE u
  BY <1>2 DEF Signed
<1> QED BY <1>1, <1>3 DEF high, low

CanonicalFrames(schema) ==
  [buttons : [ToSet(schema.buttons) -> BOOLEAN],
   axes : [ToSet(schema.axes) -> -AxisScale..AxisScale]]

ButtonBits(schema, frame, j) ==
  [bit \in 0..(ByteBits - 1) |->
     j * ByteBits + bit + 1 <= Len(schema.buttons)
       /\ frame.buttons[schema.buttons[j * ByteBits + bit + 1]]]

LEMMA FrameBytesAt ==
  ASSUME NEW schema, ValidSchema(schema), NEW frame
  PROVE  LET fb == FrameBytes(schema, frame)
             B == ButtonBytes(schema)
         IN  /\ DOMAIN fb = 1..FrameByteLength(schema)
             /\ fb = [j \in 1..FrameByteLength(schema) |-> fb[j]]
             /\ \A j \in 1..B : fb[j] = ByteOf(ButtonBits(schema, frame, j - 1))
             /\ \A k \in DOMAIN schema.axes :
                  /\ fb[B + 2 * k - 1] = AxisBytes(frame.axes[schema.axes[k]])[1]
                  /\ fb[B + 2 * k] = AxisBytes(frame.axes[schema.axes[k]])[2]
<1> DEFINE fb == FrameBytes(schema, frame)
           B == ButtonBytes(schema)
           at(j) == j - B - 1
<1>1. fb = [j \in 1..FrameByteLength(schema) |->
              IF j <= B THEN PackedByte(schema, frame, j - 1)
              ELSE AxisBytes(frame.axes[schema.axes[at(j) \div 2 + 1]])[(at(j) % 2) + 1]]
  BY DEF FrameBytes
<1>2. B \in Nat /\ \A j \in 1..B : j \in 1..FrameByteLength(schema)
  BY FrameLayout, ButtonLayout
<1> HIDE DEF fb
<1>3. ASSUME NEW j \in 1..B PROVE fb[j] = ByteOf(ButtonBits(schema, frame, j - 1))
  <2>1. j <= B /\ j \in 1..FrameByteLength(schema)
    BY <1>2
  <2>2. fb[j] = PackedByte(schema, frame, j - 1)
    BY <1>1, <2>1
  <2> QED BY <2>2 DEF PackedByte, ButtonBits
<1>4. ASSUME NEW k \in DOMAIN schema.axes
      PROVE  /\ fb[B + 2 * k - 1] = AxisBytes(frame.axes[schema.axes[k]])[1]
             /\ fb[B + 2 * k] = AxisBytes(frame.axes[schema.axes[k]])[2]
  <2>1. /\ B + 2 * k - 1 \in 1..FrameByteLength(schema) /\ B + 2 * k \in 1..FrameByteLength(schema)
        /\ ~(B + 2 * k - 1 <= B) /\ ~(B + 2 * k <= B)
    BY FrameLayout
  <2>2. k \in Nat /\ k >= 1
    BY SchemaShape
  <2>3. /\ at(B + 2 * k - 1) \div 2 + 1 = k /\ (at(B + 2 * k - 1) % 2) + 1 = 1
        /\ at(B + 2 * k) \div 2 + 1 = k /\ (at(B + 2 * k) % 2) + 1 = 2
    <3>1. at(B + 2 * k - 1) = 2 * (k - 1) /\ at(B + 2 * k) = 2 * (k - 1) + 1
      BY <1>2, <2>2
    <3>2. /\ (2 * (k - 1)) \div 2 + 1 = k /\ ((2 * (k - 1)) % 2) + 1 = 1
          /\ (2 * (k - 1) + 1) \div 2 + 1 = k /\ ((2 * (k - 1) + 1) % 2) + 1 = 2
      BY <2>2
    <3> HIDE DEF at
    <3> QED BY <3>1, <3>2
  <2> DEFINE p == B + 2 * k - 1
             q == B + 2 * k
  <2>4. /\ p \in 1..FrameByteLength(schema) /\ ~(p <= B) /\ at(p) \div 2 + 1 = k /\ (at(p) % 2) + 1 = 1
        /\ q \in 1..FrameByteLength(schema) /\ ~(q <= B) /\ at(q) \div 2 + 1 = k /\ (at(q) % 2) + 1 = 2
    BY <2>1, <2>3
  <2> HIDE DEF p, q, at, B
  <2>5. fb[p] = AxisBytes(frame.axes[schema.axes[k]])[1]
    BY <1>1, <2>4
  <2>6. fb[q] = AxisBytes(frame.axes[schema.axes[k]])[2]
    BY <1>1, <2>4
  <2> QED BY <2>5, <2>6 DEF p, q
<1> QED BY <1>1, <1>3, <1>4 DEF fb, B

(* A canonical frame is read back from its bytes, which pass every check. *)
LEMMA FrameReadsBack ==
  ASSUME NEW schema, ValidSchema(schema), NEW frame \in CanonicalFrames(schema)
  PROVE  LET fb == FrameBytes(schema, frame)
         IN  /\ fb \in [1..FrameByteLength(schema) -> Byte]
             /\ ChunkError(schema, fb) = "none"
             /\ DecodedFrame(schema, fb) = frame
<1> DEFINE fb == FrameBytes(schema, frame)
           B == ButtonBytes(schema)
           bits(j) == ButtonBits(schema, frame, j)
<1>1. /\ fb = [j \in 1..FrameByteLength(schema) |-> fb[j]]
      /\ \A j \in 1..B : fb[j] = ByteOf(bits(j - 1))
      /\ \A k \in DOMAIN schema.axes :
           /\ fb[B + 2 * k - 1] = AxisBytes(frame.axes[schema.axes[k]])[1]
           /\ fb[B + 2 * k] = AxisBytes(frame.axes[schema.axes[k]])[2]
  BY FrameBytesAt
<1>2. B \in Nat
  BY ButtonLayout
<1> HIDE DEF fb, B
<1>3. ASSUME NEW k \in DOMAIN schema.axes
      PROVE  /\ frame.axes[schema.axes[k]] \in -AxisScale..AxisScale
             /\ fb[B + 2 * k - 1] \in Byte /\ fb[B + 2 * k] \in Byte
             /\ AxisOf(schema, fb, k) = frame.axes[schema.axes[k]]
  <2>1. schema.axes[k] \in ToSet(schema.axes)
    BY SchemaShape
  <2>2. frame.axes[schema.axes[k]] \in -AxisScale..AxisScale
    BY <2>1 DEF CanonicalFrames
  <2>3. /\ fb[B + 2 * k - 1] \in Byte /\ fb[B + 2 * k] \in Byte
        /\ Signed(fb[B + 2 * k - 1], fb[B + 2 * k]) = frame.axes[schema.axes[k]]
    BY <1>1, <2>2, AxisReadsBack
  <2>4. AxisOf(schema, fb, k) = Signed(fb[B + 2 * k - 1], fb[B + 2 * k])
    BY <2>3, AxisIsSigned DEF B
  <2> QED BY <2>2, <2>3, <2>4
<1>4. ASSUME NEW j \in 1..B, NEW bit \in 0..(ByteBits - 1)
      PROVE  /\ fb[j] \in Byte
             /\ BitSet(fb[j], bit) <=> bits(j - 1)[bit]
  <2> DEFINE bs == bits(j - 1)
  <2>1. fb[j] = ByteOf(bs)
    BY <1>1
  <2> HIDE DEF bs
  <2>2. ByteOf(bs) \in Byte /\ (BitSet(ByteOf(bs), bit) <=> bs[bit])
    BY BitsOfByte
  <2> QED BY <2>1, <2>2 DEF bs
<1>5. fb \in [1..FrameByteLength(schema) -> Byte]
  <2> SUFFICES ASSUME NEW j \in 1..FrameByteLength(schema) PROVE fb[j] \in Byte
    BY <1>1
  <2>1. CASE j <= B
    <3>1. j \in 1..B /\ 0 \in 0..(ByteBits - 1)
      BY <1>2, <2>1, ByteAssumption, FrameLayout
    <3> QED BY <1>4, <3>1
  <2>2. CASE ~(j <= B)
    <3>1. PICK k \in DOMAIN schema.axes : j = B + 2 * k - 1 \/ j = B + 2 * k
      BY <2>2, FrameLayout DEF B
    <3> QED BY <1>3, <3>1
  <2> QED BY <2>1, <2>2
<1>6. ~PaddingSet(schema, fb)
  <2> SUFFICES ASSUME NEW bit \in 0..(ByteBits - 1),
                      (B - 1) * ByteBits + bit >= Len(schema.buttons), B > 0, BitSet(fb[B], bit)
               PROVE  FALSE
    BY DEF PaddingSet, B
  <2>1. B \in 1..B
    BY <1>2
  <2>2. bits(B - 1)[bit]
    BY <1>4, <2>1
  <2>3. (B - 1) * ByteBits + bit + 1 <= Len(schema.buttons)
    BY <2>2 DEF ButtonBits
  <2>4. (B - 1) * ByteBits \in Int /\ bit \in Int /\ Len(schema.buttons) \in Nat
    BY <1>2, ByteAssumption, SchemaShape
  <2> QED BY <2>3, <2>4
<1>7. ChunkError(schema, fb) = "none"
  <2>1. ~\E k \in DOMAIN schema.axes : AxisOf(schema, fb, k) = -AxisScale - 1
    BY <1>3, AxisRange
  <2> QED BY <1>6, <2>1 DEF ChunkError
<1>8. ASSUME NEW b \in ToSet(schema.buttons)
      PROVE  LET index == IndexOfName(schema.buttons, b) - 1
             IN  BitSet(fb[index \div ByteBits + 1], index % ByteBits) <=> frame.buttons[b]
  <2> DEFINE i == IndexOfName(schema.buttons, b)
             q == (i - 1) \div ByteBits
             r == (i - 1) % ByteBits
  <2>1. i \in 1..Len(schema.buttons) /\ schema.buttons[i] = b
    BY SchemaShape
  <2>2. q \in 0..(B - 1) /\ r \in 0..(ByteBits - 1) /\ q * ByteBits + r + 1 = i
    BY <2>1, ButtonLayout DEF B
  <2>3. q + 1 \in 1..B /\ (q + 1) - 1 = q
    BY <1>2, <2>2
  <2>4. i <= Len(schema.buttons)
    BY <2>1, SchemaShape
  <2> HIDE DEF i, q, r
  <2>5. BitSet(fb[q + 1], r) <=> bits(q)[r]
    BY <1>4, <2>2, <2>3
  <2>6. bits(q)[r] <=> frame.buttons[b]
    BY <2>1, <2>2, <2>4 DEF ButtonBits
  <2> QED BY <2>5, <2>6 DEF i, q, r
<1>9. DecodedFrame(schema, fb).buttons = frame.buttons
  <2> DEFINE d(b) == LET index == IndexOfName(schema.buttons, b) - 1
                     IN  BitSet(fb[index \div ByteBits + 1], index % ByteBits)
  <2>1. DecodedFrame(schema, fb).buttons = [b \in ToSet(schema.buttons) |-> d(b)]
    BY DEF DecodedFrame
  <2>2. frame.buttons \in [ToSet(schema.buttons) -> BOOLEAN]
    BY DEF CanonicalFrames
  <2>3. \A b \in ToSet(schema.buttons) : d(b) \in BOOLEAN
    BY DEF BitSet
  <2>4. \A b \in ToSet(schema.buttons) : d(b) <=> frame.buttons[b]
    BY <1>8
  <2> HIDE DEF d
  <2> QED BY <2>1, <2>2, <2>3, <2>4
<1>10. DecodedFrame(schema, fb).axes = frame.axes
  <2>1. DecodedFrame(schema, fb).axes =
          [x \in ToSet(schema.axes) |-> AxisOf(schema, fb, IndexOfName(schema.axes, x))]
    BY DEF DecodedFrame
  <2>2. \A x \in ToSet(schema.axes) :
          AxisOf(schema, fb, IndexOfName(schema.axes, x)) = frame.axes[x]
    BY <1>3, SchemaShape
  <2>3. frame.axes \in [ToSet(schema.axes) -> -AxisScale..AxisScale]
    BY DEF CanonicalFrames
  <2> QED BY <2>1, <2>2, <2>3
<1>11. DecodedFrame(schema, fb) = frame
  <2>1. DecodedFrame(schema, fb) =
          [buttons |-> DecodedFrame(schema, fb).buttons, axes |-> DecodedFrame(schema, fb).axes]
    BY DEF DecodedFrame
  <2>2. frame = [buttons |-> frame.buttons, axes |-> frame.axes]
    BY DEF CanonicalFrames
  <2> QED BY <1>9, <1>10, <2>1, <2>2
<1> QED BY <1>5, <1>7, <1>11 DEF fb

(* Bytes that pass every check are those of the frame they decode to. *)
LEMMA FrameIsCanonical ==
  ASSUME NEW schema, ValidSchema(schema),
         NEW chunk \in [1..FrameByteLength(schema) -> Byte], ChunkError(schema, chunk) = "none"
  PROVE  /\ DecodedFrame(schema, chunk) \in CanonicalFrames(schema)
         /\ FrameBytes(schema, DecodedFrame(schema, chunk)) = chunk
<1> DEFINE df == DecodedFrame(schema, chunk)
           fb == FrameBytes(schema, df)
           B == ButtonBytes(schema)
           w == FrameByteLength(schema)
           bits(j) == ButtonBits(schema, df, j)
<1>1. /\ fb = [j \in 1..w |-> fb[j]]
      /\ \A j \in 1..B : fb[j] = ByteOf(bits(j - 1))
      /\ \A k \in DOMAIN schema.axes :
           /\ fb[B + 2 * k - 1] = AxisBytes(df.axes[schema.axes[k]])[1]
           /\ fb[B + 2 * k] = AxisBytes(df.axes[schema.axes[k]])[2]
  <2> HIDE DEF df
  <2> QED BY FrameBytesAt
<1>2. B \in Nat /\ w \in Nat
  BY ButtonLayout, FrameLayout
<1>3. ~PaddingSet(schema, chunk) /\ \A k \in DOMAIN schema.axes : AxisOf(schema, chunk, k) # -AxisScale - 1
  BY DEF ChunkError
<1>4. ASSUME NEW k \in DOMAIN schema.axes
      PROVE  /\ AxisOf(schema, chunk, k) \in -AxisScale..AxisScale
             /\ AxisBytes(AxisOf(schema, chunk, k)) = <<chunk[B + 2 * k - 1], chunk[B + 2 * k]>>
  <2>1. chunk[B + 2 * k - 1] \in Byte /\ chunk[B + 2 * k] \in Byte
    BY FrameLayout
  <2>2. AxisOf(schema, chunk, k) = Signed(chunk[B + 2 * k - 1], chunk[B + 2 * k])
    BY <2>1, AxisIsSigned
  <2> QED BY <1>3, <2>1, <2>2, AxisIsCanonical
<1>5. df = [buttons |-> df.buttons, axes |-> df.axes]
  BY DEF DecodedFrame
<1>6. df.axes = [x \in ToSet(schema.axes) |-> AxisOf(schema, chunk, IndexOfName(schema.axes, x))]
  BY DEF DecodedFrame
<1>7. ASSUME NEW b \in ToSet(schema.buttons)
      PROVE  LET index == IndexOfName(schema.buttons, b) - 1
             IN  df.buttons[b] = BitSet(chunk[index \div ByteBits + 1], index % ByteBits)
  BY DEF DecodedFrame
<1>8. df.buttons \in [ToSet(schema.buttons) -> BOOLEAN]
  BY DEF DecodedFrame, BitSet
<1> HIDE DEF df
<1>9. df \in CanonicalFrames(schema)
  <2>1. \A x \in ToSet(schema.axes) :
          AxisOf(schema, chunk, IndexOfName(schema.axes, x)) \in -AxisScale..AxisScale
    BY <1>4, SchemaShape
  <2>2. df.axes \in [ToSet(schema.axes) -> -AxisScale..AxisScale]
    BY <1>6, <2>1
  <2> QED BY <1>5, <1>8, <2>2 DEF CanonicalFrames
<1>10. ASSUME NEW j \in 1..B, NEW bit \in 0..(ByteBits - 1)
       PROVE  bits(j - 1)[bit] = BitSet(chunk[j], bit)
  <2> DEFINE i == (j - 1) * ByteBits + bit + 1
  <2>0. j - 1 \in 0..(B - 1) /\ (j - 1) * ByteBits \in Nat /\ bit \in Nat /\ j - 1 \in Nat
    BY <1>2, ByteAssumption
  <2>1. bits(j - 1)[bit] = (i <= Len(schema.buttons) /\ df.buttons[schema.buttons[i]])
    BY DEF ButtonBits
  <2>2. CASE i <= Len(schema.buttons)
    <3>1. i \in DOMAIN schema.buttons
      BY <2>0, <2>2, SchemaShape
    <3>2. schema.buttons[i] \in ToSet(schema.buttons) /\ IndexOfName(schema.buttons, schema.buttons[i]) = i
      BY <3>1, SchemaShape
    <3>3. i - 1 = ByteBits * (j - 1) + bit
      BY <2>0, ByteAssumption
    <3>4. (i - 1) \div ByteBits = j - 1 /\ (i - 1) % ByteBits = bit
      <4>1. /\ (ByteBits * (j - 1) + bit) \div ByteBits = j - 1
            /\ (ByteBits * (j - 1) + bit) % ByteBits = bit
        BY <2>0, ByteAssumption, Quotient
      <4> HIDE DEF i
      <4> QED BY <3>3, <4>1
    <3>5. (j - 1) + 1 = j
      BY <2>0
    <3> HIDE DEF i
    <3>6. df.buttons[schema.buttons[i]] = BitSet(chunk[(j - 1) + 1], bit)
      BY <1>7, <3>2, <3>4
    <3>7. df.buttons[schema.buttons[i]] \in BOOLEAN
      BY <1>8, <3>2
    <3> QED BY <2>1, <2>2, <3>5, <3>6, <3>7
  <2>3. CASE ~(i <= Len(schema.buttons))
    <3>1. Len(schema.buttons) \in Nat
      BY SchemaShape
    <3>2. j - 1 = B - 1
      BY <2>0, <2>3, <3>1, ButtonLayout
    <3>3. j = B /\ B > 0 /\ (B - 1) * ByteBits + bit >= Len(schema.buttons)
      BY <1>2, <2>0, <2>3, <3>1, <3>2
    <3>4. ~BitSet(chunk[B], bit)
      BY <1>3, <3>3 DEF PaddingSet
    <3>5. BitSet(chunk[j], bit) = FALSE
      BY <3>3, <3>4 DEF BitSet
    <3> QED BY <2>1, <2>3, <3>5
  <2> QED BY <2>2, <2>3
<1>11. ASSUME NEW j \in 1..B PROVE fb[j] = chunk[j]
  <2>1. chunk[j] \in Byte
    BY FrameLayout
  <2>2. bits(j - 1) = [bit \in 0..(ByteBits - 1) |-> BitSet(chunk[j], bit)]
    <3>1. bits(j - 1) = [bit \in 0..(ByteBits - 1) |-> bits(j - 1)[bit]]
      BY DEF ButtonBits
    <3> HIDE DEF bits
    <3> QED BY <1>10, <3>1
  <2> QED BY <1>1, <2>1, <2>2, ByteOfItsBits
<1>12. ASSUME NEW k \in DOMAIN schema.axes
       PROVE  fb[B + 2 * k - 1] = chunk[B + 2 * k - 1] /\ fb[B + 2 * k] = chunk[B + 2 * k]
  <2>1. schema.axes[k] \in ToSet(schema.axes) /\ IndexOfName(schema.axes, schema.axes[k]) = k
    BY SchemaShape
  <2>2. df.axes[schema.axes[k]] = AxisOf(schema, chunk, k)
    BY <1>6, <2>1
  <2>3. AxisBytes(df.axes[schema.axes[k]]) = <<chunk[B + 2 * k - 1], chunk[B + 2 * k]>>
    BY <1>4, <2>2
  <2>4. /\ fb[B + 2 * k - 1] = AxisBytes(df.axes[schema.axes[k]])[1]
        /\ fb[B + 2 * k] = AxisBytes(df.axes[schema.axes[k]])[2]
    BY <1>1
  <2> HIDE DEF fb, B
  <2> QED BY <2>3, <2>4
<1>13. ASSUME NEW j \in 1..w PROVE fb[j] = chunk[j]
  <2>1. CASE j <= B
    <3>1. j \in 1..B
      BY <1>2, <2>1
    <3> QED BY <1>11, <3>1
  <2>2. CASE ~(j <= B)
    <3>1. PICK k \in DOMAIN schema.axes : j = B + 2 * k - 1 \/ j = B + 2 * k
      BY <2>2, FrameLayout
    <3> HIDE DEF fb, B
    <3> QED BY <1>12, <3>1
  <2> QED BY <2>1, <2>2
<1>14. chunk = [j \in 1..w |-> chunk[j]]
  OBVIOUS
<1>15. fb = chunk
  <2> HIDE DEF fb, w
  <2> QED BY <1>1, <1>13, <1>14
<1> QED BY <1>9, <1>15 DEF df

-----------------------------------------------------------------------------
(* The layout of a trace *)

(* The offset of byte j of frame i. *)
OffsetOf(schema, i, j) == HeaderBytes + (i - 1) * FrameByteLength(schema) + j

LEMMA TraceLength ==
  ASSUME NEW schema, ValidSchema(schema), NEW n \in Nat
  PROVE  /\ TraceByteLength(schema, n) = 5 + n * FrameByteLength(schema)
         /\ TraceByteLength(schema, n) \in Nat /\ TraceByteLength(schema, n) >= 5
         /\ n * FrameByteLength(schema) \in Nat
<1>1. FrameByteLength(schema) \in Nat
  BY FrameLayout
<1> DEFINE p == n * FrameByteLength(schema)
<1>2. p \in Nat
  BY <1>1
<1>3. TraceByteLength(schema, n) = 5 + p
  BY DEF TraceByteLength, HeaderBytes
<1> HIDE DEF p
<1>4. 5 + p \in Nat /\ 5 + p >= 5
  BY <1>2
<1> QED BY <1>2, <1>3, <1>4 DEF p

LEMMA OffsetsFit ==
  ASSUME NEW schema, ValidSchema(schema), NEW n \in Nat,
         NEW i \in 1..n, NEW j \in 1..FrameByteLength(schema)
  PROVE  /\ OffsetOf(schema, i, j) \in 6..TraceByteLength(schema, n)
         /\ (OffsetOf(schema, i, j) - HeaderBytes - 1) \div FrameByteLength(schema) + 1 = i
         /\ ((OffsetOf(schema, i, j) - HeaderBytes - 1) % FrameByteLength(schema)) + 1 = j
<1> DEFINE w == FrameByteLength(schema)
           T == TraceByteLength(schema, n)
           p == OffsetOf(schema, i, j)
           q == i - 1
           r == j - 1
<1>0. w \in Nat \ {0}
  BY FrameLayout
<1>1. T = 5 + n * w /\ n * w \in Nat
  BY TraceLength
<1>2. p = 5 + q * w + j
  BY DEF OffsetOf, HeaderBytes
<1> HIDE DEF w, p, T
<1>3. q \in Nat /\ r \in 0..(w - 1) /\ q + 1 <= n /\ i = q + 1 /\ j = r + 1
  BY <1>0 DEF w
<1> HIDE DEF q, r
<1>4. w * q \in Nat /\ q * w = w * q
  BY <1>0, <1>3
<1>5. w * (q + 1) <= w * n /\ w * (q + 1) = w * q + w /\ w * n = n * w
  BY <1>0, <1>3
<1>6. (w * q + r) \div w = q /\ (w * q + r) % w = r
  BY <1>0, <1>3, Quotient
<1>7. p - 5 - 1 = w * q + r
  BY <1>0, <1>2, <1>3, <1>4
<1>8. p \in 6..T
  BY <1>0, <1>1, <1>2, <1>3, <1>4, <1>5
<1> QED BY <1>3, <1>6, <1>7, <1>8 DEF w, p, T, HeaderBytes

LEMMA OffsetsCover ==
  ASSUME NEW schema, ValidSchema(schema), NEW n \in Nat, NEW p \in 6..TraceByteLength(schema, n)
  PROVE  \E i \in 1..n, j \in 1..FrameByteLength(schema) : p = OffsetOf(schema, i, j)
<1> DEFINE w == FrameByteLength(schema)
           x == p - 6
           q == x \div w
           r == x % w
<1>0. w \in Nat \ {0}
  BY FrameLayout
<1>1. \A i, j : OffsetOf(schema, i, j) = 5 + (i - 1) * w + j
  BY DEF OffsetOf, HeaderBytes
<1>2. n * w \in Nat /\ x \in Nat /\ x < n * w /\ p = x + 6
  BY TraceLength
<1> HIDE DEF x, w
<1>3. x = w * q + r /\ r \in 0..(w - 1) /\ q \in Int
  <2>1. x \in Int
    BY <1>2
  <2> QED BY <1>0, <2>1, DivisionTheorem
<1> HIDE DEF q, r
<1>4. q >= 0
  <2> SUFFICES ASSUME q <= -1 PROVE FALSE
    BY <1>3
  <2>1. w * q <= -w
    BY <1>0, <1>3
  <2> QED BY <1>0, <1>2, <1>3, <2>1
<1>5. q < n
  <2> SUFFICES ASSUME q >= n PROVE FALSE
    BY <1>3
  <2>1. w * q >= w * n /\ w * n = n * w
    BY <1>0, <1>3
  <2> QED BY <1>0, <1>2, <1>3, <2>1
<1>6. q + 1 \in 1..n /\ r + 1 \in 1..w
  BY <1>0, <1>3, <1>4, <1>5
<1>7. ((q + 1) - 1) * w = w * q
  BY <1>0, <1>3
<1>8. p = 5 + ((q + 1) - 1) * w + (r + 1)
  BY <1>0, <1>2, <1>3, <1>7
<1>9. p = OffsetOf(schema, q + 1, r + 1)
  BY <1>1, <1>8
<1> QED BY <1>6, <1>9 DEF w

LEMMA ChunkBytes ==
  ASSUME NEW schema, ValidSchema(schema), NEW n \in Nat, NEW bytes \in Seq(Byte),
         Len(bytes) = TraceByteLength(schema, n), NEW i \in 1..n
  PROVE  /\ Chunk(schema, bytes, i) \in [1..FrameByteLength(schema) -> Byte]
         /\ \A j \in 1..FrameByteLength(schema) :
              Chunk(schema, bytes, i)[j] = bytes[OffsetOf(schema, i, j)]
<1> DEFINE w == FrameByteLength(schema)
           m == HeaderBytes + (i - 1) * w + 1
           k == HeaderBytes + i * w
<1>1. w \in Nat \ {0}
  BY FrameLayout
<1>2. Chunk(schema, bytes, i) = SubSeq(bytes, m, k)
  BY DEF Chunk
<1>3. \A j : OffsetOf(schema, i, j) = HeaderBytes + (i - 1) * w + j
  BY DEF OffsetOf
<1>4. ASSUME NEW j \in 1..w PROVE OffsetOf(schema, i, j) \in 1..Len(bytes)
  <2>1. OffsetOf(schema, i, j) \in 6..Len(bytes)
    BY OffsetsFit
  <2> QED BY <2>1
<1> HIDE DEF w
<1>5. (i - 1) * w \in Int /\ i * w = (i - 1) * w + w
  BY <1>1
<1>6. m \in Int /\ k \in Int /\ k - m + 1 = w
  BY <1>1, <1>5 DEF HeaderBytes
<1>7. ASSUME NEW j \in 1..w PROVE m + j - 1 = OffsetOf(schema, i, j)
  BY <1>1, <1>3, <1>5 DEF HeaderBytes
<1>8. ASSUME NEW p \in m..k PROVE bytes[p] \in Byte
  <2>1. p - m + 1 \in 1..w /\ m + (p - m + 1) - 1 = p
    BY <1>1, <1>6
  <2>2. p = OffsetOf(schema, i, p - m + 1)
    <3> HIDE DEF m, k
    <3> QED BY <1>7, <2>1
  <2>3. p \in 1..Len(bytes)
    <3> HIDE DEF m, k
    <3> QED BY <1>4, <2>1, <2>2
  <2> QED BY <2>3, ElementOfSeq
<1> HIDE DEF m, k
<1> DEFINE s == SubSeq(bytes, m, k)
<1>9. s \in Seq(Byte) /\ Len(s) = w /\ \A j \in 1..w : s[j] = bytes[m + j - 1]
  <2>1. /\ s \in Seq(Byte) /\ Len(s) = (IF m <= k THEN k - m + 1 ELSE 0)
        /\ \A j \in 1..(k - m + 1) : s[j] = bytes[m + j - 1]
    BY <1>6, <1>8, SubSeqProperties
  <2>2. m <= k
    BY <1>1, <1>6
  <2> QED BY <1>6, <2>1, <2>2
<1>10. s \in [1..w -> Byte]
  <2> HIDE DEF s
  <2> QED BY <1>9, LenProperties
<1> QED BY <1>2, <1>7, <1>9, <1>10 DEF w

LEMMA EncodedAt ==
  ASSUME NEW schema, ValidSchema(schema), NEW frames, Len(frames) \in Nat
  PROVE  LET e == Encoded(schema, frames)
             n == Len(frames)
         IN  /\ e = [p \in 1..TraceByteLength(schema, n) |-> e[p]]
             /\ e[1] = Version
             /\ e[2] = CountBytes(n)[1] /\ e[3] = CountBytes(n)[2]
             /\ e[4] = CountBytes(n)[3] /\ e[5] = CountBytes(n)[4]
             /\ \A i \in 1..n, j \in 1..FrameByteLength(schema) :
                  e[OffsetOf(schema, i, j)] = FrameBytes(schema, frames[i])[j]
<1> DEFINE e == Encoded(schema, frames)
           n == Len(frames)
           w == FrameByteLength(schema)
           T == TraceByteLength(schema, n)
           at(p) == p - HeaderBytes - 1
<1>1. e = [p \in 1..T |-> IF p = 1 THEN Version
                          ELSE IF p <= HeaderBytes THEN CountBytes(n)[p - 1]
                          ELSE FrameBytes(schema, frames[at(p) \div w + 1])[(at(p) % w) + 1]]
  BY DEF Encoded
<1>2. T \in Nat /\ T >= 5 /\ HeaderBytes = 5
  BY TraceLength DEF HeaderBytes
<1>3. ASSUME NEW i \in 1..n, NEW j \in 1..w
      PROVE  /\ OffsetOf(schema, i, j) \in 1..T /\ OffsetOf(schema, i, j) # 1
             /\ ~(OffsetOf(schema, i, j) <= HeaderBytes)
             /\ at(OffsetOf(schema, i, j)) \div w + 1 = i
             /\ (at(OffsetOf(schema, i, j)) % w) + 1 = j
  <2>1. OffsetOf(schema, i, j) \in 6..T
    BY OffsetsFit
  <2>2. /\ at(OffsetOf(schema, i, j)) \div w + 1 = i
        /\ (at(OffsetOf(schema, i, j)) % w) + 1 = j
    BY OffsetsFit
  <2> HIDE DEF T, at
  <2> QED BY <1>2, <2>1, <2>2
<1> HIDE DEF e, T, at, w
<1>4. ASSUME NEW i \in 1..n, NEW j \in 1..w
      PROVE  e[OffsetOf(schema, i, j)] = FrameBytes(schema, frames[i])[j]
  BY <1>1, <1>3
<1>5. 1 \in 1..T /\ 2 \in 1..T /\ 3 \in 1..T /\ 4 \in 1..T /\ 5 \in 1..T
  BY <1>2
<1>6. /\ e[1] = Version
      /\ e[2] = CountBytes(n)[1] /\ e[3] = CountBytes(n)[2]
      /\ e[4] = CountBytes(n)[3] /\ e[5] = CountBytes(n)[4]
  BY <1>1, <1>2, <1>5
<1>7. e = [p \in 1..T |-> e[p]]
  BY <1>1
<1> QED BY <1>4, <1>6, <1>7 DEF e, T, w

Uint32Max == Radix * Radix * Radix * Radix - 1

LEMMA EncodedIsBytes ==
  ASSUME NEW schema, ValidSchema(schema), NEW frames \in Seq(CanonicalFrames(schema)),
         Len(frames) <= Uint32Max
  PROVE  /\ Encoded(schema, frames) \in Seq(Byte)
         /\ Len(Encoded(schema, frames)) = TraceByteLength(schema, Len(frames))
         /\ CountOf(Encoded(schema, frames)) = Len(frames)
<1> DEFINE e == Encoded(schema, frames)
           n == Len(frames)
           T == TraceByteLength(schema, n)
           c == CountBytes(n)
<1>1. n \in Nat /\ n < Radix * Radix * Radix * Radix
  <2>1. n \in Nat
    BY LenProperties
  <2>2. Radix * Radix * Radix * Radix \in Int
    BY RadixFacts
  <2> DEFINE m == Radix * Radix * Radix * Radix
  <2>3. n <= m - 1
    BY DEF Uint32Max
  <2> HIDE DEF m, n
  <2> QED BY <2>1, <2>2, <2>3 DEF m
<1>2. T \in Nat /\ T >= 5
  BY <1>1, TraceLength
<1>3. /\ e = [p \in 1..T |-> e[p]] /\ e[1] = Version
      /\ e[2] = c[1] /\ e[3] = c[2] /\ e[4] = c[3] /\ e[5] = c[4]
      /\ \A i \in 1..n, j \in 1..FrameByteLength(schema) :
           e[OffsetOf(schema, i, j)] = FrameBytes(schema, frames[i])[j]
  BY <1>1, EncodedAt
<1>4. c \in [1..4 -> Byte] /\ ((c[1] * Radix + c[2]) * Radix + c[3]) * Radix + c[4] = n
  BY <1>1, CountReadsBack
<1> HIDE DEF e, c, T
<1>5. ASSUME NEW p \in 1..T PROVE e[p] \in Byte
  <2>1. CASE p = 1
    <3>1. Version \in Byte
      BY RadixFacts DEF Version, Byte
    <3> QED BY <1>3, <2>1, <3>1
  <2>2. CASE p \in 2..5
    <3>1. p = 2 \/ p = 3 \/ p = 4 \/ p = 5
      BY <2>2
    <3>2. c[1] \in Byte /\ c[2] \in Byte /\ c[3] \in Byte /\ c[4] \in Byte
      BY <1>4
    <3> QED BY <1>3, <3>1, <3>2
  <2>3. CASE p \in 6..T
    <3>1. PICK i \in 1..n, j \in 1..FrameByteLength(schema) : p = OffsetOf(schema, i, j)
      BY <1>1, <2>3, OffsetsCover DEF T
    <3>2. frames[i] \in CanonicalFrames(schema)
      BY ElementOfSeq
    <3>3. FrameBytes(schema, frames[i]) \in [1..FrameByteLength(schema) -> Byte]
      BY <3>2, FrameReadsBack
    <3> QED BY <1>3, <3>1, <3>3
  <2> QED BY <1>2, <2>1, <2>2, <2>3
<1>6. e \in [1..T -> Byte]
  BY <1>3, <1>5
<1>7. e \in Seq(Byte) /\ Len(e) = T
  <2>1. e \in Seq(Byte)
    BY <1>2, <1>6, SeqDef
  <2>2. DOMAIN e = 1..T /\ DOMAIN e = 1..Len(e) /\ Len(e) \in Nat
    BY <1>6, <2>1, LenProperties
  <2> QED BY <1>2, <2>1, <2>2
<1>8. CountOf(e) = n
  BY <1>3, <1>4 DEF CountOf
<1> QED BY <1>7, <1>8 DEF e, T

LEMMA EncodedChunk ==
  ASSUME NEW schema, ValidSchema(schema), NEW frames \in Seq(CanonicalFrames(schema)),
         Len(frames) <= Uint32Max, NEW i \in 1..Len(frames)
  PROVE  Chunk(schema, Encoded(schema, frames), i) = FrameBytes(schema, frames[i])
<1> DEFINE e == Encoded(schema, frames)
           w == FrameByteLength(schema)
           ch == Chunk(schema, e, i)
           fb == FrameBytes(schema, frames[i])
<1>0. Len(frames) \in Nat
  BY LenProperties
<1>1. ch \in [1..w -> Byte] /\ \A j \in 1..w : ch[j] = e[OffsetOf(schema, i, j)]
  BY <1>0, EncodedIsBytes, ChunkBytes
<1>2. fb \in [1..w -> Byte]
  <2>1. frames[i] \in CanonicalFrames(schema)
    BY ElementOfSeq
  <2> QED BY <2>1, FrameReadsBack
<1>3. \A j \in 1..w : e[OffsetOf(schema, i, j)] = fb[j]
  BY <1>0, EncodedAt
<1> HIDE DEF ch, fb, w, e
<1>4. \A j \in 1..w : ch[j] = fb[j]
  BY <1>1, <1>3
<1>5. ch = fb
  <2>1. ch = [j \in 1..w |-> ch[j]] /\ fb = [j \in 1..w |-> fb[j]]
    BY <1>1, <1>2
  <2> QED BY <1>4, <2>1
<1> QED BY <1>5 DEF ch, fb, e

LEMMA PayloadChecked ==
  ASSUME NEW schema, NEW bytes, CountOf(bytes) \in Nat
  PROVE  PayloadError(schema, bytes) = "none" <=>
           \A i \in 1..CountOf(bytes) : ChunkError(schema, Chunk(schema, bytes, i)) = "none"
<1> DEFINE wrong == {i \in 1..CountOf(bytes) : ChunkError(schema, Chunk(schema, bytes, i)) # "none"}
<1>1. PayloadError(schema, bytes) =
        IF wrong = {} THEN "none" ELSE ChunkError(schema, Chunk(schema, bytes, Min(wrong)))
  BY DEF PayloadError
<1>2. wrong # {} => Min(wrong) \in wrong
  <2>1. wrong \in SUBSET Nat
    OBVIOUS
  <2> HIDE DEF wrong
  <2> QED BY <2>1, LeastIsMember
<1>3. wrong # {} => ChunkError(schema, Chunk(schema, bytes, Min(wrong))) # "none"
  BY <1>2
<1> QED BY <1>1, <1>3

(* Whatever encodeTrace accepts, decodeTrace accepts and reads back: no      *)
(* schema, no limits and no frames make an honest trace undecodable.         *)
THEOREM TraceReadsBack ==
  ASSUME NEW schema, ValidSchema(schema), NEW limits,
         NEW frames \in Seq(CanonicalFrames(schema)), Len(frames) <= Uint32Max,
         EncodeError(schema, frames, limits) = "none"
  PROVE  /\ DecodeError(schema, Encoded(schema, frames), limits) = "none"
         /\ Decoded(schema, Encoded(schema, frames)) = frames
<1> DEFINE e == Encoded(schema, frames)
           n == Len(frames)
<1>0. n \in Nat /\ DOMAIN frames = 1..n /\ frames = [i \in 1..n |-> frames[i]]
  BY LenProperties
<1>1. e \in Seq(Byte) /\ Len(e) = TraceByteLength(schema, n) /\ CountOf(e) = n
  BY EncodedIsBytes
<1>2. e[1] = Version
  BY <1>0, EncodedAt
<1>3. \A i \in 1..n : Chunk(schema, e, i) = FrameBytes(schema, frames[i])
  BY EncodedChunk
<1>4. ASSUME NEW i \in 1..n
      PROVE  /\ ChunkError(schema, Chunk(schema, e, i)) = "none"
             /\ DecodedFrame(schema, Chunk(schema, e, i)) = frames[i]
  <2>1. frames[i] \in CanonicalFrames(schema)
    BY ElementOfSeq
  <2>2. /\ ChunkError(schema, FrameBytes(schema, frames[i])) = "none"
        /\ DecodedFrame(schema, FrameBytes(schema, frames[i])) = frames[i]
    BY <2>1, FrameReadsBack
  <2> QED BY <1>3, <2>2
<1>5. ~FrameLimitError(n, limits) /\ ~(TraceByteLength(schema, n) > limits.maxBytes)
  BY DEF EncodeError
<1>6. TraceByteLength(schema, n) \in Nat /\ TraceByteLength(schema, n) >= 5
  BY <1>0, TraceLength
<1> HIDE DEF e
<1>7. PayloadError(schema, e) = "none"
  BY <1>0, <1>1, <1>4, PayloadChecked
<1>8. DecodeError(schema, e, limits) = "none"
  BY <1>1, <1>2, <1>5, <1>6, <1>7 DEF DecodeError, HeaderBytes
<1>9. Decoded(schema, e) = [i \in 1..n |-> DecodedFrame(schema, Chunk(schema, e, i))]
  BY <1>1 DEF Decoded
<1>10. Decoded(schema, e) = frames
  BY <1>0, <1>4, <1>9
<1> QED BY <1>8, <1>10 DEF e

LEMMA DecodedShape ==
  ASSUME NEW schema, ValidSchema(schema), NEW limits, NEW bytes \in Seq(Byte),
         DecodeError(schema, bytes, limits) = "none"
  PROVE  /\ CountOf(bytes) \in Nat
         /\ CountBytes(CountOf(bytes)) = <<bytes[2], bytes[3], bytes[4], bytes[5]>>
         /\ bytes[1] = Version
         /\ Len(bytes) = TraceByteLength(schema, CountOf(bytes))
         /\ \A i \in 1..CountOf(bytes) :
              /\ Chunk(schema, bytes, i) \in [1..FrameByteLength(schema) -> Byte]
              /\ ChunkError(schema, Chunk(schema, bytes, i)) = "none"
<1>1. /\ ~(Len(bytes) < HeaderBytes) /\ bytes[1] = Version
      /\ Len(bytes) = TraceByteLength(schema, CountOf(bytes))
      /\ PayloadError(schema, bytes) = "none"
  BY DEF DecodeError
<1>2. 2 \in 1..Len(bytes) /\ 3 \in 1..Len(bytes) /\ 4 \in 1..Len(bytes) /\ 5 \in 1..Len(bytes)
  <2>1. Len(bytes) \in Nat
    BY LenProperties
  <2> QED BY <1>1, <2>1 DEF HeaderBytes
<1>3. bytes[2] \in Byte /\ bytes[3] \in Byte /\ bytes[4] \in Byte /\ bytes[5] \in Byte
  BY <1>2, ElementOfSeq
<1>4. CountOf(bytes) \in Nat /\ CountBytes(CountOf(bytes)) = <<bytes[2], bytes[3], bytes[4], bytes[5]>>
  BY <1>3, CountIsCanonical DEF CountOf
<1>5. \A i \in 1..CountOf(bytes) : ChunkError(schema, Chunk(schema, bytes, i)) = "none"
  BY <1>1, <1>4, PayloadChecked
<1>6. \A i \in 1..CountOf(bytes) : Chunk(schema, bytes, i) \in [1..FrameByteLength(schema) -> Byte]
  BY <1>1, <1>4, ChunkBytes
<1> QED BY <1>1, <1>4, <1>5, <1>6

LEMMA DecodedAreCanonical ==
  ASSUME NEW schema, ValidSchema(schema), NEW limits, NEW bytes \in Seq(Byte),
         DecodeError(schema, bytes, limits) = "none"
  PROVE  /\ Decoded(schema, bytes) \in Seq(CanonicalFrames(schema))
         /\ Len(Decoded(schema, bytes)) = CountOf(bytes)
<1> DEFINE d == Decoded(schema, bytes)
           n == CountOf(bytes)
<1>1. n \in Nat
  BY DecodedShape
<1>2. d = [i \in 1..n |-> DecodedFrame(schema, Chunk(schema, bytes, i))]
  BY DEF Decoded
<1>3. \A i \in 1..n : DecodedFrame(schema, Chunk(schema, bytes, i)) \in CanonicalFrames(schema)
  BY DecodedShape, FrameIsCanonical
<1> HIDE DEF d, n
<1>4. d \in [1..n -> CanonicalFrames(schema)]
  BY <1>2, <1>3
<1>5. d \in Seq(CanonicalFrames(schema))
  BY <1>1, <1>4, SeqDef
<1>6. DOMAIN d = 1..n /\ DOMAIN d = 1..Len(d) /\ Len(d) \in Nat
  BY <1>4, <1>5, LenProperties
<1>7. Len(d) = n
  BY <1>1, <1>6
<1> QED BY <1>5, <1>7 DEF d, n

(* An input has one encoding: bytes that decodeTrace accepts are, to the     *)
(* last bit, the encoding of the frames it returns.  No padding, axis value, *)
(* frame count or length can be changed without changing the decoded input.  *)
THEOREM OneEncoding ==
  ASSUME NEW schema, ValidSchema(schema), NEW limits, NEW bytes \in Seq(Byte),
         DecodeError(schema, bytes, limits) = "none"
  PROVE  Encoded(schema, Decoded(schema, bytes)) = bytes
<1> DEFINE d == Decoded(schema, bytes)
           n == CountOf(bytes)
           e == Encoded(schema, d)
           T == TraceByteLength(schema, n)
           w == FrameByteLength(schema)
<1>1. n \in Nat /\ Len(d) = n /\ Len(bytes) = T
  BY DecodedShape, DecodedAreCanonical
<1>2. bytes[1] = Version /\ CountBytes(n) = <<bytes[2], bytes[3], bytes[4], bytes[5]>>
  BY DecodedShape
<1>3. ASSUME NEW i \in 1..n
      PROVE  FrameBytes(schema, d[i]) = Chunk(schema, bytes, i)
  <2>1. d[i] = DecodedFrame(schema, Chunk(schema, bytes, i))
    BY DEF Decoded
  <2>2. /\ Chunk(schema, bytes, i) \in [1..w -> Byte]
        /\ ChunkError(schema, Chunk(schema, bytes, i)) = "none"
    BY DecodedShape
  <2> HIDE DEF d
  <2> QED BY <2>1, <2>2, FrameIsCanonical
<1>4. \A i \in 1..n, j \in 1..w : Chunk(schema, bytes, i)[j] = bytes[OffsetOf(schema, i, j)]
  BY <1>1, ChunkBytes
<1> HIDE DEF d
<1>5. /\ e = [p \in 1..T |-> e[p]] /\ e[1] = Version
      /\ e[2] = CountBytes(n)[1] /\ e[3] = CountBytes(n)[2]
      /\ e[4] = CountBytes(n)[3] /\ e[5] = CountBytes(n)[4]
      /\ \A i \in 1..n, j \in 1..w : e[OffsetOf(schema, i, j)] = FrameBytes(schema, d[i])[j]
  <2>1. Len(d) \in Nat
    BY <1>1
  <2>2. /\ e = [p \in 1..TraceByteLength(schema, Len(d)) |-> e[p]] /\ e[1] = Version
        /\ e[2] = CountBytes(Len(d))[1] /\ e[3] = CountBytes(Len(d))[2]
        /\ e[4] = CountBytes(Len(d))[3] /\ e[5] = CountBytes(Len(d))[4]
        /\ \A i \in 1..Len(d), j \in 1..w : e[OffsetOf(schema, i, j)] = FrameBytes(schema, d[i])[j]
    BY <2>1, EncodedAt
  <2>3. Len(d) = n
    BY <1>1
  <2> HIDE DEF n, e
  <2> QED BY <2>2, <2>3
<1>6. T \in Nat /\ T >= 5
  BY <1>1, TraceLength
<1> HIDE DEF e
<1>7. ASSUME NEW p \in 1..T PROVE e[p] = bytes[p]
  <2>1. CASE p \in 1..5
    <3>1. p = 1 \/ p = 2 \/ p = 3 \/ p = 4 \/ p = 5
      BY <2>1
    <3> QED BY <1>2, <1>5, <3>1
  <2>2. CASE p \in 6..T
    <3>1. PICK i \in 1..n, j \in 1..w : p = OffsetOf(schema, i, j)
      BY <1>1, <2>2, OffsetsCover
    <3>2. e[p] = FrameBytes(schema, d[i])[j]
      BY <1>5, <3>1
    <3>3. FrameBytes(schema, d[i])[j] = Chunk(schema, bytes, i)[j]
      BY <1>3
    <3>4. Chunk(schema, bytes, i)[j] = bytes[p]
      BY <1>4, <3>1
    <3> QED BY <3>2, <3>3, <3>4
  <2> QED BY <1>6, <2>1, <2>2
<1>8. bytes = [p \in 1..T |-> bytes[p]]
  BY <1>1, LenProperties
<1> HIDE DEF T
<1>9. e = bytes
  BY <1>5, <1>7, <1>8
<1> QED BY <1>9 DEF e, d

-----------------------------------------------------------------------------
(* The inductive invariant *)

(* The frames of a run lead from the opening to the state, and a fight among *)
(* them was decided by none before the last.                                 *)
LeadTo(g, frames, m) ==
  /\ frames \in Seq(CanonicalFrames(SchemaOf(g)))
  /\ Len(frames) <= MaxFrames
  /\ Course(g, frames)[Len(frames)] = m
  /\ g = "rpr" => \A k \in 0..(Len(frames) - 1) : ~Over(Course(g, frames)[k])

ControlTypeOK ==
  /\ game \in Games
  /\ scene \in [acc : Nat, stage : Stages, timer : 0..KoDelay]
  /\ handle \in [suspended : SUBSET Reasons, paused : BOOLEAN]
  /\ aborted \in BOOLEAN

RecordedIsPlayed == LeadTo(game, recorder, match)

StageFollowsMatch ==
  /\ scene.stage = "playing" => ~Ended(game, match)
  /\ scene.stage \in {"settled", "deriving", "reported"} => Ended(game, match)

SuspendedIsPaused == handle.suspended # {} => handle.paused

CompletedOnce ==
  /\ completion # {} => scene.stage = "reported"
  /\ \A done \in completion :
       /\ Encoding(game, recorder) = "none"
       /\ done.bytes = Encoded(SchemaOf(game), recorder)
       /\ done.claim = Claim(done.bytes)

PostsAreAnswered ==
  \A post \in submitted :
    /\ post = [bytes |-> post.bytes, claim |-> post.claim,
               altered |-> post.altered, verdict |-> post.verdict]
    /\ post.bytes \in Seq(Byte) /\ post.altered \in Nat
    /\ post.altered = 0 =>
         \E done \in completion : done.bytes = post.bytes /\ done.claim = post.claim
    /\ post.verdict # "none" => post.verdict = VerdictOn(game, post.bytes, post.claim)

IInv ==
  /\ ControlTypeOK
  /\ RecordedIsPlayed
  /\ StageFollowsMatch
  /\ SuspendedIsPaused
  /\ CompletedOnce
  /\ PostsAreAnswered

-----------------------------------------------------------------------------
(* The course of a run *)

IsCourse(g, frames, n, f) ==
  f = [k \in 0..n |-> IF k = 0 THEN Opening(g) ELSE Replayed(g, f[k - 1], frames[k])]

LEMMA CourseDefined ==
  ASSUME NEW g, NEW frames, NEW n \in Nat
  PROVE  \E f : IsCourse(g, frames, n, f)
<1> DEFINE T == {N \in Nat : \E f : IsCourse(g, frames, N, f)}
<1>1. 0 \in T
  <2>1. IsCourse(g, frames, 0, [k \in 0..0 |-> Opening(g)])
    BY DEF IsCourse
  <2> QED BY <2>1
<1>2. ASSUME NEW N \in Nat, N \in T PROVE N + 1 \in T
  <2>1. PICK f : IsCourse(g, frames, N, f)
    BY <1>2
  <2> DEFINE h == [k \in 0..(N + 1) |-> IF k = N + 1 THEN Replayed(g, f[N], frames[N + 1]) ELSE f[k]]
  <2>2. ASSUME NEW k \in 0..(N + 1)
        PROVE  h[k] = IF k = 0 THEN Opening(g) ELSE Replayed(g, h[k - 1], frames[k])
    <3>1. CASE k = N + 1
      BY <3>1
    <3>2. CASE k # N + 1
      <4>1. k \in 0..N /\ h[k] = f[k]
        BY <3>2
      <4>2. k # 0 => k - 1 \in 0..N /\ h[k - 1] = f[k - 1]
        BY <4>1
      <4> QED BY <2>1, <4>1, <4>2 DEF IsCourse
    <3> QED BY <3>1, <3>2
  <2>3. IsCourse(g, frames, N + 1, h)
    BY <2>2 DEF IsCourse
  <2>4. \E e : IsCourse(g, frames, N + 1, e)
    <3> HIDE DEF h
    <3> QED BY <2>3
  <2> QED BY <2>4
<1>3. n \in T
  <2> HIDE DEF T
  <2> QED BY <1>1, <1>2, ByInduction
<1> QED BY <1>3

LEMMA CourseUnfolds ==
  ASSUME NEW g, NEW frames, Len(frames) \in Nat
  PROVE  /\ Course(g, frames)[0] = Opening(g)
         /\ \A k \in 1..Len(frames) :
              Course(g, frames)[k] = Replayed(g, Course(g, frames)[k - 1], frames[k])
<1>1. \E f : IsCourse(g, frames, Len(frames), f)
  BY CourseDefined
<1>2. Course(g, frames) = CHOOSE f : IsCourse(g, frames, Len(frames), f)
  BY DEF Course, IsCourse
<1>3. IsCourse(g, frames, Len(frames), Course(g, frames))
  BY <1>1, <1>2
<1> DEFINE c == Course(g, frames)
<1> HIDE DEF c
<1>4. c = [k \in 0..Len(frames) |-> IF k = 0 THEN Opening(g) ELSE Replayed(g, c[k - 1], frames[k])]
  BY <1>3 DEF IsCourse, c
<1>5. c[0] = Opening(g) /\ \A k \in 1..Len(frames) : c[k] = Replayed(g, c[k - 1], frames[k])
  BY <1>4
<1> QED BY <1>5 DEF c

(* A frame more leaves the course up to it as it was. *)
LEMMA CourseAppend ==
  ASSUME NEW g, NEW S, NEW frames \in Seq(S), NEW frame \in S
  PROVE  LET more == Append(frames, frame)
         IN  /\ more \in Seq(S) /\ Len(more) = Len(frames) + 1
             /\ \A k \in 0..Len(frames) : Course(g, more)[k] = Course(g, frames)[k]
             /\ Course(g, more)[Len(frames) + 1] = Replayed(g, Course(g, frames)[Len(frames)], frame)
<1> DEFINE more == Append(frames, frame)
           n == Len(frames)
           c == Course(g, frames)
           d == Course(g, more)
<1>1. /\ n \in Nat /\ more \in Seq(S) /\ Len(more) = n + 1
      /\ \A i \in 1..n : more[i] = frames[i]
      /\ more[n + 1] = frame
  BY AppendProperties, LenProperties
<1>2. c[0] = Opening(g) /\ \A k \in 1..n : c[k] = Replayed(g, c[k - 1], frames[k])
  BY <1>1, CourseUnfolds
<1>3. d[0] = Opening(g) /\ \A k \in 1..(n + 1) : d[k] = Replayed(g, d[k - 1], more[k])
  <2>1. Len(more) \in Nat
    BY <1>1
  <2> HIDE DEF more
  <2> QED BY <1>1, <2>1, CourseUnfolds
<1> HIDE DEF more, n, c, d
<1> DEFINE T == {k \in Nat : k <= n => d[k] = c[k]}
<1>4. 0 \in T
  BY <1>2, <1>3
<1>5. ASSUME NEW k \in Nat, k \in T PROVE k + 1 \in T
  <2>1. CASE k + 1 <= n
    <3>1. k + 1 \in 1..n /\ k + 1 \in 1..(n + 1) /\ (k + 1) - 1 = k /\ k <= n
      BY <1>1, <2>1
    <3>2. d[k] = c[k]
      BY <1>5, <3>1
    <3>3. d[k + 1] = Replayed(g, d[k], more[k + 1]) /\ c[k + 1] = Replayed(g, c[k], frames[k + 1])
      BY <1>2, <1>3, <3>1
    <3> QED BY <1>1, <3>1, <3>2, <3>3
  <2>2. CASE ~(k + 1 <= n)
    BY <2>2
  <2> QED BY <2>1, <2>2
<1>6. ASSUME NEW k \in 0..n PROVE d[k] = c[k]
  <2>1. k \in T
    <3> HIDE DEF T
    <3> QED BY <1>1, <1>4, <1>5, ByInduction
  <2> QED BY <1>1, <2>1
<1>7. d[n + 1] = Replayed(g, c[n], frame)
  <2>1. n + 1 \in 1..(n + 1) /\ (n + 1) - 1 = n /\ n \in 0..n
    BY <1>1
  <2>2. d[n + 1] = Replayed(g, d[n], more[n + 1])
    BY <1>3, <2>1
  <2> QED BY <1>1, <1>6, <2>1, <2>2
<1> QED BY <1>1, <1>6, <1>7 DEF more, n, c, d

-----------------------------------------------------------------------------
(* The update loop *)

LEMMA SchemaOfGame ==
  ASSUME NEW g \in Games
  PROVE  ValidSchema(SchemaOf(g))
BY SchemasAssumption DEF SchemaOf

LEMMA QuantizedFits ==
  ASSUME NEW r \in Int
  PROVE  Quantized(r) \in -AxisScale..AxisScale
<1> DEFINE S == AxisScale
           F == AxisFine
           c == Clamped(r)
           D == 2 * F
           q == (2 * c + F) \div D
           x == 2 * c + F
<1>0. S \in Nat /\ F \in Nat \ {0} /\ S * F \in Nat
  BY AxisRange, AxisAssumption
<1>1. c \in Int /\ c <= S * F /\ c >= -(S * F)
  BY <1>0 DEF Clamped
<1>2. Quantized(r) = q
  BY DEF Quantized
<1> HIDE DEF S, F, c
<1>3. D \in Nat \ {0} /\ x \in Int
  BY <1>0, <1>1
<1>4. x = D * q + (x % D) /\ x % D \in 0..(D - 1) /\ q \in Int
  <2> HIDE DEF D
  <2> QED BY <1>3, DivisionTheorem
<1>5. D * S = 2 * (S * F)
  BY <1>0
<1>6. x <= D * S + F /\ x >= F - D * S /\ F < D
  <2> HIDE DEF D
  <2>1. x <= 2 * (S * F) + F /\ x >= F - 2 * (S * F)
    BY <1>0, <1>1
  <2> QED BY <1>0, <1>5, <2>1 DEF D
<1> HIDE DEF x, q, D
<1>7. q <= S
  <2> SUFFICES ASSUME q >= S + 1 PROVE FALSE
    BY <1>0, <1>4
  <2>1. D * q >= D * (S + 1) /\ D * (S + 1) = D * S + D /\ D * S \in Int /\ D * q \in Int
    BY <1>0, <1>3, <1>4
  <2> QED BY <1>0, <1>3, <1>4, <1>6, <2>1
<1>8. q >= -S
  <2> SUFFICES ASSUME q <= -S - 1 PROVE FALSE
    BY <1>0, <1>4
  <2>1. D * q <= D * (-S - 1) /\ D * (-S - 1) = -(D * S) - D /\ D * S \in Int /\ D * q \in Int
    BY <1>0, <1>3, <1>4
  <2> QED BY <1>0, <1>3, <1>4, <1>6, <2>1
<1> QED BY <1>0, <1>2, <1>4, <1>7, <1>8 DEF S

LEMMA CanonicalizedIsCanonical ==
  ASSUME NEW g \in Games, NEW raw \in RawFrames[g]
  PROVE  Canonicalized(SchemaOf(g), raw) \in CanonicalFrames(SchemaOf(g))
<1> DEFINE schema == SchemaOf(g)
           frame == Canonicalized(schema, raw)
<1>1. /\ raw.buttons \in [DOMAIN raw.buttons -> BOOLEAN]
      /\ raw.axes \in [DOMAIN raw.axes -> Int]
  BY RawFramesAssumption
<1>2. frame = [buttons |-> [b \in ToSet(schema.buttons) |-> b \in DOMAIN raw.buttons /\ raw.buttons[b]],
               axes |-> [x \in ToSet(schema.axes) |->
                           IF x \in DOMAIN raw.axes THEN Quantized(raw.axes[x]) ELSE 0]]
  BY DEF Canonicalized
<1>3. [b \in ToSet(schema.buttons) |-> b \in DOMAIN raw.buttons /\ raw.buttons[b]]
        \in [ToSet(schema.buttons) -> BOOLEAN]
  BY <1>1
<1>4. [x \in ToSet(schema.axes) |-> IF x \in DOMAIN raw.axes THEN Quantized(raw.axes[x]) ELSE 0]
        \in [ToSet(schema.axes) -> -AxisScale..AxisScale]
  <2>1. \A x \in DOMAIN raw.axes : Quantized(raw.axes[x]) \in -AxisScale..AxisScale
    BY <1>1, QuantizedFits
  <2>2. 0 \in -AxisScale..AxisScale
    BY AxisRange
  <2> QED BY <2>1, <2>2
<1> QED BY <1>2, <1>3, <1>4 DEF CanonicalFrames

(* The live game and the replay take a frame alike. *)
LEMMA LiveIsReplayed ==
  ASSUME NEW g, NEW m, NEW frame
  PROVE  Live(g, m, frame) = Replayed(g, m, frame)
BY DEF Live, Replayed, MapRawInput, DecodeRprTraceFrame

LEMMA StepLeads ==
  ASSUME NEW g \in Games, NEW raw \in RawFrames[g], NEW frames, NEW m, LeadTo(g, frames, m),
         ~Ended(g, m), ~RecordThrows(g, frames, raw)
  PROVE  LET frame == Canonicalized(SchemaOf(g), raw)
         IN  LeadTo(g, Append(frames, frame), Live(g, m, frame))
<1> DEFINE S == CanonicalFrames(SchemaOf(g))
           frame == Canonicalized(SchemaOf(g), raw)
           more == Append(frames, frame)
           n == Len(frames)
<1>1. frame \in S /\ frames \in Seq(S)
  BY CanonicalizedIsCanonical DEF LeadTo
<1>2. n \in Nat /\ n < MaxFrames
  <2>1. n \in Nat
    BY <1>1, LenProperties
  <2>2. ~(n >= MaxFrames)
    BY DEF RecordThrows
  <2> QED BY <2>1, <2>2, StepsAssumption
<1> HIDE DEF S, frame
<1>3. /\ more \in Seq(S) /\ Len(more) = n + 1
      /\ \A k \in 0..n : Course(g, more)[k] = Course(g, frames)[k]
      /\ Course(g, more)[n + 1] = Replayed(g, Course(g, frames)[n], frame)
  BY <1>1, CourseAppend
<1> HIDE DEF more
<1>4. Course(g, more)[Len(more)] = Live(g, m, frame)
  BY <1>3, LiveIsReplayed DEF LeadTo
<1>5. Len(more) <= MaxFrames
  BY <1>2, <1>3, StepsAssumption
<1>6. ASSUME g = "rpr", NEW k \in 0..(Len(more) - 1) PROVE ~Over(Course(g, more)[k])
  <2>1. k \in 0..n /\ Course(g, more)[k] = Course(g, frames)[k]
    BY <1>2, <1>3
  <2>2. CASE k = n
    <3>1. Course(g, frames)[n] = m
      BY DEF LeadTo
    <3>2. ~Over(m)
      BY <1>6 DEF Ended
    <3> QED BY <2>1, <2>2, <3>1, <3>2
  <2>3. CASE k # n
    <3>1. k \in 0..(n - 1)
      BY <1>2, <2>1, <2>3
    <3> QED BY <1>6, <2>1, <3>1 DEF LeadTo
  <2> QED BY <2>2, <2>3
<1>7. LeadTo(g, more, Live(g, m, frame))
  BY <1>3, <1>4, <1>5, <1>6 DEF LeadTo, S
<1> QED BY <1>7 DEF more, frame

LoopStep(g, raw, k, p) ==
  IF p.threw \/ p.acc < StepMs \/ (k > 1 /\ Breaks(g, p)) THEN p
  ELSE IF RecordThrows(g, p.frames, raw)
  THEN [p EXCEPT !.threw = TRUE, !.acc = IF g = "rpr" THEN @ ELSE @ - StepMs]
  ELSE [RecordedStep(g, p, raw) EXCEPT !.acc = @ - StepMs]

IsLoop(g, raw, from, n, f) ==
  f = [k \in 0..n |-> IF k = 0 THEN from ELSE LoopStep(g, raw, k, f[k - 1])]

LEMMA LoopDefined ==
  ASSUME NEW g, NEW raw, NEW from, NEW n \in Nat
  PROVE  \E f : IsLoop(g, raw, from, n, f)
<1> DEFINE T == {N \in Nat : \E f : IsLoop(g, raw, from, N, f)}
<1>1. 0 \in T
  <2>1. IsLoop(g, raw, from, 0, [k \in 0..0 |-> from])
    BY DEF IsLoop
  <2> QED BY <2>1
<1>2. ASSUME NEW N \in Nat, N \in T PROVE N + 1 \in T
  <2>1. PICK f : IsLoop(g, raw, from, N, f)
    BY <1>2
  <2> DEFINE h == [k \in 0..(N + 1) |-> IF k = N + 1 THEN LoopStep(g, raw, N + 1, f[N]) ELSE f[k]]
  <2>2. ASSUME NEW k \in 0..(N + 1)
        PROVE  h[k] = IF k = 0 THEN from ELSE LoopStep(g, raw, k, h[k - 1])
    <3>1. CASE k = N + 1
      BY <3>1
    <3>2. CASE k # N + 1
      <4>1. k \in 0..N /\ h[k] = f[k]
        BY <3>2
      <4>2. k # 0 => k - 1 \in 0..N /\ h[k - 1] = f[k - 1]
        BY <4>1
      <4> QED BY <2>1, <4>1, <4>2 DEF IsLoop
    <3> QED BY <3>1, <3>2
  <2>3. IsLoop(g, raw, from, N + 1, h)
    BY <2>2 DEF IsLoop
  <2>4. \E e : IsLoop(g, raw, from, N + 1, e)
    <3> HIDE DEF h
    <3> QED BY <2>3
  <2> QED BY <2>4
<1>3. n \in T
  <2> HIDE DEF T
  <2> QED BY <1>1, <1>2, ByInduction
<1> QED BY <1>3

LoopInv(g, p) ==
  /\ p = [match |-> p.match, frames |-> p.frames, threw |-> p.threw, acc |-> p.acc]
  /\ p.acc \in Nat
  /\ p.threw \in BOOLEAN
  /\ LeadTo(g, p.frames, p.match)

LEMMA LoopStepKeeps ==
  ASSUME NEW g \in Games, NEW raw \in RawFrames[g], NEW k, NEW p, LoopInv(g, p),
         k > 1 \/ ~Ended(g, p.match)
  PROVE  LoopInv(g, LoopStep(g, raw, k, p))
<1> DEFINE q == LoopStep(g, raw, k, p)
           frame == Canonicalized(SchemaOf(g), raw)
<1>1. CASE p.threw \/ p.acc < StepMs \/ (k > 1 /\ Breaks(g, p))
  BY <1>1 DEF LoopStep
<1>2. CASE /\ ~(p.threw \/ p.acc < StepMs \/ (k > 1 /\ Breaks(g, p)))
           /\ RecordThrows(g, p.frames, raw)
  <2>1. q = [match |-> p.match, frames |-> p.frames, threw |-> TRUE,
             acc |-> IF g = "rpr" THEN p.acc ELSE p.acc - StepMs]
    BY <1>2 DEF LoopStep, LoopInv
  <2>2. p.acc - StepMs \in Nat
    BY <1>2, StepsAssumption DEF LoopInv
  <2> HIDE DEF q
  <2>3. LoopInv(g, q)
    BY <2>1, <2>2 DEF LoopInv
  <2> QED BY <2>3 DEF q
<1>3. CASE /\ ~(p.threw \/ p.acc < StepMs \/ (k > 1 /\ Breaks(g, p)))
           /\ ~RecordThrows(g, p.frames, raw)
  <2>1. q = [match |-> Live(g, p.match, frame), frames |-> Append(p.frames, frame),
             threw |-> p.threw, acc |-> p.acc - StepMs]
    BY <1>3 DEF LoopStep, LoopInv, RecordedStep
  <2>2. p.acc - StepMs \in Nat
    BY <1>3, StepsAssumption DEF LoopInv
  <2>3. ~Ended(g, p.match)
    BY <1>3 DEF Breaks
  <2>4. LeadTo(g, Append(p.frames, frame), Live(g, p.match, frame))
    BY <1>3, <2>3, StepLeads DEF LoopInv
  <2> HIDE DEF q, frame
  <2>5. LoopInv(g, q)
    BY <2>1, <2>2, <2>4 DEF LoopInv
  <2> QED BY <2>5 DEF q
<1> QED BY <1>1, <1>2, <1>3

LEMMA LoopKeeps ==
  ASSUME NEW g \in Games, NEW raw \in RawFrames[g], NEW from, LoopInv(g, from), ~Ended(g, from.match)
  PROVE  LoopInv(g, AfterSteps(g, raw, from))
<1>1. PICK f : IsLoop(g, raw, from, MaxSteps, f) /\ AfterSteps(g, raw, from) = f[MaxSteps]
  <2>1. \E f : IsLoop(g, raw, from, MaxSteps, f)
    BY LoopDefined, StepsAssumption
  <2>2. AfterSteps(g, raw, from) = (CHOOSE f : IsLoop(g, raw, from, MaxSteps, f))[MaxSteps]
    BY DEF AfterSteps, IsLoop, LoopStep
  <2> QED BY <2>1, <2>2
<1> DEFINE T == {k \in Nat : k <= MaxSteps => LoopInv(g, f[k])}
<1>2. f[0] = from
  BY <1>1, StepsAssumption DEF IsLoop
<1>3. 0 \in T
  BY <1>2
<1>4. ASSUME NEW k \in Nat, k \in T PROVE k + 1 \in T
  <2>1. CASE k + 1 <= MaxSteps
    <3>1. k + 1 \in 0..MaxSteps /\ k + 1 # 0 /\ (k + 1) - 1 = k /\ k <= MaxSteps
      BY <2>1, StepsAssumption
    <3>2. f[k + 1] = LoopStep(g, raw, k + 1, f[k])
      BY <1>1, <3>1 DEF IsLoop
    <3>3. LoopInv(g, f[k])
      BY <1>4, <3>1
    <3>4. k + 1 > 1 \/ ~Ended(g, f[k].match)
      BY <1>2
    <3> QED BY <3>2, <3>3, <3>4, LoopStepKeeps
  <2>2. CASE ~(k + 1 <= MaxSteps)
    BY <2>2
  <2> QED BY <2>1, <2>2
<1>5. MaxSteps \in T
  <2> HIDE DEF T
  <2> QED BY <1>3, <1>4, ByInduction, StepsAssumption
<1> QED BY <1>1, <1>5, StepsAssumption

-----------------------------------------------------------------------------
(* The steps *)

LEMMA GameFixed == Next => game' = game
BY DEF Next, Update, KoTimer, Report, Suspend, Resume, Abort, Submit, Alter, Verify

LEMMA InitInv == Init => IInv
<1> SUFFICES ASSUME Init PROVE IInv
  OBVIOUS
<1>1. game \in Games /\ recorder = <<>> /\ match = Opening(game)
  BY DEF Init
<1>2. Len(recorder) = 0 /\ recorder \in Seq(CanonicalFrames(SchemaOf(game)))
  BY <1>1
<1>3. Course(game, recorder)[Len(recorder)] = match
  BY <1>1, <1>2, CourseUnfolds
<1>4. RecordedIsPlayed
  BY <1>2, <1>3, StepsAssumption DEF RecordedIsPlayed, LeadTo
<1>5. ~Ended(game, match)
  BY <1>1, StartAssumption, StepsAssumption DEF Ended, Opening
<1>6. ControlTypeOK
  <2>1. scene = [acc |-> 0, stage |-> "playing", timer |-> 0] /\ 0 \in 0..KoDelay
    BY StepsAssumption DEF Init
  <2>2. scene \in [acc : Nat, stage : Stages, timer : 0..KoDelay]
    BY <2>1 DEF Stages
  <2>3. handle \in [suspended : SUBSET Reasons, paused : BOOLEAN] /\ aborted \in BOOLEAN
    BY DEF Init
  <2> QED BY <1>1, <2>2, <2>3 DEF ControlTypeOK
<1>7. StageFollowsMatch /\ SuspendedIsPaused /\ CompletedOnce /\ PostsAreAnswered
  BY <1>5 DEF Init, StageFollowsMatch, SuspendedIsPaused, CompletedOnce, PostsAreAnswered
<1> QED BY <1>4, <1>6, <1>7 DEF IInv

(* What a step leaves alone. *)
LEMMA SameRun ==
  ASSUME IInv, UNCHANGED <<game, match, recorder>>
  PROVE  RecordedIsPlayed' /\ \A bytes : Claim(bytes)' = Claim(bytes)
BY DEF IInv, RecordedIsPlayed, Claim

LEMMA SameCompletion ==
  ASSUME IInv, UNCHANGED <<game, match, recorder, completion>>, completion # {} => scene'.stage = "reported"
  PROVE  CompletedOnce'
BY SameRun DEF IInv, CompletedOnce, Encoding

LEMMA SamePosts ==
  ASSUME IInv, UNCHANGED <<game, submitted>>, completion' = completion \/ completion = {}
  PROVE  PostsAreAnswered'
BY DEF IInv, PostsAreAnswered

LEMMA UpdateKeeps ==
  ASSUME IInv, NEW delta \in Deltas, NEW raw \in RawFrames[game], Update(delta, raw)
  PROVE  IInv'
<1> DEFINE from == [match |-> match, frames |-> recorder, threw |-> FALSE,
                    acc |-> Accumulated(game, scene.acc, delta)]
           p == AfterSteps(game, raw, from)
<1>1. game \in Games /\ scene.acc \in Nat /\ delta \in Nat /\ ~Ended(game, match)
  BY StepsAssumption DEF IInv, ControlTypeOK, StageFollowsMatch, Update
<1>2. Accumulated(game, scene.acc, delta) \in Nat
  <2>1. MaxSteps * StepMs \in Nat /\ (MaxSteps + 1) * StepMs \in Nat
    BY StepsAssumption
  <2> QED BY <1>1, <2>1 DEF Accumulated, Smaller
<1>3. LoopInv(game, from)
  BY <1>2 DEF LoopInv, IInv, RecordedIsPlayed
<1>4. LoopInv(game, p)
  <2>1. ~Ended(game, from.match)
    BY <1>1
  <2> HIDE DEF from
  <2> QED BY <1>1, <1>3, <2>1, LoopKeeps
<1> DEFINE next == IF p.frames = recorder \/ ~Ended(game, p.match) THEN "playing"
                   ELSE IF game = "rpr" THEN "settled"
                   ELSE IF Encoding(game, p.frames) = "none" THEN "deriving" ELSE "failed"
<1>5. /\ match' = p.match /\ recorder' = p.frames
      /\ scene' = [scene EXCEPT !.acc = p.acc, !.stage = next]
      /\ UNCHANGED <<game, handle, aborted, completion, submitted>>
      /\ scene.stage = "playing"
  BY DEF Update
<1> HIDE DEF p
<1>6. next \in {"playing", "settled", "deriving", "failed"}
  OBVIOUS
<1>7. next = "playing" => ~Ended(game, p.match)
  <2>1. p.frames = recorder => p.match = match
    BY <1>4 DEF LoopInv, LeadTo, IInv, RecordedIsPlayed
  <2> QED BY <1>1, <2>1
<1>8. next # "playing" /\ next # "failed" => Ended(game, p.match)
  OBVIOUS
<1> HIDE DEF next
<1>9. scene' = [acc |-> p.acc, stage |-> next, timer |-> scene.timer] /\ scene'.stage = next
  BY <1>5 DEF IInv, ControlTypeOK
<1>10. ControlTypeOK'
  BY <1>4, <1>5, <1>6, <1>9 DEF IInv, ControlTypeOK, LoopInv, Stages
<1>11. RecordedIsPlayed'
  BY <1>4, <1>5 DEF RecordedIsPlayed, LoopInv
<1>12. StageFollowsMatch'
  BY <1>5, <1>6, <1>7, <1>8, <1>9 DEF StageFollowsMatch
<1>13. SuspendedIsPaused'
  BY <1>5 DEF IInv, SuspendedIsPaused
<1>14. completion = {}
  BY <1>5 DEF IInv, CompletedOnce
<1>15. CompletedOnce'
  BY <1>5, <1>14 DEF CompletedOnce
<1>16. PostsAreAnswered'
  BY <1>5, <1>14, SamePosts
<1> QED BY <1>10, <1>11, <1>12, <1>13, <1>15, <1>16 DEF IInv

LEMMA KoTimerKeeps ==
  ASSUME IInv, NEW delta \in Deltas, KoTimer(delta)
  PROVE  IInv'
<1> DEFINE next == IF scene.timer + delta >= KoDelay THEN "deriving" ELSE "settled"
<1>1. /\ scene.stage = "settled"
      /\ scene' = [acc |-> scene.acc, stage |-> next, timer |-> Smaller(scene.timer + delta, KoDelay)]
      /\ UNCHANGED <<game, match, recorder, handle, aborted, completion, submitted>>
  BY DEF KoTimer, IInv, ControlTypeOK
<1>2. Smaller(scene.timer + delta, KoDelay) \in 0..KoDelay
  BY StepsAssumption DEF Smaller, IInv, ControlTypeOK
<1>3. next \in {"settled", "deriving"}
  OBVIOUS
<1> HIDE DEF next
<1>4. ControlTypeOK'
  BY <1>1, <1>2, <1>3 DEF IInv, ControlTypeOK, Stages
<1>5. StageFollowsMatch'
  BY <1>1, <1>3 DEF IInv, StageFollowsMatch
<1>6. completion = {}
  BY <1>1 DEF IInv, CompletedOnce
<1>7. CompletedOnce' /\ PostsAreAnswered'
  BY <1>1, <1>6, SamePosts DEF CompletedOnce
<1>8. SuspendedIsPaused'
  BY <1>1 DEF IInv, SuspendedIsPaused
<1> QED BY <1>1, <1>4, <1>5, <1>7, <1>8, SameRun DEF IInv

LEMMA ReportKeeps ==
  ASSUME IInv, Report
  PROVE  IInv'
<1>1. /\ scene.stage = "deriving"
      /\ UNCHANGED <<game, match, recorder, handle, aborted, submitted>>
  BY DEF Report
<1>2. completion = {}
  BY <1>1 DEF IInv, CompletedOnce
<1>3. Ended(game, match)
  BY <1>1 DEF IInv, StageFollowsMatch
<1>4. scene' \in {[scene EXCEPT !.stage = "reported"], [scene EXCEPT !.stage = "failed"]}
  BY DEF Report
<1>5. ControlTypeOK'
  BY <1>1, <1>4 DEF IInv, ControlTypeOK, Stages
<1>6. StageFollowsMatch'
  <2>1. scene'.stage \in {"reported", "failed"}
    BY <1>4 DEF IInv, ControlTypeOK
  <2> QED BY <1>1, <1>3, <2>1 DEF StageFollowsMatch
<1>7. CompletedOnce'
  <2>1. CASE Wanted /\ Encoding(game, recorder) = "none"
    <3> DEFINE bytes == Encoded(SchemaOf(game), recorder)
    <3>1. completion' = {[claim |-> Claim(bytes), bytes |-> bytes]}
      BY <2>1 DEF Report
    <3>2. scene'.stage = "reported"
      BY <2>1 DEF Report, IInv, ControlTypeOK
    <3>3. Claim(bytes)' = Claim(bytes)
      BY <1>1, SameRun
    <3>4. ASSUME NEW done \in completion'
          PROVE  done.bytes = bytes /\ done.claim = Claim(bytes)
      BY <3>1
    <3>5. bytes' = bytes
      BY <1>1
    <3>6. \A done \in completion' : done.bytes = bytes' /\ done.claim = Claim(done.bytes)'
      BY <3>3, <3>4, <3>5, <1>1, SameRun
    <3> QED BY <1>1, <2>1, <3>2, <3>6 DEF CompletedOnce, Encoding
  <2>2. CASE ~(Wanted /\ Encoding(game, recorder) = "none")
    <3>1. completion' = {}
      BY <1>2, <2>2 DEF Report
    <3> QED BY <3>1 DEF CompletedOnce
  <2> QED BY <2>1, <2>2
<1>8. PostsAreAnswered'
  BY <1>1, <1>2, SamePosts
<1>9. SuspendedIsPaused'
  BY <1>1 DEF IInv, SuspendedIsPaused
<1> QED BY <1>1, <1>5, <1>6, <1>7, <1>8, <1>9, SameRun DEF IInv

LEMMA HandleKeeps ==
  ASSUME IInv, UNCHANGED <<game, match, recorder, scene, completion, submitted>>,
         handle' \in [suspended : SUBSET Reasons, paused : BOOLEAN],
         handle'.suspended # {} => handle'.paused, aborted' \in BOOLEAN
  PROVE  IInv'
<1>1. ControlTypeOK' /\ StageFollowsMatch' /\ SuspendedIsPaused'
  BY DEF IInv, ControlTypeOK, StageFollowsMatch, SuspendedIsPaused
<1>2. CompletedOnce'
  BY SameCompletion DEF IInv, CompletedOnce
<1> QED BY <1>1, <1>2, SamePosts, SameRun DEF IInv

LEMMA SuspendResumeKeep ==
  ASSUME IInv, NEW reason \in Reasons, Suspend(reason) \/ Resume(reason)
  PROVE  IInv'
<1>1. CASE Suspend(reason)
  <2>1. handle' = [suspended |-> handle.suspended \cup {reason}, paused |-> TRUE]
    BY <1>1 DEF Suspend
  <2>2. handle' \in [suspended : SUBSET Reasons, paused : BOOLEAN] /\ handle'.paused
    BY <2>1 DEF IInv, ControlTypeOK
  <2>3. aborted' \in BOOLEAN /\ UNCHANGED <<game, match, recorder, scene, completion, submitted>>
    BY <1>1 DEF Suspend, IInv, ControlTypeOK
  <2> QED BY <2>2, <2>3, HandleKeeps
<1>2. CASE Resume(reason)
  <2>1. handle' = [suspended |-> handle.suspended \ {reason}, paused |-> StaysPaused(reason)]
    BY <1>2 DEF Resume
  <2>2. handle' \in [suspended : SUBSET Reasons, paused : BOOLEAN]
    BY <2>1 DEF IInv, ControlTypeOK, StaysPaused
  <2>3. handle'.suspended # {} => handle'.paused
    <3>1. handle'.suspended # {} => handle.paused /\ handle.suspended \ {reason} # {}
      BY <2>1 DEF IInv, SuspendedIsPaused
    <3> QED BY <2>1, <3>1 DEF StaysPaused
  <2>4. aborted' \in BOOLEAN /\ UNCHANGED <<game, match, recorder, scene, completion, submitted>>
    BY <1>2 DEF Resume, IInv, ControlTypeOK
  <2> QED BY <2>2, <2>3, <2>4, HandleKeeps
<1> QED BY <1>1, <1>2

LEMMA AbortKeeps ==
  ASSUME IInv, Abort
  PROVE  IInv'
<1>1. /\ UNCHANGED <<game, match, recorder, scene, completion, submitted>>
      /\ handle' = handle /\ aborted' = TRUE
  BY DEF Abort
<1>2. handle' \in [suspended : SUBSET Reasons, paused : BOOLEAN] /\ (handle'.suspended # {} => handle'.paused)
  BY <1>1 DEF IInv, ControlTypeOK, SuspendedIsPaused
<1> QED BY <1>1, <1>2, HandleKeeps

-----------------------------------------------------------------------------
(* The evidence at the API *)

LEMMA MatchStands ==
  ASSUME IInv, UNCHANGED <<game, match, recorder, scene, handle, aborted, completion>>, PostsAreAnswered'
  PROVE  IInv'
<1>1. ControlTypeOK' /\ StageFollowsMatch' /\ SuspendedIsPaused'
  BY DEF IInv, ControlTypeOK, StageFollowsMatch, SuspendedIsPaused
<1>2. CompletedOnce'
  BY SameCompletion DEF IInv, CompletedOnce
<1> QED BY <1>1, <1>2, SameRun DEF IInv

LEMMA FitsUint32 ==
  MaxFrames <= Uint32Max
<1> DEFINE m == Radix * Radix * Radix * Radix
<1>1. m \in Int /\ MaxFrames < m /\ MaxFrames \in Nat
  BY RadixFacts, CeilingAssumption, StepsAssumption
<1> HIDE DEF m
<1>2. MaxFrames <= m - 1
  BY <1>1
<1> QED BY <1>2 DEF m, Uint32Max

LEMMA RecordedBytes ==
  ASSUME IInv
  PROVE  /\ ValidSchema(SchemaOf(game))
         /\ recorder \in Seq(CanonicalFrames(SchemaOf(game)))
         /\ Len(recorder) \in Nat /\ Len(recorder) <= Uint32Max
         /\ Encoded(SchemaOf(game), recorder) \in Seq(Byte)
<1>1. ValidSchema(SchemaOf(game)) /\ recorder \in Seq(CanonicalFrames(SchemaOf(game)))
  BY SchemaOfGame DEF IInv, ControlTypeOK, RecordedIsPlayed, LeadTo
<1>2. Len(recorder) \in Nat /\ Len(recorder) <= MaxFrames
  BY <1>1, LenProperties DEF IInv, RecordedIsPlayed, LeadTo
<1>3. Uint32Max \in Int
  BY RadixFacts DEF Uint32Max
<1>4. Len(recorder) <= Uint32Max
  BY <1>2, <1>3, FitsUint32, StepsAssumption
<1> QED BY <1>1, <1>2, <1>4, EncodedIsBytes

LEMMA SubmitKeeps ==
  ASSUME IInv, Submit
  PROVE  IInv'
<1>1. UNCHANGED <<game, match, recorder, scene, handle, aborted, completion>>
  BY DEF Submit
<1>2. PICK done \in completion : submitted' = {Submission(done.bytes, done.claim, 0)}
  BY DEF Submit
<1>3. done.bytes \in Seq(Byte)
  BY RecordedBytes DEF IInv, CompletedOnce
<1>4. ASSUME NEW post \in submitted'
      PROVE  /\ post.bytes = done.bytes /\ post.claim = done.claim
             /\ post.altered = 0 /\ post.verdict = "none"
             /\ post = [bytes |-> post.bytes, claim |-> post.claim,
                        altered |-> post.altered, verdict |-> post.verdict]
  BY <1>2 DEF Submission
<1>5. PostsAreAnswered'
  BY <1>1, <1>3, <1>4 DEF PostsAreAnswered
<1> QED BY <1>1, <1>5, MatchStands

LEMMA CountIsBytes ==
  ASSUME NEW n \in Int
  PROVE  CountBytes(n) \in Seq(Byte)
<1>1. Radix \in Nat \ {0} /\ Radix * Radix \in Nat \ {0} /\ Radix * Radix * Radix \in Nat \ {0}
  <2>1. Radix \in Nat \ {0}
    BY RadixFacts
  <2>2. Radix * Radix \in Nat \ {0}
    BY <2>1
  <2> DEFINE s == Radix * Radix
  <2>3. s * Radix \in Nat \ {0}
    <3> HIDE DEF s
    <3> QED BY <2>1, <2>2 DEF s
  <2> QED BY <2>1, <2>2, <2>3
<1>2. \A a \in Int : a % Radix \in Byte
  BY <1>1 DEF Byte
<1> DEFINE a == n \div (Radix * Radix * Radix)
           b == n \div (Radix * Radix)
           c == n \div Radix
<1>3. a \in Int /\ b \in Int /\ c \in Int
  BY <1>1, DivisionTheorem
<1>4. CountBytes(n) = <<a % Radix, b % Radix, c % Radix, n % Radix>>
  BY DEF CountBytes
<1> HIDE DEF a, b, c
<1>5. a % Radix \in Byte /\ b % Radix \in Byte /\ c % Radix \in Byte /\ n % Radix \in Byte
  BY <1>2, <1>3
<1> QED BY <1>4, <1>5

LEMMA AlterationsAreBytes ==
  ASSUME NEW schema, ValidSchema(schema), NEW bytes \in Seq(Byte),
         NEW altered \in Alterations(schema, bytes)
  PROVE  altered \in Seq(Byte)
<1> DEFINE width == FrameByteLength(schema)
           body == SubSeq(bytes, HeaderBytes + 1, Len(bytes))
           recount(n, rest) == <<bytes[1]>> \o CountBytes(n) \o rest
           added == body \o [j \in 1..width |-> 0]
           dropped == SubSeq(body, 1, Len(body) - width)
<1>0. Len(bytes) \in Nat /\ width \in Nat /\ DOMAIN bytes = 1..Len(bytes)
  BY LenProperties, FrameLayout
<1>1. ASSUME NEW i \in DOMAIN bytes, NEW v \in Byte PROVE [bytes EXCEPT ![i] = v] \in Seq(Byte)
  BY <1>0, ExceptSeq
<1>2. ASSUME NEW v \in Byte PROVE Append(bytes, v) \in Seq(Byte)
  BY AppendProperties
<1>3. SubSeq(bytes, 1, Len(bytes) - 1) \in Seq(Byte)
  <2>1. \A i \in 1..(Len(bytes) - 1) : bytes[i] \in Byte
    BY <1>0, ElementOfSeq
  <2> QED BY <1>0, <2>1, SubSeqProperties
<1>4. CASE Len(bytes) >= HeaderBytes + width
  <2>1. body \in Seq(Byte) /\ Len(body) \in Nat
    <3>1. \A i \in (HeaderBytes + 1)..Len(bytes) : bytes[i] \in Byte
      BY <1>0, ElementOfSeq DEF HeaderBytes
    <3>2. body \in Seq(Byte)
      BY <1>0, <3>1, SubSeqProperties DEF HeaderBytes
    <3> HIDE DEF body
    <3> QED BY <3>2, LenProperties
  <2>2. added \in Seq(Byte)
    <3> DEFINE neutral == [j \in 1..width |-> 0]
    <3>1. 0 \in Byte
      BY RadixFacts DEF Byte
    <3>2. neutral \in [1..width -> Byte]
      BY <3>1
    <3> HIDE DEF neutral, body
    <3>3. neutral \in Seq(Byte)
      BY <1>0, <3>2, SeqDef
    <3>4. body \o neutral \in Seq(Byte)
      BY <2>1, <3>3, ConcatProperties
    <3> QED BY <3>4 DEF neutral
  <2>3. dropped \in Seq(Byte)
    <3> HIDE DEF body
    <3>1. \A i \in 1..(Len(body) - width) : body[i] \in Byte
      BY <1>0, <2>1, ElementOfSeq
    <3> QED BY <1>0, <2>1, <3>1, SubSeqProperties
  <2>4. ASSUME NEW n \in Int, NEW rest \in Seq(Byte) PROVE recount(n, rest) \in Seq(Byte)
    <3>1. bytes[1] \in Byte
      BY <1>0, <1>4, ElementOfSeq DEF HeaderBytes
    <3>2. <<bytes[1]>> \in Seq(Byte)
      BY <3>1
    <3>3. <<bytes[1]>> \o CountBytes(n) \in Seq(Byte)
      BY <3>2, CountIsBytes, ConcatProperties
    <3> QED BY <3>3, ConcatProperties
  <2>5. CountOf(bytes) + 1 \in Int /\ CountOf(bytes) - 1 \in Int
    <3>1. bytes[2] \in Byte /\ bytes[3] \in Byte /\ bytes[4] \in Byte /\ bytes[5] \in Byte
      BY <1>0, <1>4, ElementOfSeq DEF HeaderBytes
    <3>2. CountOf(bytes) \in Nat
      BY <3>1, CountIsCanonical DEF CountOf
    <3> QED BY <3>2
  <2>6. /\ recount(CountOf(bytes) + 1, added) \in Seq(Byte)
        /\ recount(CountOf(bytes) - 1, dropped) \in Seq(Byte)
    <3> HIDE DEF recount, added, dropped
    <3> QED BY <2>2, <2>3, <2>4, <2>5
  <2>7. \/ \E i \in DOMAIN bytes, v \in Byte : altered = [bytes EXCEPT ![i] = v]
        \/ \E v \in Byte : altered = Append(bytes, v)
        \/ altered = SubSeq(bytes, 1, Len(bytes) - 1)
        \/ altered = recount(CountOf(bytes) + 1, added)
        \/ altered = recount(CountOf(bytes) - 1, dropped)
    <3>1. ~(Len(bytes) < HeaderBytes + width)
      BY <1>0, <1>4 DEF HeaderBytes
    <3>2. Alterations(schema, bytes) =
            {[bytes EXCEPT ![i] = v] : i \in DOMAIN bytes, v \in Byte}
              \cup {Append(bytes, v) : v \in Byte}
              \cup {SubSeq(bytes, 1, Len(bytes) - 1) : i \in DOMAIN bytes}
              \cup (IF Len(bytes) < HeaderBytes + width THEN {}
                    ELSE {recount(CountOf(bytes) + 1, added), recount(CountOf(bytes) - 1, dropped)})
      BY DEF Alterations
    <3> HIDE DEF recount, added, dropped, width
    <3> QED BY <3>1, <3>2
  <2> HIDE DEF recount, added, dropped
  <2> QED BY <1>1, <1>2, <1>3, <2>6, <2>7
<1>5. CASE ~(Len(bytes) >= HeaderBytes + width)
  <2>1. Len(bytes) < HeaderBytes + width
    BY <1>0, <1>5 DEF HeaderBytes
  <2>2. \/ \E i \in DOMAIN bytes, v \in Byte : altered = [bytes EXCEPT ![i] = v]
        \/ \E v \in Byte : altered = Append(bytes, v)
        \/ altered = SubSeq(bytes, 1, Len(bytes) - 1)
    BY <2>1 DEF Alterations
  <2> QED BY <1>1, <1>2, <1>3, <2>2
<1> QED BY <1>4, <1>5

LEMMA AlterKeeps ==
  ASSUME IInv, Alter
  PROVE  IInv'
<1>1. UNCHANGED <<game, match, recorder, scene, handle, aborted, completion>>
  BY DEF Alter
<1>0. PICK post \in submitted :
        \E bytes \in Alterations(SchemaOf(game), post.bytes) :
          submitted' = {Submission(bytes, post.claim, post.altered + 1)}
  BY DEF Alter
<1>2. PICK bytes \in Alterations(SchemaOf(game), post.bytes) :
        submitted' = {Submission(bytes, post.claim, post.altered + 1)}
  BY <1>0
<1>3. post.bytes \in Seq(Byte) /\ post.altered \in Nat
  BY DEF IInv, PostsAreAnswered
<1>4. bytes \in Seq(Byte)
  BY <1>3, AlterationsAreBytes, RecordedBytes
<1>5. ASSUME NEW q \in submitted'
      PROVE  /\ q.bytes \in Seq(Byte) /\ q.altered \in Nat /\ q.altered # 0 /\ q.verdict = "none"
             /\ q = [bytes |-> q.bytes, claim |-> q.claim, altered |-> q.altered, verdict |-> q.verdict]
  BY <1>2, <1>3, <1>4 DEF Submission
<1>6. PostsAreAnswered'
  BY <1>5 DEF PostsAreAnswered
<1> QED BY <1>1, <1>6, MatchStands

LEMMA VerifyKeeps ==
  ASSUME IInv, Verify
  PROVE  IInv'
<1>1. UNCHANGED <<game, match, recorder, scene, handle, aborted, completion>>
  BY DEF Verify
<1>2. PICK post \in submitted :
        submitted' = {[post EXCEPT !.verdict = VerdictOn(game, post.bytes, post.claim)]}
  BY DEF Verify
<1>3. /\ post = [bytes |-> post.bytes, claim |-> post.claim,
                 altered |-> post.altered, verdict |-> post.verdict]
      /\ post.bytes \in Seq(Byte) /\ post.altered \in Nat
      /\ post.altered = 0 =>
           \E done \in completion : done.bytes = post.bytes /\ done.claim = post.claim
  BY DEF IInv, PostsAreAnswered
<1> DEFINE v == VerdictOn(game, post.bytes, post.claim)
<1>4. [post EXCEPT !.verdict = v] =
        [bytes |-> post.bytes, claim |-> post.claim, altered |-> post.altered, verdict |-> v]
  <2> HIDE DEF v
  <2> QED BY <1>3
<1>5. ASSUME NEW q \in submitted'
      PROVE  /\ q.bytes = post.bytes /\ q.claim = post.claim /\ q.altered = post.altered /\ q.verdict = v
             /\ q = [bytes |-> q.bytes, claim |-> q.claim, altered |-> q.altered, verdict |-> q.verdict]
  <2>1. q = [bytes |-> post.bytes, claim |-> post.claim, altered |-> post.altered, verdict |-> v]
    BY <1>2, <1>4
  <2> HIDE DEF v
  <2> QED BY <2>1
<1>6. \A q \in submitted' : q.verdict = VerdictOn(game, q.bytes, q.claim)'
  BY <1>1, <1>5
<1> HIDE DEF v
<1>7. PostsAreAnswered'
  BY <1>1, <1>3, <1>5, <1>6 DEF PostsAreAnswered
<1> QED BY <1>1, <1>7, MatchStands

(* The inductive invariant: what was recorded leads to the live match, every *)
(* stage knows whether the match has ended, and completion and submission    *)
(* hold what was recorded.                                                   *)
THEOREM RankedInvariant == Spec => []IInv
<1>1. Init => IInv
  BY InitInv
<1>2. IInv /\ [Next]_vars => IInv'
  <2> SUFFICES ASSUME IInv, [Next]_vars PROVE IInv'
    OBVIOUS
  <2>1. CASE UNCHANGED vars
    <3>1. UNCHANGED <<game, match, recorder, scene, handle, aborted, completion, submitted>>
      BY <2>1 DEF vars
    <3> QED BY <3>1, SamePosts, MatchStands
  <2>2. ASSUME NEW delta \in Deltas, NEW raw \in RawFrames[game], Update(delta, raw) PROVE IInv'
    BY <2>2, UpdateKeeps
  <2>3. ASSUME NEW delta \in Deltas, KoTimer(delta) PROVE IInv'
    BY <2>3, KoTimerKeeps
  <2>4. CASE Report
    BY <2>4, ReportKeeps
  <2>5. ASSUME NEW reason \in Reasons, Suspend(reason) \/ Resume(reason) PROVE IInv'
    BY <2>5, SuspendResumeKeep
  <2>6. CASE Abort
    BY <2>6, AbortKeeps
  <2>7. CASE Submit
    BY <2>7, SubmitKeeps
  <2>8. CASE Alter
    BY <2>8, AlterKeeps
  <2>9. CASE Verify
    BY <2>9, VerifyKeeps
  <2> QED BY <2>1, <2>2, <2>3, <2>4, <2>5, <2>6, <2>7, <2>8, <2>9 DEF Next
<1> QED BY <1>1, <1>2, PTL DEF Spec

(* The variables keep their types: no frame beyond the ceiling is recorded,  *)
(* every recorded frame is canonical and everything that is submitted is     *)
(* bytes.                                                                    *)
THEOREM TypeCorrect == Spec => []TypeOK
<1>1. IInv => TypeOK
  <2> SUFFICES ASSUME IInv PROVE TypeOK
    OBVIOUS
  <2>1. /\ game \in Games /\ aborted \in BOOLEAN
        /\ scene \in [acc : Nat, stage : Stages, timer : 0..KoDelay]
        /\ handle \in [suspended : SUBSET Reasons, paused : BOOLEAN]
    BY DEF IInv, ControlTypeOK
  <2>2. Len(recorder) <= MaxFrames
    BY DEF IInv, RecordedIsPlayed, LeadTo
  <2>3. ASSUME NEW i \in DOMAIN recorder
        PROVE  /\ recorder[i].buttons \in [ToSet(SchemaOf(game).buttons) -> BOOLEAN]
               /\ recorder[i].axes \in [ToSet(SchemaOf(game).axes) -> -AxisScale..AxisScale]
    <3>1. recorder[i] \in CanonicalFrames(SchemaOf(game))
      BY RecordedBytes, LenProperties, ElementOfSeq
    <3> QED BY <3>1 DEF CanonicalFrames
  <2>4. \A done \in completion : done.bytes \in Seq(Byte)
    BY RecordedBytes DEF IInv, CompletedOnce
  <2>5. ASSUME NEW post \in submitted
        PROVE  post.bytes \in Seq(Byte) /\ post.verdict \in {"none", "invalid", "refuted", "match"}
    <3>1. \A b, c : VerdictOn(game, b, c) \in {"invalid", "refuted", "match"}
      BY DEF VerdictOn
    <3> QED BY <3>1 DEF IInv, PostsAreAnswered
  <2> QED BY <2>1, <2>2, <2>3, <2>4, <2>5 DEF TypeOK
<1> QED BY <1>1, RankedInvariant, PTL

(* What was recorded is what was simulated, for every match, every device    *)
(* and every number of steps in an update: a replay of the recorder's frames *)
(* ends in the live state.                                                   *)
THEOREM RecordedIsSimulated == Spec => []TraceIsTheMatch
<1>1. IInv => TraceIsTheMatch
  BY DEF IInv, RecordedIsPlayed, LeadTo, TraceIsTheMatch
<1> QED BY <1>1, RankedInvariant, PTL

LEMMA HonestVerifies ==
  ASSUME IInv, NEW done \in completion
  PROVE  VerdictOn(game, done.bytes, done.claim) = "match"
<1> DEFINE schema == SchemaOf(game)
           n == Len(recorder)
           course == Course(game, recorder)
<1>1. /\ scene.stage = "reported" /\ done.bytes = Encoded(schema, recorder)
      /\ EncodeError(schema, recorder, LimitsOf(game)) = "none"
      /\ done.claim = Claim(done.bytes)
  BY DEF IInv, CompletedOnce, Encoding
<1>2. /\ DecodeError(schema, done.bytes, LimitsOf(game)) = "none"
      /\ Decoded(schema, done.bytes) = recorder
  BY <1>1, RecordedBytes, TraceReadsBack
<1>3. Ended(game, match)
  BY <1>1 DEF IInv, StageFollowsMatch
<1>4. course[n] = match /\ (game = "rpr" => \A k \in 0..(n - 1) : ~Over(course[k]))
  BY DEF IInv, RecordedIsPlayed, LeadTo
<1>5. CASE game = "rpr"
  <2>1. done.claim = match /\ Over(course[n])
    BY <1>1, <1>3, <1>4, <1>5 DEF Claim, Ended
  <2>2. ~TrailingInput(game, course, n) /\ ~IncompleteTrace(game, course, n)
    BY <1>4, <1>5, <2>1 DEF TrailingInput, IncompleteTrace
  <2> HIDE DEF schema
  <2> QED BY <1>2, <1>4, <2>1, <2>2 DEF VerdictOn, schema
<1>6. CASE game # "rpr"
  <2>1. ~TrailingInput(game, course, n) /\ ~IncompleteTrace(game, course, n)
    BY <1>6 DEF TrailingInput, IncompleteTrace
  <2>2. CountOf(done.bytes) = n
    BY <1>1, RecordedBytes, EncodedIsBytes
  <2>3. schema = AnalogSchema
    BY <1>6 DEF SchemaOf
  <2>4. done.claim = course[n]
    BY <1>1, <1>2, <1>6, <2>2, <2>3 DEF Claim
  <2> HIDE DEF schema
  <2> QED BY <1>2, <2>1, <2>4 DEF VerdictOn, schema
<1> QED BY <1>5, <1>6

(* A run that was played to its end verifies, whatever the schema, the byte  *)
(* width, the match and the frame rate: its evidence passes every check of   *)
(* decodeTrace, replays to the last frame and no further, and gives the      *)
(* claimed result.                                                           *)
THEOREM HonestRunsVerify == Spec => []CompletionVerifies
<1>1. IInv => CompletionVerifies
  <2> SUFFICES ASSUME IInv, NEW post \in submitted, post.altered = 0, post.verdict # "none"
               PROVE  post.verdict = "match"
    BY DEF CompletionVerifies
  <2>1. PICK done \in completion : done.bytes = post.bytes /\ done.claim = post.claim
    BY DEF IInv, PostsAreAnswered
  <2>2. post.verdict = VerdictOn(game, post.bytes, post.claim)
    BY DEF IInv, PostsAreAnswered
  <2> QED BY <2>1, <2>2, HonestVerifies
<1> QED BY <1>1, RankedInvariant, PTL

(* Evidence that is accepted is the one encoding of the frames it decodes    *)
(* to, however it was altered on the way, and a fight is decided by its last *)
(* frame and by no earlier one.                                              *)
THEOREM AcceptedIsExact == Spec => []AcceptedEvidenceIsExact
<1>1. IInv => AcceptedEvidenceIsExact
  <2> SUFFICES ASSUME IInv, NEW post \in submitted, post.verdict = "match"
               PROVE  LET frames == Decoded(SchemaOf(game), post.bytes)
                      IN  /\ post.bytes = Encoded(SchemaOf(game), frames)
                          /\ game = "rpr" => \A k \in 0..Len(frames) :
                                               Over(Course(game, frames)[k]) <=> k = Len(frames)
    BY DEF AcceptedEvidenceIsExact
  <2> DEFINE schema == SchemaOf(game)
             frames == Decoded(schema, post.bytes)
             course == Course(game, frames)
             n == Len(frames)
  <2>1. post.bytes \in Seq(Byte) /\ VerdictOn(game, post.bytes, post.claim) = "match"
    BY DEF IInv, PostsAreAnswered
  <2>2. /\ DecodeError(schema, post.bytes, LimitsOf(game)) = "none"
        /\ ~TrailingInput(game, course, n) /\ ~IncompleteTrace(game, course, n)
    BY <2>1 DEF VerdictOn
  <2>3. ValidSchema(schema)
    BY RecordedBytes
  <2>4. post.bytes = Encoded(schema, frames)
    BY <2>1, <2>2, <2>3, OneEncoding
  <2>5. n \in Nat
    BY <2>1, <2>2, <2>3, DecodedAreCanonical, DecodedShape
  <2> HIDE DEF frames, course, n
  <2>6. ASSUME game = "rpr", NEW k \in 0..n PROVE Over(course[k]) <=> k = n
    <3>1. CASE k = n
      BY <2>2, <2>6, <3>1 DEF IncompleteTrace
    <3>2. CASE k # n
      <4>1. k \in 0..(n - 1)
        BY <2>5, <3>2
      <4> QED BY <2>2, <2>6, <3>2, <4>1 DEF TrailingInput
    <3> QED BY <3>1, <3>2
  <2> QED BY <2>4, <2>6 DEF frames, course, n
<1> QED BY <1>1, RankedInvariant, PTL

(* A game that any reason keeps suspended simulates and records nothing, and *)
(* an aborted run completes with nothing.                                    *)
THEOREM StoppedIsStill == Spec => StoppedGameIsStill
<1> DEFINE Still == /\ handle.suspended # {} => match' = match /\ recorder' = recorder
                    /\ aborted => completion' = completion
<1>1. IInv /\ [Next]_vars => [Still]_vars
  <2> SUFFICES ASSUME IInv, [Next]_vars PROVE Still
    BY DEF vars
  <2>1. CASE UNCHANGED vars
    BY <2>1 DEF vars
  <2>2. ASSUME NEW delta \in Deltas, NEW raw \in RawFrames[game], Update(delta, raw) PROVE Still
    BY <2>2 DEF Update, GameRuns, IInv, SuspendedIsPaused
  <2>3. ASSUME NEW delta \in Deltas, KoTimer(delta) PROVE Still
    BY <2>3 DEF KoTimer
  <2>4. CASE Report
    BY <2>4 DEF Report, Wanted
  <2>5. ASSUME NEW reason \in Reasons, Suspend(reason) \/ Resume(reason) PROVE Still
    BY <2>5 DEF Suspend, Resume
  <2>6. CASE Abort \/ Submit \/ Alter \/ Verify
    BY <2>6 DEF Abort, Submit, Alter, Verify
  <2> QED BY <2>1, <2>2, <2>3, <2>4, <2>5, <2>6 DEF Next
<1>2. Spec => [][Still]_vars
  BY <1>1, RankedInvariant, PTL DEF Spec
<1> QED BY <1>2 DEF StoppedGameIsStill
=============================================================================
