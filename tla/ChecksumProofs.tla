--------------------------- MODULE ChecksumProofs ---------------------------
(* Theorems about the checksum, for words of any width.                    *)
EXTENDS Checksum, TLAPS

(* The sum and the one's complement sum differ by carries, each of which   *)
(* is worth Radix - 1.  Neither is 0 unless the other is: all ones is not  *)
(* taken for 0.                                                            *)
Congruent(c, o) == \E k \in Int : c = k * (Radix - 1) + o
SameSum(c, o) == Congruent(c, o) /\ (c = 0 <=> o = 0)

(* Division by Radix.                                                      *)
LEMMA Halves ==
  ASSUME NEW c \in Nat
  PROVE  /\ c \div Radix \in Nat /\ c % Radix \in Word
         /\ c = (c \div Radix) * Radix + (c % Radix)
  BY ChecksumAssumption, Z3 DEF Word

(* One addition keeps the two sums together.                               *)
LEMMA AdditionKeepsSum ==
  ASSUME NEW c \in Nat, NEW o \in Word, NEW w \in Word, SameSum(c, o)
  PROVE  SameSum(c + w, OnesAdd(o, w)) /\ OnesAdd(o, w) \in Word
<1> USE ChecksumAssumption DEF Word
<1>1. OnesAdd(o, w) \in Word /\ (c + w = 0 <=> OnesAdd(o, w) = 0)
  BY DEF OnesAdd, SameSum
<1>2. PICK k \in Int : c = k * (Radix - 1) + o
  BY DEF SameSum, Congruent
<1>3. c + w = k * (Radix - 1) + (o + w)
  BY <1>2
<1>4. (k + 1) * (Radix - 1) = k * (Radix - 1) + (Radix - 1)
  BY SMT
<1>5. CASE o + w < Radix
  BY <1>1, <1>3, <1>5 DEF OnesAdd, SameSum, Congruent
<1>6. CASE o + w >= Radix
  <2>1. c + w = (k + 1) * (Radix - 1) + (o + w - Radix + 1)
    BY <1>3, <1>4
  <2> QED
    BY <1>1, <1>6, <2>1 DEF OnesAdd, SameSum, Congruent
<1> QED
  BY <1>5, <1>6

(* The first fold keeps them together, and leaves at most one carry.       *)
LEMMA FoldKeepsSum ==
  ASSUME NEW c \in Nat, NEW o \in Word, SameSum(c, o), c < SumLimit
  PROVE  LET f == (c \div Radix) + (c % Radix)
         IN  f \in Nat /\ f <= 2 * Radix - 2 /\ SameSum(f, o)
<1> DEFINE q == c \div Radix
           m == c % Radix
<1>1. q \in Nat /\ m \in Word /\ c = q * Radix + m
  BY Halves
<1> HIDE DEF q, m
<1> USE ChecksumAssumption DEF Word
<1>2. q <= Radix - 1
  <2>1. SUFFICES ASSUME q >= Radix PROVE FALSE
    BY <1>1
  <2>2. q * Radix >= Radix * Radix
    BY <1>1, <2>1
  <2> QED
    BY <1>1, <2>2 DEF SumLimit
<1>3. PICK k \in Int : c = k * (Radix - 1) + o
  BY DEF SameSum, Congruent
<1>4. q * Radix = q * (Radix - 1) + q /\ (k - q) * (Radix - 1) = k * (Radix - 1) - q * (Radix - 1)
  BY <1>1
<1>5. q + m = (k - q) * (Radix - 1) + o
  <2> DEFINE P == k * (Radix - 1)
             Q == q * (Radix - 1)
  <2>1. P \in Int /\ Q \in Int
    BY <1>1
  <2>2. c = P + o /\ c = Q + q + m /\ (k - q) * (Radix - 1) = P - Q
    BY <1>1, <1>3, <1>4
  <2> HIDE DEF P, Q
  <2> QED
    BY <1>1, <2>1, <2>2
<1>6. q + m = 0 <=> c = 0
  <2>1. CASE q + m = 0
    BY <1>1, <2>1
  <2>2. CASE q + m # 0
    <3>1. q * Radix >= q
      BY <1>1
    <3> QED
      BY <1>1, <2>2, <3>1
  <2> QED
    BY <2>1, <2>2
<1>7. SameSum(q + m, o)
  <2>1. k - q \in Int
    BY <1>1
  <2>2. Congruent(q + m, o)
    BY <1>5, <2>1 DEF Congruent
  <2> QED
    BY <1>6, <2>2 DEF SameSum
<1>8. q + m \in Nat /\ q + m <= 2 * Radix - 2
  BY <1>1, <1>2
<1> QED
  BY <1>7, <1>8 DEF q, m

(* The second fold leaves the one's complement sum in the lower half.      *)
LEMMA SecondFoldExact ==
  ASSUME NEW c \in Nat, NEW o \in Word, SameSum(c, o), c <= 2 * Radix - 2
  PROVE  ((c + (c \div Radix)) % SumLimit) % Radix = o
<1> USE ChecksumAssumption DEF Word
<1>1. PICK k \in Int : c = k * (Radix - 1) + o
  BY DEF SameSum, Congruent
<1>2. c = 0 <=> o = 0
  BY DEF SameSum
<1>3. k < 2
  <2>1. SUFFICES ASSUME k >= 2 PROVE FALSE
    OBVIOUS
  <2>2. k * (Radix - 1) >= 2 * (Radix - 1)
    BY <2>1
  <2> QED
    BY <1>1, <1>2, <2>2
<1>4. k >= 0
  <2>1. SUFFICES ASSUME k <= -1 PROVE FALSE
    OBVIOUS
  <2>2. k * (Radix - 1) <= -(Radix - 1)
    BY <2>1
  <2> QED
    BY <1>1, <1>2, <2>2
<1>5. SumLimit \in Nat /\ 2 * Radix <= SumLimit
  <2>1. Radix * Radix >= 2 * Radix
    BY SMT
  <2> QED
    BY <2>1 DEF SumLimit
<1>6. CASE k = 0
  <2>1. c = o /\ c < Radix
    BY <1>1, <1>6
  <2>2. c \div Radix = 0 /\ c % Radix = c
    BY <2>1, Z3
  <2>3. c % SumLimit = c
    BY <1>5, <2>1, Z3
  <2> QED
    BY <2>1, <2>2, <2>3
<1>7. CASE k = 1
  <2>1. c = Radix - 1 + o /\ o > 0 /\ c >= Radix
    BY <1>1, <1>2, <1>7
  <2>2. c \div Radix = 1
    BY <2>1, Z3
  <2>3. (c + 1) % SumLimit = c + 1
    <3>1. c + 1 < SumLimit /\ c + 1 \in Nat /\ SumLimit \in Nat
      BY <1>5, <2>1
    <3> QED
      BY <3>1, Z3
  <2>4. c + 1 = Radix + o
    BY <2>1
  <2>5. (Radix + o) % Radix = o \/ o = Radix
    BY Z3
  <2> QED
    BY <2>2, <2>3, <2>4, <2>5
<1> QED
  BY <1>3, <1>4, <1>6, <1>7
-----------------------------------------------------------------------------
TypeInv ==
  /\ pc \in {"words", "byte", "fold1", "fold2", "return", "done"}
  /\ buffer \in Buffers /\ n \in 0..Len(buffer.words)
  /\ cksum \in Nat /\ ones \in Word /\ returned \in Word

(* The sum never reaches 2^32: n words, and the odd byte, are too few.     *)
NoOverflow ==
  /\ pc = "words" => cksum <= n * (Radix - 1)
  /\ pc = "byte" => cksum <= Len(buffer.words) * (Radix - 1) /\ buffer.odd # << >>
  /\ pc = "fold1" => cksum < SumLimit

Sums ==
  /\ pc \in {"words", "byte", "fold1", "fold2"} => SameSum(cksum, ones)
  /\ pc = "fold2" => cksum <= 2 * Radix - 2
  /\ pc = "return" => cksum % Radix = ones
  /\ pc = "done" => returned + ones = Radix - 1

Inv == TypeInv /\ NoOverflow /\ Sums

(* A sum of k words with one more word fits into an unsigned long.         *)
LEMMA OneMoreWord ==
  ASSUME NEW k \in Nat, k < Radix, NEW c \in Nat, c <= k * (Radix - 1), NEW w \in Word
  PROVE  /\ (c + w) % SumLimit = c + w
         /\ c + w <= (k + 1) * (Radix - 1)
         /\ c + w < SumLimit
<1> USE ChecksumAssumption DEF Word
<1>1. (k + 1) * (Radix - 1) = k * (Radix - 1) + (Radix - 1)
  BY SMT
<1>2. k * (Radix - 1) <= (Radix - 1) * (Radix - 1)
  BY SMT
<1>3. (Radix - 1) * (Radix - 1) = Radix * Radix - 2 * Radix + 1
  BY SMT
<1>4. c + w < SumLimit /\ SumLimit \in Nat
  BY <1>2, <1>3 DEF SumLimit
<1>5. (c + w) % SumLimit = c + w
  BY <1>4, Z3
<1> QED
  BY <1>1, <1>4, <1>5

(* The checksum of every buffer of fewer than 2^16 words is the Internet   *)
(* checksum: no carry is lost in the sum or in the folds.                  *)
THEOREM ChecksumIsInternet == Spec => []InternetChecksum
<1>1. Init => Inv
  <2> SUFFICES ASSUME Init PROVE Inv
    OBVIOUS
  <2> USE ChecksumAssumption
  <2>1. 0 = 0 * (Radix - 1) + 0
    OBVIOUS
  <2>2. SameSum(0, 0)
    BY <2>1 DEF SameSum, Congruent
  <2>3. \A b \in Buffers : Len(b.words) \in Nat
    OBVIOUS
  <2> QED
    BY <2>1, <2>2, <2>3 DEF Init, Inv, TypeInv, NoOverflow, Sums, Word
<1>2. Inv /\ [Next]_vars => Inv'
  <2> SUFFICES ASSUME Inv, [Next]_vars PROVE Inv'
    OBVIOUS
  <2> USE ChecksumAssumption
  <2>0. /\ buffer.words \in Seq(Word) /\ Len(buffer.words) \in Nat
        /\ Len(buffer.words) < Radix
        /\ buffer.odd # << >> => buffer.odd[1] \in Word
    BY DEF Inv, TypeInv
  <2>1. CASE AddWord
    <3> DEFINE w == buffer.words[n + 1]
    <3>1. w \in Word /\ n \in Nat /\ n < Radix
      BY <2>0, <2>1 DEF AddWord, Inv, TypeInv
    <3>2. cksum <= n * (Radix - 1) /\ SameSum(cksum, ones) /\ cksum \in Nat /\ ones \in Word
      BY <2>1 DEF AddWord, Inv, TypeInv, NoOverflow, Sums
    <3>3. cksum' = cksum + w /\ cksum + w <= (n + 1) * (Radix - 1)
      BY <2>1, <3>1, <3>2, OneMoreWord DEF AddWord, Add
    <3>4. SameSum(cksum + w, OnesAdd(ones, w)) /\ OnesAdd(ones, w) \in Word
      BY <3>1, <3>2, AdditionKeepsSum
    <3>5. ones' = OnesAdd(ones, w) /\ n' = n + 1 /\ pc' = "words" /\ buffer' = buffer
      BY <2>1 DEF AddWord, Add
    <3>6. TypeInv'
      BY <2>0, <2>1, <3>1, <3>2, <3>3, <3>4, <3>5 DEF AddWord, Inv, TypeInv, Word
    <3>7. NoOverflow'
      BY <3>3, <3>5 DEF NoOverflow
    <3>8. Sums'
      BY <3>3, <3>4, <3>5 DEF Sums, SameSum, Congruent
    <3> QED
      BY <3>6, <3>7, <3>8 DEF Inv
  <2>2. CASE LastWord
    <3>1. cksum <= Len(buffer.words) * (Radix - 1) /\ cksum \in Nat
      BY <2>2 DEF LastWord, Inv, TypeInv, NoOverflow
    <3>2. cksum < SumLimit
      <4>1. 0 \in Word
        BY DEF Word
      <4>2. cksum + 0 < SumLimit
        BY <2>0, <3>1, <4>1, OneMoreWord
      <4> QED
        BY <3>1, <4>2
    <3>3. TypeInv'
      BY <2>2 DEF LastWord, Inv, TypeInv
    <3>4. NoOverflow'
      BY <2>2, <3>1, <3>2 DEF LastWord, NoOverflow
    <3>5. Sums'
      BY <2>2 DEF LastWord, Inv, Sums, SameSum, Congruent
    <3> QED
      BY <3>3, <3>4, <3>5 DEF Inv
  <2>3. CASE AddByte
    <3> DEFINE w == buffer.odd[1]
    <3>1. w \in Word
      BY <2>0, <2>3 DEF AddByte, Inv, NoOverflow
    <3>2. /\ cksum <= Len(buffer.words) * (Radix - 1)
          /\ SameSum(cksum, ones) /\ cksum \in Nat /\ ones \in Word
      BY <2>3 DEF AddByte, Inv, TypeInv, NoOverflow, Sums
    <3>3. cksum' = cksum + w /\ cksum + w < SumLimit
      BY <2>0, <2>3, <3>1, <3>2, OneMoreWord DEF AddByte, Add
    <3>4. SameSum(cksum + w, OnesAdd(ones, w)) /\ OnesAdd(ones, w) \in Word
      BY <3>1, <3>2, AdditionKeepsSum
    <3>5. ones' = OnesAdd(ones, w) /\ pc' = "fold1"
      BY <2>3 DEF AddByte, Add
    <3>6. TypeInv'
      BY <2>3, <3>1, <3>2, <3>3, <3>4, <3>5 DEF AddByte, Inv, TypeInv, Word
    <3>7. NoOverflow'
      BY <3>3, <3>5 DEF NoOverflow, SumLimit
    <3>8. Sums'
      BY <3>3, <3>4, <3>5 DEF Sums, SameSum, Congruent
    <3> QED
      BY <3>6, <3>7, <3>8 DEF Inv
  <2>4. CASE Fold1
    <3> DEFINE f == (cksum \div Radix) + (cksum % Radix)
    <3>1. SameSum(cksum, ones) /\ cksum \in Nat /\ ones \in Word /\ cksum < SumLimit
      BY <2>4 DEF Fold1, Inv, TypeInv, NoOverflow, Sums
    <3>2. f \in Nat /\ f <= 2 * Radix - 2 /\ SameSum(f, ones)
      BY <3>1, FoldKeepsSum
    <3>3. cksum' = f /\ pc' = "fold2" /\ UNCHANGED <<buffer, n, returned, ones>>
      BY <2>4 DEF Fold1
    <3> HIDE DEF f
    <3>4. TypeInv' /\ NoOverflow'
      BY <3>2, <3>3 DEF Inv, TypeInv, NoOverflow
    <3>5. Sums'
      BY <3>2, <3>3 DEF Sums, SameSum, Congruent
    <3> QED
      BY <3>4, <3>5 DEF Inv
  <2>5. CASE Fold2
    <3> DEFINE f == (cksum + (cksum \div Radix)) % SumLimit
    <3>1. SameSum(cksum, ones) /\ cksum \in Nat /\ ones \in Word /\ cksum <= 2 * Radix - 2
      BY <2>5 DEF Fold2, Inv, TypeInv, Sums
    <3>2. f % Radix = ones
      BY <3>1, SecondFoldExact
    <3>3. f \in Nat
      <4>1. cksum + (cksum \div Radix) \in Nat /\ SumLimit \in Nat /\ SumLimit > 0
        BY <3>1, Halves DEF SumLimit
      <4> QED
        BY <4>1, Z3
    <3>4. cksum' = f /\ pc' = "return" /\ UNCHANGED <<buffer, n, returned, ones>>
      BY <2>5 DEF Fold2
    <3> HIDE DEF f
    <3> QED
      BY <3>2, <3>3, <3>4 DEF Inv, TypeInv, NoOverflow, Sums
  <2>6. CASE Return
    <3>1. cksum % Radix = ones /\ ones \in Word
      BY <2>6 DEF Return, Inv, TypeInv, Sums
    <3>2. returned' = Radix - 1 - ones /\ pc' = "done" /\ UNCHANGED <<buffer, n, cksum, ones>>
      BY <2>6, <3>1 DEF Return
    <3> QED
      BY <3>1, <3>2 DEF Inv, TypeInv, NoOverflow, Sums, Word
  <2>7. CASE UNCHANGED vars
    BY <2>7 DEF vars, Inv, TypeInv, NoOverflow, Sums, SameSum, Congruent
  <2> QED
    BY <2>1, <2>2, <2>3, <2>4, <2>5, <2>6, <2>7 DEF Next
<1>3. Inv => InternetChecksum
  BY DEF Inv, Sums, InternetChecksum
<1> QED
  BY <1>1, <1>2, <1>3, PTL DEF Spec
=============================================================================
