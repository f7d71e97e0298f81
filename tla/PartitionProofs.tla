-------------------------- MODULE PartitionProofs --------------------------
(***************************************************************************)
(* Partition for integers of every width, every number of partitions and   *)
(* ids of every length.                                                    *)
(***************************************************************************)
EXTENDS Partition, TLAPS

\* Two integers that differ by a multiple of Modulus.
Congruent(x, y) == \E k \in Int : x = y + k * Modulus

Half == Modulus \div 2

\* ToInt gives an integer of the width that is congruent to its argument.
LEMMA ToIntWraps ==
    ASSUME NEW x \in Int
    PROVE  /\ ToInt(x) \in -Half .. Half - 1
           /\ Congruent(ToInt(x), x)
<1> DEFINE m == x % Modulus
           q == x \div Modulus
<1>1. Modulus \in Nat \ {0} /\ Half \in Nat /\ Modulus = 2 * Half
  BY PartitionAssumption DEF Half
<1>2. m \in 0 .. Modulus - 1 /\ q \in Int /\ x = q * Modulus + m
  <2>1. x = (x \div Modulus) * Modulus + (x % Modulus)
    BY <1>1
  <2> QED
    BY <1>1, <2>1
<1> HIDE DEF m, q
<1>3. ToInt(x) = IF m < Half THEN m ELSE m - Modulus
  BY DEF ToInt, Half, m
<1>4. ToInt(x) \in -Half .. Half - 1
  BY <1>1, <1>2, <1>3
<1>5. ToInt(x) = x + (-q) * Modulus \/ ToInt(x) = x + (-q - 1) * Modulus
  BY <1>1, <1>2, <1>3
<1>6. Congruent(ToInt(x), x)
  BY <1>2, <1>5 DEF Congruent
<1> QED
  BY <1>4, <1>6

\* The wraps inside one round of the loop can all be left to its end.
LEMMA NextHashIsCongruent ==
    ASSUME NEW h \in Int, NEW p \in Int, NEW char \in Int, Congruent(h, p)
    PROVE  Congruent(NextHash(h, char), p * 31 + char)
<1> DEFINE shifted == ToInt(h * 32)
<1>1. Modulus \in Int
  BY PartitionAssumption
<1>2. PICK k \in Int : h = p + k * Modulus
  BY DEF Congruent
<1>3. shifted \in Int /\ \E i \in Int : shifted = h * 32 + i * Modulus
  <2>1. h * 32 \in Int /\ Half \in Int
    BY PartitionAssumption DEF Half
  <2> QED
    BY <2>1, ToIntWraps DEF Congruent
<1>4. PICK i \in Int : shifted = h * 32 + i * Modulus
  BY <1>3
<1>5. (shifted - h) + char \in Int
  BY <1>3
<1>6. PICK j \in Int :
        NextHash(h, char) = ((shifted - h) + char) + j * Modulus
  BY <1>5, ToIntWraps DEF Congruent, NextHash
<1> HIDE DEF shifted
<1>7. NextHash(h, char) = h * 31 + char + i * Modulus + j * Modulus
  BY <1>1, <1>3, <1>4, <1>6
<1>8. h * 31 = p * 31 + (k * 31) * Modulus
  BY <1>1, <1>2
<1>9. (k * 31) * Modulus + i * Modulus + j * Modulus = (k * 31 + i + j) * Modulus
  BY <1>1
<1>10. NextHash(h, char) = p * 31 + char + (k * 31 + i + j) * Modulus
  BY <1>1, <1>7, <1>8, <1>9
<1> QED
  BY <1>10 DEF Congruent

-----------------------------------------------------------------------------
(* The inductive invariant: the range of the hash, and the congruence in   *)
(* its existential form, which a step preserves without division.          *)

HashInv == TypeOK /\ Congruent(hash, polynomial)

LEMMA HashInvInit == Init => HashInv
<1> SUFFICES ASSUME Init PROVE HashInv
  OBVIOUS
<1>1. Half \in Nat \ {0} /\ Modulus \in Int /\ MaxLength \in Nat
  BY PartitionAssumption DEF Half
<1>2. TypeOK
  BY <1>1 DEF Init, TypeOK, Half
<1>3. hash = polynomial + 0 * Modulus
  BY <1>1 DEF Init
<1> QED
  BY <1>2, <1>3 DEF HashInv, Congruent

LEMMA HashInvNext == HashInv /\ [Next]_vars => HashInv'
<1> SUFFICES ASSUME HashInv, [Next]_vars PROVE HashInv'
  OBVIOUS
<1> USE PartitionAssumption
<1>1. CASE UNCHANGED vars
  BY <1>1 DEF HashInv, TypeOK, Congruent, vars
<1>2. CASE Next
  <2> PICK char \in CharCodes : Take(char)
    BY <1>2 DEF Next
  <2>1. char \in Nat /\ hash \in Int /\ polynomial \in Nat
    BY DEF HashInv, TypeOK
  <2>2. length' \in 0 .. MaxLength
    BY DEF HashInv, TypeOK, Take
  <2>3. hash' \in -Half .. Half - 1
    <3>1. ToInt(hash * 32) \in Int
      BY <2>1, ToIntWraps DEF Half
    <3>2. (ToInt(hash * 32) - hash) + char \in Int
      BY <2>1, <3>1
    <3> QED
      BY <3>2, ToIntWraps DEF Take, NextHash
  <2>4. polynomial' \in Nat
    BY <2>1 DEF Take
  <2>5. Congruent(hash', polynomial')
    BY <2>1, NextHashIsCongruent DEF Take, HashInv
  <2>6. Congruent(hash, polynomial)'
    BY <2>5 DEF Congruent
  <2> QED
    BY <2>2, <2>3, <2>4, <2>6 DEF HashInv, TypeOK, Half
<1> QED
  BY <1>1, <1>2 DEF Next

THEOREM HashInvariant == Spec => []HashInv
BY HashInvInit, HashInvNext, PTL DEF Spec

\* The hash stays an integer of the width: the loop's final `&` wraps it.
THEOREM TypeCorrect == Spec => []TypeOK
<1>1. HashInv => TypeOK
  BY DEF HashInv
<1> QED
  BY <1>1, HashInvariant, PTL

\* The partition of every id is in range, also for the least integer, for
\* every width and every number of partitions: calculatePartition.
THEOREM PartitionInRangeThm == Spec => []PartitionInRange
<1>1. HashInv => PartitionInRange
  <2> SUFFICES ASSUME HashInv PROVE PartitionInRange
    OBVIOUS
  <2>1. hash \in Int /\ Partitions \in Nat \ {0}
    BY PartitionAssumption DEF HashInv, TypeOK
  <2>2. JsAbs(hash) \in Nat
    BY <2>1 DEF JsAbs
  <2> QED
    BY <2>1, <2>2 DEF PartitionInRange, PartitionOf, JsRemainder
<1> QED
  BY <1>1, HashInvariant, PTL

\* The hash of every id is the polynomial in 31 modulo 2^width.
THEOREM HashIsPolynomialThm == Spec => []HashIsPolynomial
<1>1. HashInv => HashIsPolynomial
  <2> SUFFICES ASSUME HashInv PROVE HashIsPolynomial
    OBVIOUS
  <2>1. PICK k \in Int : hash = polynomial + k * Modulus
    BY DEF HashInv, Congruent
  <2>2. polynomial \in Int /\ Modulus \in Nat \ {0}
    BY PartitionAssumption DEF HashInv, TypeOK
  <2>3. hash - polynomial = k * Modulus
    BY <2>1, <2>2
  <2>4. (k * Modulus) % Modulus = 0
    BY <2>2
  <2> QED
    BY <2>3, <2>4 DEF HashIsPolynomial
<1> QED
  BY <1>1, HashInvariant, PTL
=============================================================================
