----------------------------- MODULE Partition -----------------------------
(***************************************************************************)
(* The partition of a message: WalService.calculatePartition and the same  *)
(* loop in IdGeneratorUtil.generateShardKey.  Characters are taken one at  *)
(* a time into a hash of 32 bits, with JavaScript's rules: << wraps to the *)
(* integer's width, - and + do not, & wraps again, and the remainder of a  *)
(* negative number is negative.  2^32 is the constant Modulus, so that the *)
(* wrapping can be reached with short ids.                                 *)
(***************************************************************************)
EXTENDS Integers

CONSTANTS
    Modulus,        \* 2 to the width of an integer
    Partitions,     \* how many partitions there are, 10 for a message
    CharCodes,      \* the codes of an id's characters
    MaxLength       \* bound: the longest id

ASSUME PartitionAssumption ==
    /\ Modulus \in Nat \ {0}
    /\ Modulus % 2 = 0
    /\ Partitions \in Nat \ {0}
    /\ CharCodes \subseteq Nat
    /\ MaxLength \in Nat

VARIABLES
    length,         \* how many characters are in the hash
    hash,
    polynomial      \* history: the hash of the same ones in unbounded integers

vars == <<length, hash, polynomial>>

\* Wrap a number to the signed range of an integer.
ToInt(x) ==
    LET m == x % Modulus
    IN  IF m < Modulus \div 2 THEN m ELSE m - Modulus

JsAbs(x) == IF x < 0 THEN -x ELSE x
JsRemainder(x, n) == IF x < 0 THEN -((-x) % n) ELSE x % n

\* mutants: no wrap at the end; 33 for 31
NextHash_Wide(h, char) == (ToInt(h * 32) - h) + char
NextHash_Plus(h, char) == ToInt((ToInt(h * 32) + h) + char)

NextHash(h, char) == ToInt((ToInt(h * 32) - h) + char)

\* mutant: the sign of the hash survives
PartitionOf_Signed(h) == JsRemainder(h, Partitions)

PartitionOf(h) == JsRemainder(JsAbs(h), Partitions)

Init ==
    /\ length = 0
    /\ hash = 0
    /\ polynomial = 0

Take(char) ==
    /\ length < MaxLength
    /\ length' = length + 1
    /\ hash' = NextHash(hash, char)
    /\ polynomial' = polynomial * 31 + char

Next == \E char \in CharCodes : Take(char)

Spec == Init /\ [][Next]_vars

-----------------------------------------------------------------------------
(* Properties.                                                             *)

\* The hash stays in the range of an integer, one more negative value than
\* positive ones included.
TypeOK ==
    /\ length \in 0 .. MaxLength
    /\ hash \in -(Modulus \div 2) .. (Modulus \div 2) - 1
    /\ polynomial \in Nat

\* The partition is one of those there are, whatever the sign of the hash
\* and also for its least value, whose absolute value is no integer of that
\* width.
PartitionInRange == PartitionOf(hash) \in 0 .. Partitions - 1

\* The wrapping loop computes the polynomial in 31 modulo 2^width: no order
\* of wraps loses a carry, so equal ids have equal partitions on every
\* machine that computes the polynomial in another way.
HashIsPolynomial == (hash - polynomial) % Modulus = 0
=============================================================================
