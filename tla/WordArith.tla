----------------------------- MODULE WordArith -----------------------------
(***************************************************************************)
(* Arithmetic of machine words made of two bytes: what the byte-wide adds, *)
(* subtractions, compares and shifts compute, for any width.               *)
(*                                                                         *)
(* An operation of size M works modulo M and returns [val, carry].  At     *)
(* M = ByteSize it is the 8-bit instruction, at M = WordSize the 16-bit    *)
(* operation the instruction table's patterns (add, sube, ...) name.       *)
(***************************************************************************)
EXTENDS Integers
LOCAL INSTANCE FiniteSetsExt

CONSTANT ByteSize   \* 256

ASSUME ByteSizeAssumption == ByteSize \in Nat /\ ByteSize > 1 /\ ByteSize % 2 = 0

WordSize == ByteSize * ByteSize

Byte == 0..(ByteSize - 1)
Word == 0..(WordSize - 1)

\* splitReg: the value of a register pair and of its halves.
Pair(lo, hi) == ByteSize * hi + lo
Lo(w) == w % ByteSize
Hi(w) == (w \div ByteSize) % ByteSize

\* Mutant: the sum is not cut to the width.
AddUncut(a, b, c, M) ==
  [val |-> a + b + c, carry |-> IF a + b + c >= M THEN 1 ELSE 0]

AddWith(a, b, c, M) ==
  [val |-> (a + b + c) % M, carry |-> IF a + b + c >= M THEN 1 ELSE 0]

SubWith(a, b, c, M) ==
  [val |-> (a - b - c) % M, carry |-> IF a < b + c THEN 1 ELSE 0]

\* a and b in two's complement.
Signed(a, M) == IF 2 * a < M THEN a ELSE a - M

\* The sign flag after a subtraction: a - b - c is negative.
SignedLess(a, b, c, M) == Signed(a, M) - Signed(b, M) - c < 0

\* Shifts, the bit shifted in being c.
ShiftLeft(a, c, M) ==
  [val |-> (2 * a + c) % M, carry |-> IF 2 * a >= M THEN 1 ELSE 0]

ShiftRight(a, c, M) ==
  [val |-> (a \div 2) + (IF c = 1 THEN M \div 2 ELSE 0), carry |-> a % 2]

TopBit(a, M) == IF 2 * a >= M THEN 1 ELSE 0

\* Logic, bit by bit; M is a power of two.
BitOf(a, k) == (a \div 2^k) % 2
BitByBit(op(_, _), a, b, M) ==
  MapThenSumSet(LAMBDA k : 2^k * op(BitOf(a, k), BitOf(b, k)), {k \in 0..15 : 2^k < M})

AndBits(a, b, M) == BitByBit(LAMBDA x, y : x * y, a, b, M)
OrBits(a, b, M) == BitByBit(LAMBDA x, y : x + y - x * y, a, b, M)
XorBits(a, b, M) == BitByBit(LAMBDA x, y : (x + y) % 2, a, b, M)
============================================================================
