---------------------------------- MODULE Bytes ----------------------------------
(***************************************************************************)
(* A byte as the set of its bits that are 1, so that its width is a        *)
(* parameter and the operators of C on its bits are those on sets: an      *)
(* erased byte is Bits, zero is {}.                                        *)
(***************************************************************************)
EXTENDS Integers

CONSTANT Width  \* the width of a byte: 8

ASSUME WidthAssumption == Width \in Nat \ {0, 1}

Bits == 0..(Width - 1)

Byte == SUBSET Bits

Xor(b, c) == (b \ c) \cup (c \ b)

(* The number that the highest k bits of a byte make, and the whole byte.  *)
Highest(b) ==
  LET number[k \in 0..Width] ==
        IF k = 0 THEN 0
        ELSE 2 * number[k - 1] + (IF Width - k \in b THEN 1 ELSE 0)
  IN  number

Number(b) == Highest(b)[Width]

(* A number as it is stored in a byte.                                     *)
ByteOf(n) == CHOOSE b \in Byte : Number(b) = n % (Number(Bits) + 1)
===============================================================================
