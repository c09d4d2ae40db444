---------------------------- MODULE UniversalHash ----------------------------
(***************************************************************************)
(* UniversalHashFunction.cpp: a key of KeySize bytes is hashed to the sum  *)
(* of its bytes times random coefficients, modulo the size of the table,   *)
(* all in int.  An int that overflows wraps, as it does on the machines    *)
(* this program is built for.                                              *)
(***************************************************************************)
EXTENDS Sizing

CONSTANTS
  KeySize,              \* sizeof(FlowID_t), 13
  ByteMax               \* the largest unsigned char, 255

ASSUME HashAssumption ==
  /\ KeySize \in Nat \ {0}
  /\ ByteMax \in Nat \ {0}
  /\ WordMod % 2 = 0

KeyByte == 1..KeySize
Key == [KeyByte -> 0..ByteMax]

IntMax == (WordMod \div 2) - 1
Int32 == (- IntMax - 1)..IntMax

(* The int a computation leaves for the mathematical result x.             *)
ToInt(x) ==
  IF x \in Int32 THEN x ELSE ((x + WordMod \div 2) % WordMod) - (WordMod \div 2)

(* The C operator %, which truncates towards zero; m # 0.                  *)
Remainder(x, m) ==
  LET d == IF m < 0 THEN - m ELSE m
  IN  IF x >= 0 THEN x % d ELSE - ((- x) % d)

(* randomValues(0, tableSize - 1, ..): the values of one coefficient.      *)
Coefficients(tableSize) ==
  LET range == ToInt(tableSize)
  IN  IF range > 0 THEN 0..(range - 1) ELSE (range + 1)..0

(* Slip: without the parentheses the modulus binds to the product. *)
HashStepTerm(hash, kpart, coefficient, tableSize) ==
  ToInt(hash + Remainder(ToInt(kpart * coefficient), ToInt(tableSize)))

(* One round of the loop of Hash.                                          *)
HashStep(hash, kpart, coefficient, tableSize) ==
  Remainder(ToInt(hash + ToInt(kpart * coefficient)), ToInt(tableSize))

(* Tables so small that no sum of the loop leaves int: 2^23 buckets.       *)
NoOverflow(tableSize) == (ByteMax + 1) * (tableSize - 1) <= IntMax
=============================================================================
