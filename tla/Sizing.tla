------------------------------- MODULE Sizing -------------------------------
(***************************************************************************)
(* The numbers main computes from the options before it builds the farm:   *)
(* nextPrime (utils.cpp), the sizes of the hash tables, the number of      *)
(* workers and the first threshold (FHFcapturing.cpp).                     *)
(*                                                                         *)
(* A float is an exact ratio [num, den]; a product that is exactly an      *)
(* integer may come out just below it.  What the language leaves undefined *)
(* (an uninitialised result, a conversion out of range) may be any number  *)
(* of the type, so these operators return the set of possible results.     *)
(***************************************************************************)
EXTENDS Integers

CONSTANT WordMod        \* unsigned int is a number below it, 2^32

ASSUME SizingAssumption == WordMod \in Nat /\ WordMod > 3

Word == 0..(WordMod - 1)

Ratio == [num : Nat, den : Nat \ {0}]

-----------------------------------------------------------------------------
(* Slip: the loop stops before the root of the number. *)
DivisorFoundBelowRoot(n) == \E i \in 2..n : i * i < n /\ n % i = 0

(* The loop `for (i = 2; i < n / 2; i++)' finds a divisor.                 *)
DivisorFound(n) == \E i \in 2..((n \div 2) - 1) : n % i = 0

(* The numbers above num at which the second loop may stop.                *)
Candidates(num) == {n \in (num + 1)..(WordMod - 1) : ~ DivisorFound(n)}

(* The result is assigned only if num has a divisor: then it is the next   *)
(* number in which none is found, 0 when the search wraps around.          *)
nextPrime(num) ==
  IF ~ DivisorFound(num) THEN Word
  ELSE IF Candidates(num) = {} THEN {0}
  ELSE {n \in Candidates(num) : \A k \in Candidates(num) : n <= k}

-----------------------------------------------------------------------------
(* num/den as a float, converted to an integer type wide enough for it.    *)
Truncated(num, den) ==
  {num \div den} \cup (IF num > 0 /\ num % den = 0 THEN {(num \div den) - 1} ELSE {})

(* Does num/den fit an unsigned int?                                       *)
Fits(num, den) == den > 0 /\ num < WordMod * den

(* num/den as a float, converted to unsigned int.                          *)
ToUnsigned(num, den) == IF Fits(num, den) THEN Truncated(num, den) ELSE Word

(* Slip: the oversampling alone, not on top of the interesting flows. *)
dimHOversamplingOnly(y, s) == [num |-> y.den * s.num, den |-> y.num * s.den]

(* dimH = 1/percentage + 1/percentage * oversampling; percentage may be 0. *)
dimH(y, s) == [num |-> y.den * (s.den + s.num), den |-> y.num * s.den]

(* The assertion of main, hashTablesSize > 1/percentage.                   *)
LargeEnough(size, y) == size * y.num > y.den

(* Slip: two threads taken for enough. *)
nWorkersFromTwo(w) == IF w > 1 THEN w - 2 ELSE 1

(* nWorkers for a parDegree.                                               *)
nWorkersFor(w) == IF w > 3 THEN w - 2 ELSE 1

(* hashPart of the average-case build.                                     *)
hashPart(size, n) == ToUnsigned(size + n, n)

(* hashPart + hashPart * oversampling, the argument of nextPrime.          *)
workerDim(part, s) == [num |-> part * (s.den + s.num), den |-> s.den]

(* Slip: the bandwidth of a heavy flow is made an integer too early. *)
firstThresholdPerSecond(l, y, q) ==
  {((n * q) % WordMod) : n \in Truncated(l * y.num, y.den)}

(* (linkCapacity * percentage) * sampleInterval as a long, which becomes   *)
(* the unsigned int parameter of Worker.                                   *)
firstThreshold(l, y, q) == {n % WordMod : n \in Truncated(l * y.num * q, y.den)}
=============================================================================
