-------------------------- MODULE ThresholdsProofs --------------------------
(***************************************************************************)
(* What the adaptation of the thresholds guarantees for every table size,  *)
(* every first threshold and every sequence of analyses.                   *)
(***************************************************************************)
EXTENDS Thresholds, TLAPS

USE ThresholdAssumption

(* The cube is strictly monotonic.                                         *)
LEMMA CubeMonotone ==
  ASSUME NEW a \in Nat, NEW b \in Nat, b < a
  PROVE  Cube(b) < Cube(a)
<1>1. b * b <= a * a /\ b * b \in Nat /\ a * a \in Nat
  <2>1. b * b <= a * b
    OBVIOUS
  <2>2. a * b <= a * a
    OBVIOUS
  <2>3. QED
    BY <2>1, <2>2
<1>2. (b * b) * b <= (a * a) * b
  BY <1>1
<1>3. (a * a) * b < (a * a) * a
  <2>1. a * a > 0
    OBVIOUS
  <2> DEFINE q == a * a
  <2>2. q \in Nat /\ q > 0
    BY <2>1
  <2> HIDE DEF q
  <2>3. q * b < q * a
    BY <2>2
  <2>4. QED
    BY <2>3 DEF q
<1>4. QED
  BY <1>2, <1>3 DEF Cube

(* Under pressure the exact product exceeds the threshold, so that its     *)
(* truncation cannot be less.                                              *)
LEMMA RaisedAtLeast ==
  ASSUME NEW t \in 0..FirstThreshold, NEW avg \in Nat, Pressure(avg),
         NEW x \in Raised(t, avg)
  PROVE  x \in 0..FirstThreshold /\ t <= x
<1> DEFINE up == 1000 * Cube(avg)
           down == 729 * Cube(FlowMem)
<1>1. up \in Nat /\ down \in Nat /\ down < up
  <2>1. Cube(9 * FlowMem) < Cube(10 * avg)
    BY CubeMonotone DEF Pressure
  <2>2. Cube(9 * FlowMem) = down
    BY DEF Cube
  <2>3. Cube(10 * avg) = up
    BY DEF Cube
  <2>4. up \in Nat /\ down \in Nat
    BY DEF Cube
  <2>5. QED
    BY <2>1, <2>2, <2>3, <2>4
<1>2. x \in 0..FirstThreshold /\ (t * up <= (x + 1) * down \/ x = FirstThreshold)
  <2>1. t * 1000 * Cube(avg) = t * up
    BY DEF Cube
  <2>2. QED
    BY <2>1 DEF Raised
<1>3. CASE t * up <= (x + 1) * down
  <2>1. SUFFICES ASSUME x + 1 <= t
                 PROVE  FALSE
    BY <1>2
  <2> HIDE DEF up, down
  <2>2. (x + 1) * down <= t * down
    BY <1>1, <1>2, <2>1
  <2>3. t * down < t * up
    BY <1>1, <1>2, <2>1
  <2>4. QED
    BY <1>1, <1>2, <1>3, <2>2, <2>3
<1>4. CASE x = FirstThreshold
  BY <1>4
<1>5. QED
  BY <1>2, <1>3, <1>4

(* The value both adjustments store.                                       *)
LEMMA BoundedRange ==
  ASSUME NEW x \in 0..FirstThreshold
  PROVE  /\ Bounded(x) \in 0..FirstThreshold
         /\ x <= Bounded(x)
         /\ FirstThreshold > 0 => Bounded(x) \in 1..FirstThreshold
BY DEF Bounded

LEMMA FractionRange ==
  ASSUME NEW t \in 0..FirstThreshold
  PROVE  r_mul(t) \in 0..FirstThreshold /\ 5 * r_mul(t) <= t
BY DEF r_mul

-----------------------------------------------------------------------------
(* The inductive invariant: the waiting counter never runs ahead of the    *)
(* quiet analyses it is meant to count.                                    *)
TInv ==
  /\ ThresholdTypeOK
  /\ ThresholdBounds
  /\ EarlyRemovalBound
  /\ noVarIntervals <= quiet

LEMMA ThresholdInitInv == ThresholdInit => TInv
<1> SUFFICES ASSUME ThresholdInit PROVE TInv
  OBVIOUS
<1>1. r_mul(FirstThreshold) \in 0..FirstThreshold /\ 5 * r_mul(FirstThreshold) <= FirstThreshold
  BY FractionRange
<1>2. QED
  BY <1>1 DEF ThresholdInit, TInv, ThresholdTypeOK, ThresholdBounds, EarlyRemovalBound

LEMMA AverageNat ==
  ASSUME NEW n1 \in Nat, NEW n2 \in Nat, NEW n3 \in Nat
  PROVE  entriesUsedAVG(n1, n2, n3) \in Nat
BY DEF entriesUsedAVG

(* What each adjustment does to the thresholds.                            *)
LEMMA UpStep ==
  ASSUME TInv, NEW avg \in Nat, AdjustUp(avg)
  PROVE  /\ t_threshold' \in 0..FirstThreshold
         /\ FirstThreshold > 0 => t_threshold' \in 1..FirstThreshold
         /\ t_threshold <= t_threshold'
         /\ r_threshold' = r_threshold /\ noVarIntervals' = 0
<1>1. PICK x \in Raised(t_threshold, avg) : t_threshold' = Bounded(x)
  BY DEF AdjustUp
<1>2. t_threshold \in 0..FirstThreshold /\ Pressure(avg)
  BY DEF TInv, ThresholdTypeOK, AdjustUp
<1>3. x \in 0..FirstThreshold /\ t_threshold <= x
  BY <1>2, RaisedAtLeast
<1>4. /\ Bounded(x) \in 0..FirstThreshold /\ x <= Bounded(x)
      /\ FirstThreshold > 0 => Bounded(x) \in 1..FirstThreshold
  BY <1>3, BoundedRange
<1>5. QED
  BY <1>1, <1>2, <1>3, <1>4 DEF AdjustUp

LEMMA DownStep ==
  ASSUME TInv, NEW avg \in Nat, AdjustDown(avg)
  PROVE  /\ t_threshold' \in 0..FirstThreshold
         /\ FirstThreshold > 0 => t_threshold' \in 1..FirstThreshold
         /\ r_threshold' \in 0..FirstThreshold /\ 5 * r_threshold' <= t_threshold'
         /\ noVarIntervals' = 0 /\ quiet = 3
<1>1. PICK x \in Lowered(t_threshold, avg) : t_threshold' = Bounded(x)
  BY DEF AdjustDown
<1>2. x \in 0..FirstThreshold
  BY DEF Lowered
<1>3. /\ t_threshold' \in 0..FirstThreshold
      /\ FirstThreshold > 0 => t_threshold' \in 1..FirstThreshold
  BY <1>1, <1>2, BoundedRange
<1>4. r_threshold' \in 0..FirstThreshold /\ 5 * r_threshold' <= t_threshold'
  BY <1>3, FractionRange DEF AdjustDown
<1>5. QED
  BY <1>3, <1>4 DEF AdjustDown, TInv, ThresholdTypeOK

(* What an analysis does, whichever way it adjusts.                        *)
LEMMA IntervalStep ==
  ASSUME TInv, NEW n \in Nat, Interval(n)
  PROVE  /\ TInv'
         /\ Pressure(entriesUsedAVG(n, e1, e2)) => t_threshold <= t_threshold'
         /\ t_threshold' < t_threshold => quiet = 3
<1> DEFINE avg == entriesUsedAVG(n, e1, e2)
<1>1. /\ ThresholdTypeOK /\ noVarIntervals <= quiet /\ EarlyRemovalBound /\ ThresholdBounds
      /\ avg \in Nat
  BY AverageNat DEF TInv, ThresholdTypeOK
<1>2. /\ old_t_threshold' = t_threshold /\ old_r_threshold' = r_threshold
      /\ e1' = n /\ e2' = e1 /\ e3' = e2
      /\ quiet' = IF Pressure(avg) \/ t_threshold' # t_threshold THEN 0
                  ELSE IF quiet < 3 THEN quiet + 1 ELSE quiet
  BY DEF Interval, update_thresholds
<1>3. AdjustUp(avg) \/ AdjustDown(avg) \/ Wait(avg)
  BY DEF Interval, update_thresholds
<1> DEFINE Kept ==
      /\ t_threshold' \in 0..FirstThreshold
      /\ FirstThreshold > 0 => t_threshold' \in 1..FirstThreshold
      /\ r_threshold' \in 0..FirstThreshold /\ 5 * r_threshold' <= t_threshold'
      /\ noVarIntervals' \in 0..3 /\ noVarIntervals' <= quiet'
      /\ Pressure(avg) => t_threshold <= t_threshold'
      /\ t_threshold' < t_threshold => quiet = 3
<1>4. quiet' \in 0..3
  BY <1>1, <1>2 DEF ThresholdTypeOK
<1>5. Kept
  <2> HIDE DEF avg
  <2>1. CASE AdjustUp(avg)
    BY <1>1, <1>4, <2>1, UpStep DEF ThresholdTypeOK, EarlyRemovalBound
  <2>2. CASE AdjustDown(avg)
    <3>1. ~ Pressure(avg)
      BY <2>2 DEF AdjustDown
    <3>2. QED
      BY <1>1, <1>4, <2>2, <3>1, DownStep
  <2>3. CASE Wait(avg)
    <3>1. /\ ~ Pressure(avg) /\ noVarIntervals < 3 /\ noVarIntervals' = noVarIntervals + 1
          /\ t_threshold' = t_threshold /\ r_threshold' = r_threshold
      BY <2>3 DEF Wait
    <3>2. quiet' = IF quiet < 3 THEN quiet + 1 ELSE quiet
      BY <1>2, <3>1
    <3>3. QED
      BY <1>1, <3>1, <3>2 DEF ThresholdTypeOK, ThresholdBounds, EarlyRemovalBound
  <2>4. QED
    BY <1>3, <2>1, <2>2, <2>3
<1>6. ThresholdTypeOK'
  <2>1. e1' \in Nat /\ e2' \in Nat /\ e3' \in Nat
    BY <1>1, <1>2 DEF ThresholdTypeOK
  <2>2. /\ old_t_threshold' \in 0..FirstThreshold /\ old_r_threshold' \in 0..FirstThreshold
    BY <1>1, <1>2 DEF ThresholdTypeOK
  <2>3. QED
    BY <1>4, <1>5, <2>1, <2>2 DEF ThresholdTypeOK
<1>7. TInv'
  BY <1>5, <1>6 DEF TInv, ThresholdBounds, EarlyRemovalBound
<1>8. QED
  BY <1>5, <1>7

LEMMA ThresholdStepInv == TInv /\ [ThresholdNext]_tvars => TInv'
<1> SUFFICES ASSUME TInv, [ThresholdNext]_tvars PROVE TInv'
  OBVIOUS
<1>1. ASSUME NEW n \in ResultSizes, Interval(n)
      PROVE  TInv'
  BY <1>1, IntervalStep
<1>2. CASE UNCHANGED tvars
  BY <1>2 DEF tvars, TInv, ThresholdTypeOK, ThresholdBounds, EarlyRemovalBound
<1>3. QED
  BY <1>1, <1>2 DEF ThresholdNext

THEOREM ThresholdInvariance == ThresholdSpec => []TInv
BY ThresholdInitInv, ThresholdStepInv, PTL DEF ThresholdSpec

-----------------------------------------------------------------------------
(* update_thresholds keeps every threshold within 0 .. first_t_threshold,  *)
(* the waiting counter within 0 .. 3 and the statistics natural.           *)
THEOREM ThresholdTypes == ThresholdSpec => []ThresholdTypeOK
BY ThresholdInvariance, PTL DEF TInv

(* update_thresholds never leaves 0 in a threshold that started above it,  *)
(* nor anything over its first value, and the early removal threshold      *)
(* stays within its fraction also where it is not updated.                 *)
THEOREM ThresholdRange == ThresholdSpec => []ThresholdsInRange
BY ThresholdInvariance, PTL DEF TInv, ThresholdsInRange

(* update_thresholds lowers the threshold only after three quiet analyses. *)
THEOREM PacedDecrease == ThresholdSpec => DecreasePaced
<1>1. TInv /\ [ThresholdNext]_tvars => [t_threshold' < t_threshold => quiet >= 3]_tvars
  <2> SUFFICES ASSUME TInv, ThresholdNext, t_threshold' < t_threshold
               PROVE  quiet >= 3
    OBVIOUS
  <2>1. PICK n \in ResultSizes : Interval(n)
    BY DEF ThresholdNext
  <2>2. quiet = 3
    BY <2>1, IntervalStep
  <2>3. QED
    BY <2>2
<1>2. QED
  BY <1>1, ThresholdInvariance, PTL DEF ThresholdSpec, DecreasePaced

(* An analysis under pressure never lowers the threshold.                  *)
THEOREM NoDecreaseUnderPressure == ThresholdSpec => PressureNeverLowers
<1> DEFINE KeptUp == Pressure(entriesUsedAVG(e1', e2', e3')) => t_threshold' >= t_threshold
<1>1. TInv /\ [ThresholdNext]_tvars => [KeptUp]_tvars
  <2> SUFFICES ASSUME TInv, ThresholdNext PROVE KeptUp
    OBVIOUS
  <2>1. PICK n \in ResultSizes : Interval(n)
    BY DEF ThresholdNext
  <2>2. e1' = n /\ e2' = e1 /\ e3' = e2
    BY <2>1 DEF Interval
  <2>3. Pressure(entriesUsedAVG(n, e1, e2)) => t_threshold <= t_threshold'
    BY <2>1, IntervalStep
  <2>4. t_threshold \in Nat /\ t_threshold' \in Nat
    BY <2>1, IntervalStep DEF TInv, ThresholdTypeOK
  <2>5. QED
    BY <2>2, <2>3, <2>4
<1>2. QED
  BY <1>1, ThresholdInvariance, PTL DEF ThresholdSpec, PressureNeverLowers
=============================================================================
