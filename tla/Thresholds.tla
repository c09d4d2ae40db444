----------------------------- MODULE Thresholds -----------------------------
(***************************************************************************)
(* The adaptive thresholds of the Analyzer: the part of do_boundedAnalysis *)
(* that follows the number of results, and update_thresholds.  One step is *)
(* one analysis that collected n results.                                  *)
(*                                                                         *)
(* The code computes with floats and truncates to an unsigned long.  Here  *)
(* the products are exact and the truncated value is any n with            *)
(* n <= x <= n + 1, so that an exact integer x may have been rounded just  *)
(* below itself.  r_mul = 0.2, target = 0.90, adjustUp = 3, and adjustDown *)
(* = 0.5 are written as integer ratios.                                    *)
(*                                                                         *)
(* quiet is a history variable: no code reads it.                          *)
(***************************************************************************)
EXTENDS Integers

CONSTANTS
  FlowMem,              \* flowMemSize
  FirstThreshold,       \* first_t_threshold
  ResultSizes           \* numbers of results an analysis may collect

ASSUME ThresholdAssumption ==
  /\ FlowMem \in Nat \ {0}
  /\ FirstThreshold \in Nat
  /\ ResultSizes \subseteq Nat

VARIABLES
  t_threshold,          \* a flow above it is reported; also filter_threshold
  old_t_threshold,      \* its value in the last analysis
  r_threshold,          \* early removal threshold
  old_r_threshold,      \* the one checkCleanHashTable compares with
  noVarIntervals,       \* analyses since the last adjustment
  e1, e2, e3,           \* results of the last three analyses
  quiet                 \* analyses in a row that saw no pressure and left
                        \* the threshold alone, at most 3

tvars == <<t_threshold, old_t_threshold, r_threshold, old_r_threshold,
           noVarIntervals, e1, e2, e3, quiet>>

ThresholdTypeOK ==
  /\ t_threshold \in 0..FirstThreshold
  /\ old_t_threshold \in 0..FirstThreshold
  /\ r_threshold \in 0..FirstThreshold
  /\ old_r_threshold \in 0..FirstThreshold
  /\ noVarIntervals \in 0..3
  /\ e1 \in Nat /\ e2 \in Nat /\ e3 \in Nat
  /\ quiet \in 0..3

r_mul(threshold) == threshold \div 5

ThresholdInit ==
  /\ t_threshold = FirstThreshold
  /\ old_t_threshold = FirstThreshold
  /\ r_threshold = r_mul(FirstThreshold)
  /\ old_r_threshold = r_mul(FirstThreshold)
  /\ noVarIntervals = 0
  /\ e1 = FlowMem /\ e2 = FlowMem /\ e3 = FlowMem
  /\ quiet = 0

-----------------------------------------------------------------------------
(* entriesUsedAVG, and usage > target. *)
entriesUsedAVG(n1, n2, n3) == (n1 + n2 + n3) \div 3 + 1

(* Slip: a target of 9 instead of 0.9. *)
PressureMisplacedPoint(avg) == avg > 9 * FlowMem

Pressure(avg) == 10 * avg > 9 * FlowMem

Square(x) == x * x
Cube(x) == x * x * x

(* The two `if's that end both adjustments. *)
Bounded(x) ==
  LET y == IF x = 0 THEN 1 ELSE x
  IN  IF y > FirstThreshold THEN FirstThreshold ELSE y

(* Slip: the ratio upside down. *)
RaisedByInverse(t, avg) ==
  {n \in 0..FirstThreshold :
     LET num == t * 729 * Cube(FlowMem)
         den == 1000 * Cube(avg)
     IN  n * den <= num /\ (num <= (n + 1) * den \/ n = FirstThreshold)}

(* t * (usage / target)^adjustUp, truncated; Bounded makes FirstThreshold  *)
(* of every value above it, so FirstThreshold stands for all of those.     *)
Raised(t, avg) ==
  {n \in 0..FirstThreshold :
     LET num == t * 1000 * Cube(avg)
         den == 729 * Cube(FlowMem)
     IN  n * den <= num /\ (num <= (n + 1) * den \/ n = FirstThreshold)}

(* Slip: rounded up instead of down. *)
LoweredCeiling(t, avg) ==
  {n \in 0..FirstThreshold :
     LET num == 9 * avg * Square(t)
         den == 10 * FlowMem
     IN  Square(n - 1) * den < num /\ num <= Square(n) * den}

(* t * (usage * target)^adjustDown, truncated.                             *)
Lowered(t, avg) ==
  {n \in 0..FirstThreshold :
     LET num == 9 * avg * Square(t)
         den == 10 * FlowMem
     IN  Square(n) * den <= num /\ (num <= Square(n + 1) * den \/ n = FirstThreshold)}

(* usage > target: up, at once.  r_threshold keeps its value.              *)
AdjustUp(avg) ==
  /\ Pressure(avg)
  /\ \E x \in Raised(t_threshold, avg) : t_threshold' = Bounded(x)
  /\ noVarIntervals' = 0
  /\ UNCHANGED r_threshold

(* Slip: the waiting time forgotten. *)
AdjustDownAtOnce(avg) ==
  /\ ~ Pressure(avg)
  /\ \E x \in Lowered(t_threshold, avg) : t_threshold' = Bounded(x)
  /\ r_threshold' = r_mul(t_threshold')
  /\ noVarIntervals' = 0

(* Slip: the early removal threshold keeps its value here too. *)
AdjustDownStale(avg) ==
  /\ ~ Pressure(avg)
  /\ noVarIntervals >= 3
  /\ \E x \in Lowered(t_threshold, avg) : t_threshold' = Bounded(x)
  /\ noVarIntervals' = 0
  /\ UNCHANGED r_threshold

(* Down, after three analyses without an adjustment.                       *)
AdjustDown(avg) ==
  /\ ~ Pressure(avg)
  /\ noVarIntervals >= 3
  /\ \E x \in Lowered(t_threshold, avg) : t_threshold' = Bounded(x)
  /\ r_threshold' = r_mul(t_threshold')
  /\ noVarIntervals' = 0

(* Slip: nothing stops the counter. *)
WaitUnbounded(avg) ==
  /\ ~ Pressure(avg)
  /\ noVarIntervals' = noVarIntervals + 1
  /\ UNCHANGED <<t_threshold, r_threshold>>

Wait(avg) ==
  /\ ~ Pressure(avg)
  /\ noVarIntervals < 3
  /\ noVarIntervals' = noVarIntervals + 1
  /\ UNCHANGED <<t_threshold, r_threshold>>

update_thresholds(avg) ==
  /\ old_t_threshold' = t_threshold
  /\ old_r_threshold' = r_threshold
  /\ AdjustUp(avg) \/ AdjustDown(avg) \/ Wait(avg)

(* The analysis cleans with old_r_threshold, collects n results, shifts    *)
(* the statistics and adapts the thresholds.                               *)
Interval(n) ==
  LET avg == entriesUsedAVG(n, e1, e2)
  IN  /\ e1' = n /\ e2' = e1 /\ e3' = e2
      /\ update_thresholds(avg)
      /\ quiet' = IF Pressure(avg) \/ t_threshold' # t_threshold THEN 0
                  ELSE IF quiet < 3 THEN quiet + 1 ELSE quiet

ThresholdNext == \E n \in ResultSizes : Interval(n)

ThresholdSpec == ThresholdInit /\ [][ThresholdNext]_tvars

(* do_work starts an analysis every samplingInterval seconds for as long   *)
(* as it runs.                                                             *)
FairThresholdSpec == ThresholdSpec /\ WF_tvars(ThresholdNext)

-----------------------------------------------------------------------------
(* The table threshold stays between 1 and its first value: 0 would report *)
(* every flow, and a value above the first one none of those asked for.    *)
ThresholdBounds ==
  FirstThreshold > 0 => t_threshold \in 1..FirstThreshold

(* The early removal threshold, although it is not updated when the table  *)
(* threshold rises, is never more than its fraction of that threshold.     *)
EarlyRemovalBound == 5 * r_threshold <= t_threshold

(* So a flow that is granted early removal is below the table threshold,   *)
(* and a report has a threshold that means something.                      *)
ThresholdsInRange == ThresholdBounds /\ EarlyRemovalBound

(* update_thresholds, `else if (threshold did not increase for 3           *)
(* intervals)': the threshold falls only after three analyses in a row     *)
(* that saw no pressure and did not move it.                               *)
DecreasePaced ==
  [][t_threshold' < t_threshold => quiet >= 3]_tvars

(* An analysis whose usage is above the target never lowers the threshold, *)
(* in spite of the truncation and the cap.                                 *)
PressureNeverLowers ==
  [][Pressure(entriesUsedAVG(e1', e2', e3')) => t_threshold' >= t_threshold]_tvars

(* Analyses that collect nothing bring the threshold down to 1 ...         *)
AdaptsDown == <>[](e1 = 0) => []<>(t_threshold = 1)

(* ... and analyses that collect twice what the tables hold bring it back  *)
(* to its first value, from wherever it is.                                *)
AdaptsUp == <>[](e1 >= 2 * FlowMem) => []<>(t_threshold = FirstThreshold)

-----------------------------------------------------------------------------
(* The comment `threshold = threshold * (usage/target)^adjustdown': a      *)
(* decrease takes no more than that, the truncation aside.                 *)
DecreaseByRatio ==
  [][t_threshold' < t_threshold =>
       10 * entriesUsedAVG(e1', e2', e3') * Square(t_threshold)
          <= Square(t_threshold' + 1) * 9 * FlowMem]_tvars
=============================================================================
