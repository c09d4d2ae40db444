-------------------------- MODULE MultistageFilter --------------------------
(***************************************************************************)
(* The multistage filter of one worker (MultistageFilter.cpp), as          *)
(* operators on the value of its counters.                                 *)
(*                                                                         *)
(* A filter has NumStages stages of counters.  Stage i charges a flow to   *)
(* the bucket Hash[i][f]; the coefficients of the hash functions are drawn *)
(* at random when the filter is built and never change, so Hash is a       *)
(* constant here.  The counters of all stages are one function             *)
(* count \in [Stage -> [Bucket -> Nat]].  Every stage has its own          *)
(* threshold field in the code, but init and updateThreshold give all of   *)
(* them the same value, so one number stands for them.                     *)
(***************************************************************************)
EXTENDS DataStructures, Integers

CONSTANTS
  NumStages,            \* stagesNumber
  Bucket,               \* indices of a stage's countArray
  Hash,                 \* the hash function of each stage
  FilterOversampling    \* filter_oversampling_factor, 100 in the source

Stage == 1..NumStages

ASSUME FilterAssumption ==
  /\ NumStages \in Nat \ {0}
  /\ Hash \in [Stage -> [Flow -> Bucket]]
  /\ FilterOversampling \in Nat \ {0}

Counters == [Stage -> [Bucket -> Nat]]

-----------------------------------------------------------------------------
(* The counters right after construction, and after reset(). *)
ZeroCounters == [i \in Stage |-> [b \in Bucket |-> 0]]

(* The threshold StageContainer::init derives from the table threshold. *)
InitialThreshold(threshold) == threshold * FilterOversampling

(* What updateThreshold leaves in the threshold field, for both branches   *)
(* of its conditional expression.                                          *)
UpdatedThreshold(newThreshold) ==
  LET rth == newThreshold * FilterOversampling
  IN  IF rth = 0 THEN rth ELSE 1

(* Slip: the packet itself is left out. *)
checkCounter(count, threshold, i, f, octets) ==
  count[i][Hash[i][f]] > threshold

(* StageContainer::check: would this packet take the bucket of stage i     *)
(* over the threshold?                                                     *)
check(count, threshold, i, f, octets) ==
  count[i][Hash[i][f]] + octets > threshold

(* Slip: one stage is enough. *)
PassesAnyStage(count, threshold, f, octets) ==
  \E i \in Stage : check(count, threshold, i, f, octets)

(* The packet passes when every stage says so. *)
Passes(count, threshold, f, octets) ==
  \A i \in Stage : check(count, threshold, i, f, octets)

(* `pass && stages[i].check(..)' stops calling check after the first stage *)
(* that says no, so only the stages up to and including that one have      *)
(* written their counter to parVal.                                        *)
Visited(count, threshold, f, octets) ==
  {i \in Stage : \A j \in 1..(i-1) : check(count, threshold, j, f, octets)}

(* minVal when the loop of filter() ends: the least of the counters seen.  *)
minVal(count, threshold, f, octets) ==
  LET seen == {count[i][Hash[i][f]] : i \in Visited(count, threshold, f, octets)}
  IN  CHOOSE m \in seen : \A v \in seen : m <= v

(* Slip: every counter below the maximum jumps to it. *)
updateToMax(counter, threshold, octets, max) ==
  IF counter < threshold THEN max ELSE counter

(* StageContainer::conservativeUpdate on one counter: a counter below the  *)
(* threshold grows by the packet, but never ends above max.                *)
conservativeUpdate(counter, threshold, octets, max) ==
  IF counter < threshold
  THEN IF counter + octets > max THEN max ELSE counter + octets
  ELSE counter

(* Slip: the maximum taken below the minimum instead of above it. *)
ChargedBelowMin(count, threshold, f, octets) ==
  LET max == minVal(count, threshold, f, octets) - octets
  IN  [i \in Stage |->
         [count[i] EXCEPT ![Hash[i][f]] =
                              conservativeUpdate(@, threshold, octets, max)]]

(* The counters after MultistageFilter::filter has dropped the packet: the *)
(* flow's bucket of every stage is updated, all with the same maximum.     *)
Charged(count, threshold, f, octets) ==
  LET max == minVal(count, threshold, f, octets) + octets
  IN  [i \in Stage |->
         [count[i] EXCEPT ![Hash[i][f]] =
                              conservativeUpdate(@, threshold, octets, max)]]
=============================================================================
