--------------------------- MODULE FilterInterval ---------------------------
(***************************************************************************)
(* One worker's multistage filter over its life: the packets Worker::svc   *)
(* offers it, the flows it lets through, and the new threshold and the     *)
(* cleared counters it gets from the analyzer at the end of an interval.   *)
(*                                                                         *)
(* A flow that passed is stored in the worker's hash table and shields the *)
(* filter from the flow's later packets until an analysis deletes the      *)
(* entry.  Which entries survive an analysis is decided elsewhere (see     *)
(* CaptureFarm); here any subset of the stored flows may.                  *)
(*                                                                         *)
(* charged and dropped are history variables: no code reads them.          *)
(***************************************************************************)
EXTENDS MultistageFilter

CONSTANTS
  Octets,               \* lengths of packets (dOctets)
  TableThresholds,      \* table thresholds the analyzer may hand over
  FirstThreshold,       \* threshold the worker is constructed with
  MaxDropped            \* bound: octets one flow may lose in an interval

ASSUME IntervalAssumption ==
  /\ Octets \subseteq Nat
  /\ TableThresholds \subseteq Nat
  /\ FirstThreshold \in Nat
  /\ MaxDropped \in Nat

VARIABLES
  count,                \* countArray of every stage
  threshold,            \* the stages' threshold
  stored,               \* flows in the worker's hash table
  charged,              \* octets dropped since the last reset, by bucket
  dropped               \* octets dropped since the last reset, by flow

vars == <<count, threshold, stored, charged, dropped>>

TypeOK ==
  /\ count \in Counters
  /\ threshold \in Nat
  /\ stored \subseteq Flow
  /\ charged \in Counters
  /\ dropped \in [Flow -> Nat]

Init ==
  /\ count = ZeroCounters
  /\ threshold = InitialThreshold(FirstThreshold)
  /\ stored = {}
  /\ charged = ZeroCounters
  /\ dropped = [f \in Flow |-> 0]

-----------------------------------------------------------------------------
(* filter() lets the packet through: the filter itself is not touched and  *)
(* the worker stores the flow.                                             *)
Forward(f, octets) ==
  /\ f \notin stored
  /\ Passes(count, threshold, f, octets)
  /\ stored' = stored \cup {f}
  /\ UNCHANGED <<count, threshold, charged, dropped>>

(* filter() drops the packet and charges its octets.                       *)
Drop(f, octets) ==
  /\ f \notin stored
  /\ ~ Passes(count, threshold, f, octets)
  /\ dropped[f] + octets <= MaxDropped
  /\ count' = Charged(count, threshold, f, octets)
  /\ charged' = [i \in Stage |-> [charged[i] EXCEPT ![Hash[i][f]] = @ + octets]]
  /\ dropped' = [dropped EXCEPT ![f] = @ + octets]
  /\ UNCHANGED <<threshold, stored>>

(* Slip: clean_filter() forgotten. *)
NewIntervalUncleaned(newThreshold, kept) ==
  /\ kept \subseteq stored
  /\ stored' = kept
  /\ threshold' = UpdatedThreshold(newThreshold)
  /\ charged' = ZeroCounters
  /\ dropped' = [f \in Flow |-> 0]
  /\ UNCHANGED count

(* What the analyzer does to a locked worker: it deletes entries of the    *)
(* table, then update_filter_threshold and clean_filter.                   *)
NewInterval(newThreshold, kept) ==
  /\ kept \subseteq stored
  /\ stored' = kept
  /\ threshold' = UpdatedThreshold(newThreshold)
  /\ count' = ZeroCounters
  /\ charged' = ZeroCounters
  /\ dropped' = [f \in Flow |-> 0]

Next ==
  \/ \E f \in Flow, octets \in Octets : Forward(f, octets) \/ Drop(f, octets)
  \/ \E t \in TableThresholds, kept \in SUBSET Flow : NewInterval(t, kept)

Spec == Init /\ [][Next]_vars

-----------------------------------------------------------------------------
(* Whatever the order of packets and resets, no counter exceeds the        *)
(* filter's threshold, nor the octets charged to its bucket since the last *)
(* reset.  The first settles the TODO `evaluate the overflow time' on      *)
(* StageContainer::conservativeUpdate: the addition to an unsigned long    *)
(* counter never comes near its limit.                                     *)
CountersBounded ==
  \A i \in Stage : \A b \in Bucket : count[i][b] <= threshold /\ count[i][b] <= charged[i][b]

(* A flow that shares no bucket with another flow. *)
Alone(f) ==
  \A g \in Flow \ {f} : \A i \in Stage : Hash[i][g] # Hash[i][f]

(* A flow that collides with no other is counted exactly, in every stage,  *)
(* in spite of the short-circuited minimum and of the capped updates: it   *)
(* passes with the first packet that takes it over the threshold.          *)
LoneFlowExact ==
  \A f \in Flow : Alone(f) => \A i \in Stage : count[i][Hash[i][f]] = dropped[f]

(* A flow is let through only if, in every stage, the octets dropped from  *)
(* its bucket since the last reset and the packet's own exceed the         *)
(* threshold: the conservative update never charges a bucket for more than *)
(* what was hashed to it, and a reset forgets the last interval entirely.  *)
PassJustified ==
  [][\A f \in Flow : f \in stored' \ stored =>
       \E octets \in Octets : \A i \in Stage :
          charged[i][Hash[i][f]] + octets > threshold]_vars

-----------------------------------------------------------------------------
(* The comment in filter(), `parVal (min + size) is the maximum value for  *)
(* the increment of counters', with min the minimum of every counter as    *)
(* the comment on the loop says: a counter the drop raises does not end    *)
(* above the least of the flow's counters plus the packet.                 *)
RaisedToMinPlusSize ==
  [][\A f \in Flow : dropped'[f] > dropped[f] =>
       \A i, j \in Stage : count'[i][Hash[i][f]] > count[i][Hash[i][f]] =>
          count'[i][Hash[i][f]] <= count[j][Hash[j][f]] + (dropped'[f] - dropped[f])]_vars

(* The comment in the Analyzer's constructor, `filters threshold differs   *)
(* from the table threshold by an oversampling factor set directly by      *)
(* filter': it says so of every threshold the filter is given, those of    *)
(* updateThreshold included.                                               *)
ThresholdOversampled ==
  \E t \in TableThresholds \cup {FirstThreshold} : threshold = t * FilterOversampling
=============================================================================
