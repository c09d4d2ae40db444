------------------------- MODULE FilterIntervalProofs -------------------------
(***************************************************************************)
(* What FilterInterval guarantees for every number of stages, every set of *)
(* flows, buckets and packet lengths, and every choice of hash functions.  *)
(***************************************************************************)
EXTENDS FilterInterval, MultistageFilterProofs

USE IntervalAssumption

(* The inductive invariant.  CountersBounded needs no more than the types: *)
(* its bound by the threshold tells LoneFlowExact that a flow whose        *)
(* counters reached it loses only empty packets, and PassJustified follows *)
(* from its bound by the octets charged.                                   *)
IInv == TypeOK /\ CountersBounded /\ LoneFlowExact

LEMMA InitInv == Init => IInv
<1> SUFFICES ASSUME Init PROVE IInv
  OBVIOUS
<1>1. \A i \in Stage : \A b \in Bucket : count[i][b] = 0 /\ charged[i][b] = 0
  BY DEF Init, ZeroCounters
<1>2. TypeOK
  BY FilterAssumption DEF Init, TypeOK, ZeroCounters, Counters, InitialThreshold
<1>3. CountersBounded
  BY <1>1, <1>2 DEF CountersBounded, TypeOK
<1>4. LoneFlowExact
  BY <1>1, FilterAssumption DEF Init, LoneFlowExact
<1>5. QED
  BY <1>2, <1>3, <1>4 DEF IInv

(* A drop keeps the types. *)
LEMMA DropTypes ==
  ASSUME TypeOK, NEW f \in Flow, NEW octets \in Octets, Drop(f, octets)
  PROVE  TypeOK'
<1>1. octets \in Nat
  OBVIOUS
<1>2. count' \in Counters
  BY <1>1, ChargedTyped DEF Drop, TypeOK
<1>3. charged' \in Counters
  <2>1. ASSUME NEW i \in Stage
        PROVE  [charged[i] EXCEPT ![Hash[i][f]] = charged[i][Hash[i][f]] + octets]
                  \in [Bucket -> Nat]
    <3>1. charged[i] \in [Bucket -> Nat] /\ Hash[i][f] \in Bucket
      BY FilterAssumption DEF TypeOK, Counters
    <3>2. QED
      BY <1>1, <3>1
  <2>2. charged' = [i \in Stage |->
           [charged[i] EXCEPT ![Hash[i][f]] = charged[i][Hash[i][f]] + octets]]
    BY DEF Drop
  <2>3. QED
    BY <2>1, <2>2 DEF Counters
<1>4. dropped' \in [Flow -> Nat]
  BY <1>1 DEF Drop, TypeOK
<1>5. QED
  BY <1>2, <1>3, <1>4 DEF Drop, TypeOK

(* What a drop does to the counters and to their history. *)
LEMMA DropSteps ==
  ASSUME TypeOK, NEW f \in Flow, NEW octets \in Octets, Drop(f, octets),
         NEW i \in Stage, NEW b \in Bucket, NEW max,
         max = minVal(count, threshold, f, octets) + octets
  PROVE  /\ max \in Nat
         /\ count[i][b] \in Nat /\ charged[i][b] \in Nat
         /\ count'[i][b] = IF b = Hash[i][f]
                           THEN conservativeUpdate(count[i][b], threshold, octets, max)
                           ELSE count[i][b]
         /\ charged'[i][b] = IF b = Hash[i][f]
                             THEN charged[i][b] + octets
                             ELSE charged[i][b]
<1>1. octets \in Nat /\ count \in Counters /\ threshold \in Nat
  BY DEF TypeOK
<1>2. charged[i] \in [Bucket -> Nat] /\ count[i] \in [Bucket -> Nat]
  BY DEF TypeOK, Counters
<1>3. charged'[i] = [charged[i] EXCEPT ![Hash[i][f]] = charged[i][Hash[i][f]] + octets]
  BY DEF Drop
<1>4. /\ max \in Nat
      /\ Charged(count, threshold, f, octets)[i][b] =
           IF b = Hash[i][f]
           THEN conservativeUpdate(count[i][b], threshold, octets, max)
           ELSE count[i][b]
  BY <1>1, ChargedAt
<1>5. count' = Charged(count, threshold, f, octets)
  BY DEF Drop
<1>6. QED
  BY <1>2, <1>3, <1>4, <1>5

LEMMA DropCounters ==
  ASSUME IInv, NEW f \in Flow, NEW octets \in Octets, Drop(f, octets)
  PROVE  CountersBounded'
<1> DEFINE max == minVal(count, threshold, f, octets) + octets
<1>1. octets \in Nat /\ TypeOK /\ threshold \in Nat /\ threshold' = threshold
  BY DEF IInv, TypeOK, Drop
<1>2. max <= threshold
  BY <1>1, DropMaxWithinThreshold DEF Drop, TypeOK
<1>3. ASSUME NEW i \in Stage, NEW b \in Bucket
      PROVE  count'[i][b] <= threshold' /\ count'[i][b] <= charged'[i][b]
  <2>1. /\ max \in Nat /\ count[i][b] \in Nat /\ charged[i][b] \in Nat
        /\ count'[i][b] = IF b = Hash[i][f]
                          THEN conservativeUpdate(count[i][b], threshold, octets, max)
                          ELSE count[i][b]
        /\ charged'[i][b] = IF b = Hash[i][f]
                            THEN charged[i][b] + octets
                            ELSE charged[i][b]
    BY <1>1, DropSteps
  <2>2. count[i][b] <= threshold /\ count[i][b] <= charged[i][b]
    BY DEF IInv, CountersBounded
  <2> HIDE DEF max
  <2>3. QED
    BY <1>1, <1>2, <2>1, <2>2 DEF conservativeUpdate
<1>4. QED
  BY <1>3 DEF CountersBounded

LEMMA DropLone ==
  ASSUME IInv, NEW f \in Flow, NEW octets \in Octets, Drop(f, octets)
  PROVE  LoneFlowExact'
<1> DEFINE max == minVal(count, threshold, f, octets) + octets
<1>1. /\ octets \in Nat /\ TypeOK /\ threshold \in Nat
      /\ count \in Counters /\ dropped \in [Flow -> Nat]
  BY DEF IInv, TypeOK
<1>2. SUFFICES ASSUME NEW g \in Flow, Alone(g), NEW i \in Stage
               PROVE  count'[i][Hash[i][g]] = dropped'[g]
  BY DEF LoneFlowExact, Alone
<1>3. \A j \in Stage : count[j][Hash[j][g]] = dropped[g]
  BY <1>2 DEF IInv, LoneFlowExact
<1>4. Hash[i][g] \in Bucket
  BY FilterAssumption
<1>5. /\ max \in Nat
      /\ count'[i][Hash[i][g]] =
           IF Hash[i][g] = Hash[i][f]
           THEN conservativeUpdate(count[i][Hash[i][g]], threshold, octets, max)
           ELSE count[i][Hash[i][g]]
  BY <1>1, <1>4, DropSteps
<1>6. CASE f # g
  <2>1. Hash[i][f] # Hash[i][g]
    BY <1>2, <1>6 DEF Alone
  <2>2. dropped'[g] = dropped[g]
    BY <1>1, <1>6 DEF Drop
  <2>3. QED
    BY <1>3, <1>5, <2>1, <2>2
<1>7. CASE f = g
  <2>1. dropped'[g] = dropped[g] + octets /\ dropped[g] \in Nat
    BY <1>1, <1>7 DEF Drop
  <2>2. count' = Charged(count, threshold, g, octets) /\ ~ Passes(count, threshold, g, octets)
    BY <1>7 DEF Drop
  <2>3. \A j \in Stage : Charged(count, threshold, g, octets)[j][Hash[j][g]] = dropped[g] + octets
    BY <1>1, <1>3, <2>1, <2>2, ChargedEvenly
  <2>4. QED
    BY <2>1, <2>2, <2>3
<1>8. QED
  BY <1>6, <1>7

(* A new interval starts from clean counters and a clean history. *)
LEMMA NewIntervalInv ==
  ASSUME IInv, NEW t \in TableThresholds, NEW kept \in SUBSET Flow, NewInterval(t, kept)
  PROVE  IInv'
<1>1. t \in Nat
  OBVIOUS
<1>2. \A i \in Stage : \A b \in Bucket : count'[i][b] = 0 /\ charged'[i][b] = 0
  BY DEF NewInterval, ZeroCounters
<1>3. TypeOK'
  BY <1>1, FilterAssumption
     DEF NewInterval, TypeOK, ZeroCounters, Counters, UpdatedThreshold
<1>4. CountersBounded'
  BY <1>2, <1>3 DEF CountersBounded, TypeOK
<1>5. LoneFlowExact'
  BY <1>2, FilterAssumption DEF NewInterval, LoneFlowExact, Alone
<1>6. QED
  BY <1>3, <1>4, <1>5 DEF IInv

LEMMA NextInv == IInv /\ [Next]_vars => IInv'
<1> SUFFICES ASSUME IInv, [Next]_vars PROVE IInv'
  OBVIOUS
<1>1. ASSUME NEW f \in Flow, NEW octets \in Octets, Forward(f, octets)
      PROVE  IInv'
  BY <1>1 DEF Forward, IInv, TypeOK, CountersBounded, LoneFlowExact, Alone
<1>2. ASSUME NEW f \in Flow, NEW octets \in Octets, Drop(f, octets)
      PROVE  IInv'
  BY <1>2, DropTypes, DropCounters, DropLone DEF IInv
<1>3. ASSUME NEW t \in TableThresholds, NEW kept \in SUBSET Flow, NewInterval(t, kept)
      PROVE  IInv'
  BY <1>3, NewIntervalInv
<1>4. CASE UNCHANGED vars
  BY <1>4 DEF vars, IInv, TypeOK, CountersBounded, LoneFlowExact, Alone
<1>5. QED
  BY <1>1, <1>2, <1>3, <1>4 DEF Next

THEOREM Invariance == Spec => []IInv
BY InitInv, NextInv, PTL DEF Spec

-----------------------------------------------------------------------------
(* The counters, thresholds and histories keep their types through every   *)
(* sequence of packets and analyses.                                       *)
THEOREM TypeCorrect == Spec => []TypeOK
BY Invariance, PTL DEF IInv

(* filter() counts a flow that collides with no other exactly, although    *)
(* its minimum skips stages and its updates are capped.                    *)
THEOREM LoneFlows == Spec => []LoneFlowExact
BY Invariance, PTL DEF IInv

(* conservativeUpdate never takes a counter past the threshold, nor past   *)
(* the octets hashed to its bucket since reset().                          *)
THEOREM Bounded == Spec => []CountersBounded
BY Invariance, PTL DEF IInv

(* filter() lets a flow through only when the octets dropped from its      *)
(* buckets since the last reset account for it in every stage.             *)
THEOREM Justified == Spec => PassJustified
<1> DEFINE Justification ==
      \A f \in Flow : f \in stored' \ stored =>
        \E octets \in Octets : \A i \in Stage :
           charged[i][Hash[i][f]] + octets > threshold
<1>1. IInv /\ [Next]_vars => [Justification]_vars
  <2> SUFFICES ASSUME IInv, Next PROVE Justification
    OBVIOUS
  <2>1. ASSUME NEW f \in Flow, NEW octets \in Octets, Forward(f, octets)
        PROVE  Justification
    <3>1. stored' \ stored \subseteq {f}
      BY <2>1 DEF Forward
    <3>2. ASSUME NEW i \in Stage
          PROVE  charged[i][Hash[i][f]] + octets > threshold
      <4>1. /\ Hash[i][f] \in Bucket
            /\ count[i] \in [Bucket -> Nat] /\ charged[i] \in [Bucket -> Nat]
            /\ threshold \in Nat
        BY FilterAssumption DEF IInv, TypeOK, Counters
      <4>2. count[i][Hash[i][f]] + octets > threshold
        BY <2>1 DEF Forward, Passes, check
      <4>3. count[i][Hash[i][f]] <= charged[i][Hash[i][f]]
        BY <4>1 DEF IInv, CountersBounded
      <4>4. QED
        BY <4>1, <4>2, <4>3
    <3>3. QED
      BY <3>1, <3>2
  <2>2. ASSUME NEW f \in Flow, NEW octets \in Octets, Drop(f, octets)
        PROVE  Justification
    BY <2>2 DEF Drop
  <2>3. ASSUME NEW t \in TableThresholds, NEW kept \in SUBSET Flow, NewInterval(t, kept)
        PROVE  Justification
    BY <2>3 DEF NewInterval
  <2>4. QED
    BY <2>1, <2>2, <2>3 DEF Next
<1>2. QED
  BY <1>1, Invariance, PTL DEF Spec, PassJustified
=============================================================================
