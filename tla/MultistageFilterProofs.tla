------------------------ MODULE MultistageFilterProofs ------------------------
(***************************************************************************)
(* Facts about the operators of MultistageFilter, for every number of      *)
(* stages, every set of buckets and every choice of hash functions.        *)
(***************************************************************************)
EXTENDS MultistageFilter, FiniteSetTheorems, WellFoundedInduction, TLAPS

(* Every non-empty set of naturals has a least element.  The initial       *)
(* segments 0..v of its members are finite sets, and strict inclusion is   *)
(* well-founded on finite sets.                                            *)
LEMMA LeastExists ==
  ASSUME NEW S \in SUBSET Nat, S # {}
  PROVE  \E m \in S : \A v \in S : m <= v
<1> DEFINE Segments == {0..v : v \in S}
           Below == StrictSubsetOrdering(Nat)
<1>1. IsWellFoundedOn(Below, FiniteSubsetsOf(Nat))
  BY FS_StrictSubsetOrderingWellFounded
<1>2. Segments \subseteq FiniteSubsetsOf(Nat)
  <2>1. ASSUME NEW v \in S
        PROVE  0..v \in FiniteSubsetsOf(Nat)
    <3>1. 0..v \in SUBSET Nat
      OBVIOUS
    <3>2. IsFiniteSet(0..v)
      BY FS_Interval
    <3>3. QED
      BY <3>1, <3>2 DEF FiniteSubsetsOf
  <2>2. QED
    BY <2>1
<1>3. Segments # {}
  OBVIOUS
<1>4. \E T \in Segments : \A U \in Segments : ~ (<<U, T>> \in Below)
  <2> HIDE DEF Segments, Below
  <2>1. QED
    BY <1>1, <1>2, <1>3, WFMin
<1>5. PICK m \in S : \A U \in Segments : ~ (<<U, 0..m>> \in Below)
  BY <1>4
<1>6. ASSUME NEW v \in S
      PROVE  m <= v
  <2>1. SUFFICES ASSUME v < m
                 PROVE  FALSE
    OBVIOUS
  <2>2. 0..v \subseteq 0..m /\ m \in 0..m /\ m \notin 0..v
    BY <2>1
  <2>3. <<0..v, 0..m>> \in Below
    BY <2>2 DEF StrictSubsetOrdering
  <2>4. QED
    BY <2>3, <1>5
<1>7. QED
  BY <1>6

-----------------------------------------------------------------------------
(* filter() looks at the first stage whatever the counters are. *)
LEMMA FirstStageVisited ==
  ASSUME NEW count, NEW threshold, NEW f, NEW octets
  PROVE  1 \in Visited(count, threshold, f, octets)
BY FilterAssumption DEF Visited, Stage

(* minVal is one of the counters filter() looked at, and none of those is  *)
(* smaller.                                                                *)
LEMMA MinValLeast ==
  ASSUME NEW count \in Counters, NEW threshold, NEW f \in Flow, NEW octets
  PROVE  LET m == minVal(count, threshold, f, octets)
             V == Visited(count, threshold, f, octets)
         IN  /\ m \in Nat
             /\ \E i \in V : m = count[i][Hash[i][f]]
             /\ \A i \in V : m <= count[i][Hash[i][f]]
<1> DEFINE V == Visited(count, threshold, f, octets)
           seen == {count[i][Hash[i][f]] : i \in V}
<1>1. V \subseteq Stage
  BY DEF Visited
<1>2. seen \in SUBSET Nat
  BY <1>1, FilterAssumption DEF Counters
<1>3. seen # {}
  BY FirstStageVisited
<1>4. \E m \in seen : \A v \in seen : m <= v
  <2> HIDE DEF seen
  <2>1. QED
    BY <1>2, <1>3, LeastExists
<1>5. minVal(count, threshold, f, octets) = CHOOSE m \in seen : \A v \in seen : m <= v
  BY DEF minVal
<1>6. /\ minVal(count, threshold, f, octets) \in seen
      /\ \A v \in seen : minVal(count, threshold, f, octets) <= v
  <2> HIDE DEF seen
  <2>1. QED
    BY <1>4, <1>5
<1>7. QED
  BY <1>2, <1>6

(* A dropped packet finds room under the threshold in a stage that         *)
(* filter() looked at: the stage that failed first.                        *)
LEMMA DropStageVisited ==
  ASSUME NEW count \in Counters, NEW threshold \in Nat,
         NEW f \in Flow, NEW octets \in Nat,
         ~ Passes(count, threshold, f, octets)
  PROVE  \E k \in Visited(count, threshold, f, octets) :
            count[k][Hash[k][f]] + octets <= threshold
<1> DEFINE failing == {i \in Stage : ~ check(count, threshold, i, f, octets)}
<1>1. failing \in SUBSET Nat /\ failing # {}
  BY FilterAssumption DEF Passes, Stage
<1>2. PICK k \in failing : \A v \in failing : k <= v
  <2> HIDE DEF failing
  <2>1. QED
    BY <1>1, LeastExists
<1>3. k \in Stage /\ ~ check(count, threshold, k, f, octets)
  OBVIOUS
<1>4. ASSUME NEW j \in 1..(k-1)
      PROVE  check(count, threshold, j, f, octets)
  <2>1. j \in Stage /\ j < k
    BY <1>3, FilterAssumption DEF Stage
  <2>2. j \notin failing
    <3>1. SUFFICES ASSUME j \in failing PROVE FALSE
      OBVIOUS
    <3>2. k <= j
      BY <3>1, <1>2
    <3>3. QED
      BY <3>2, <2>1, <1>3, FilterAssumption DEF Stage
  <2>3. QED
    BY <2>1, <2>2
<1>5. k \in Visited(count, threshold, f, octets)
  BY <1>3, <1>4 DEF Visited
<1>6. Hash[k][f] \in Bucket /\ count[k][Hash[k][f]] \in Nat
  BY <1>3, FilterAssumption DEF Counters
<1>7. QED
  BY <1>3, <1>5, <1>6 DEF check

(* The maximum a drop raises counters to is itself within the threshold.   *)
LEMMA DropMaxWithinThreshold ==
  ASSUME NEW count \in Counters, NEW threshold \in Nat,
         NEW f \in Flow, NEW octets \in Nat,
         ~ Passes(count, threshold, f, octets)
  PROVE  minVal(count, threshold, f, octets) + octets <= threshold
<1>1. PICK k \in Visited(count, threshold, f, octets) :
         count[k][Hash[k][f]] + octets <= threshold
  BY DropStageVisited
<1>2. k \in Stage
  BY DEF Visited
<1>3. count[k][Hash[k][f]] \in Nat
  BY <1>2, FilterAssumption DEF Counters
<1>4. /\ minVal(count, threshold, f, octets) \in Nat
      /\ minVal(count, threshold, f, octets) <= count[k][Hash[k][f]]
  BY MinValLeast
<1>5. QED
  BY <1>1, <1>3, <1>4

(* conservativeUpdate returns a counter; it never adds more than the       *)
(* packet, and leaves a counter within the threshold if max is.            *)
LEMMA ConservativeUpdateBounds ==
  ASSUME NEW counter \in Nat, NEW threshold \in Nat,
         NEW octets \in Nat, NEW max \in Nat
  PROVE  LET c == conservativeUpdate(counter, threshold, octets, max)
         IN  /\ c \in Nat
             /\ c <= counter + octets
             /\ counter <= threshold /\ max <= threshold => c <= threshold
BY DEF conservativeUpdate

(* What a drop does to each counter.                                       *)
LEMMA ChargedAt ==
  ASSUME NEW count \in Counters, NEW threshold \in Nat,
         NEW f \in Flow, NEW octets \in Nat, NEW max,
         max = minVal(count, threshold, f, octets) + octets,
         NEW i \in Stage, NEW b \in Bucket
  PROVE  /\ max \in Nat
         /\ count[i][b] \in Nat
         /\ b = Hash[i][f] =>
              Charged(count, threshold, f, octets)[i][b] =
                conservativeUpdate(count[i][b], threshold, octets, max)
         /\ b # Hash[i][f] => Charged(count, threshold, f, octets)[i][b] = count[i][b]
<1> DEFINE new == Charged(count, threshold, f, octets)[i]
           updated == conservativeUpdate(count[i][Hash[i][f]], threshold, octets, max)
<1>1. max \in Nat
  BY MinValLeast
<1>2. new = [count[i] EXCEPT ![Hash[i][f]] = updated]
  BY DEF Charged
<1>3. count[i] \in [Bucket -> Nat]
  BY DEF Counters
<1> HIDE DEF new, updated
<1>4. b = Hash[i][f] => new[b] = updated
  BY <1>2, <1>3
<1>5. b # Hash[i][f] => new[b] = count[i][b]
  BY <1>2, <1>3
<1>6. QED
  BY <1>1, <1>3, <1>4, <1>5 DEF new, updated

(* It leaves the other buckets alone. *)
LEMMA ChargedElsewhere ==
  ASSUME NEW count \in Counters, NEW threshold, NEW f, NEW octets,
         NEW i \in Stage, NEW b \in Bucket, b # Hash[i][f]
  PROVE  Charged(count, threshold, f, octets)[i][b] = count[i][b]
<1> DEFINE updated == conservativeUpdate(count[i][Hash[i][f]], threshold, octets,
                                         minVal(count, threshold, f, octets) + octets)
<1>1. Charged(count, threshold, f, octets)[i] = [count[i] EXCEPT ![Hash[i][f]] = updated]
  BY DEF Charged
<1>2. count[i] \in [Bucket -> Nat]
  BY DEF Counters
<1> HIDE DEF updated
<1>3. QED
  BY <1>1, <1>2

LEMMA ChargedTyped ==
  ASSUME NEW count \in Counters, NEW threshold \in Nat, NEW f \in Flow, NEW octets \in Nat
  PROVE  Charged(count, threshold, f, octets) \in Counters
<1> DEFINE new == Charged(count, threshold, f, octets)
<1>1. new = [i \in Stage |-> new[i]]
  BY DEF Charged
<1>2. ASSUME NEW i \in Stage
      PROVE  new[i] \in [Bucket -> Nat]
  <2> DEFINE max == minVal(count, threshold, f, octets) + octets
             updated == conservativeUpdate(count[i][Hash[i][f]], threshold, octets, max)
  <2>1. new[i] = [count[i] EXCEPT ![Hash[i][f]] = updated]
    BY DEF Charged
  <2>2. count[i] \in [Bucket -> Nat] /\ Hash[i][f] \in Bucket
    BY FilterAssumption DEF Counters
  <2>3. count[i][Hash[i][f]] \in Nat /\ max \in Nat
    BY <2>2, MinValLeast
  <2> HIDE DEF max
  <2>4. updated \in Nat
    BY <2>3, ConservativeUpdateBounds
  <2> HIDE DEF new, updated
  <2>5. QED
    BY <2>1, <2>2, <2>4
<1> HIDE DEF new
<1>3. QED
  BY <1>1, <1>2 DEF Counters, new

(* Counters within the threshold stay there. *)
LEMMA ChargedWithin ==
  ASSUME NEW count \in Counters, NEW threshold \in Nat,
         NEW f \in Flow, NEW octets \in Nat,
         ~ Passes(count, threshold, f, octets),
         \A i \in Stage : \A b \in Bucket : count[i][b] <= threshold
  PROVE  \A i \in Stage : \A b \in Bucket :
            Charged(count, threshold, f, octets)[i][b] <= threshold
<1>1. SUFFICES ASSUME NEW max, max = minVal(count, threshold, f, octets) + octets,
                      NEW i \in Stage, NEW b \in Bucket
               PROVE  Charged(count, threshold, f, octets)[i][b] <= threshold
  OBVIOUS
<1>2. max <= threshold
  BY <1>1, DropMaxWithinThreshold
<1>3. /\ max \in Nat
      /\ count[i][b] \in Nat
      /\ b = Hash[i][f] =>
           Charged(count, threshold, f, octets)[i][b] =
             conservativeUpdate(count[i][b], threshold, octets, max)
      /\ b # Hash[i][f] => Charged(count, threshold, f, octets)[i][b] = count[i][b]
  BY <1>1, ChargedAt
<1>4. count[i][b] <= threshold
  OBVIOUS
<1>5. conservativeUpdate(count[i][b], threshold, octets, max) <= threshold
  BY <1>2, <1>3, <1>4 DEF conservativeUpdate
<1>6. QED
  BY <1>3, <1>4, <1>5

(* A flow whose counters are the same in every stage is charged in full. *)
LEMMA ChargedEvenly ==
  ASSUME NEW count \in Counters, NEW threshold \in Nat,
         NEW f \in Flow, NEW octets \in Nat, NEW d \in Nat,
         ~ Passes(count, threshold, f, octets),
         \A i \in Stage : count[i][Hash[i][f]] = d
  PROVE  \A i \in Stage : Charged(count, threshold, f, octets)[i][Hash[i][f]] = d + octets
<1>1. minVal(count, threshold, f, octets) = d
  <2>1. PICK j \in Visited(count, threshold, f, octets) :
           minVal(count, threshold, f, octets) = count[j][Hash[j][f]]
    BY MinValLeast
  <2>2. j \in Stage
    BY DEF Visited
  <2>3. QED
    BY <2>1, <2>2
<1>2. d + octets <= threshold
  BY <1>1, DropMaxWithinThreshold
<1>3. SUFFICES ASSUME NEW max, max = minVal(count, threshold, f, octets) + octets,
                      NEW i \in Stage
               PROVE  Charged(count, threshold, f, octets)[i][Hash[i][f]] = d + octets
  OBVIOUS
<1>4. Hash[i][f] \in Bucket
  BY FilterAssumption
<1>5. Charged(count, threshold, f, octets)[i][Hash[i][f]] =
        conservativeUpdate(count[i][Hash[i][f]], threshold, octets, max)
  BY <1>3, <1>4, ChargedAt
<1>6. max = d + octets /\ count[i][Hash[i][f]] = d
  BY <1>1, <1>3
<1>7. QED
  BY <1>2, <1>5, <1>6 DEF conservativeUpdate
=============================================================================
