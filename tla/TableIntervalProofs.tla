------------------------ MODULE TableIntervalProofs ------------------------
(***************************************************************************)
(* What a worker's table holds and what an analysis reports of it, for     *)
(* every set of flows, width of dOctets, packet lengths and thresholds.    *)
(***************************************************************************)
EXTENDS TableInterval, FlowTableProofs, TLAPS

(* The histories say nothing of a flow that is not stored. *)
Unstored == \A f \in Flow : ~ lookupFlow(table, f) => sent[f] = 0 /\ pkts[f] = 0

(* The inductive invariant: entries are exact and, where they are old, of  *)
(* flows that the last analysis reported.                                  *)
IInv == TypeOK /\ CountsExact /\ SecondChanceOnce /\ Unstored

(* An entry that is there is a descriptor. *)
LEMMA StoredTyped ==
  ASSUME TypeOK, NEW f \in Flow, lookupFlow(table, f)
  PROVE  table[f] \in Descriptor
BY DEF TypeOK, Tables, lookupFlow

-----------------------------------------------------------------------------
LEMMA InitInv == Init => IInv
BY DEF Init, IInv, TypeOK, CountsExact, SecondChanceOnce, Unstored, EmptyTable, Tables,
       lookupFlow, NothingSent

LEMMA ShieldInv ==
  ASSUME IInv, NEW f \in Flow, NEW octets \in Octets, Shield(f, octets)
  PROVE  IInv'
<1> DEFINE d == [dOctets |-> (table[f].dOctets + octets) % OctetMod,
                 dPkts   |-> table[f].dPkts + 1,
                 cycles  |-> table[f].cycles]
<1>1. octets \in Nat
  BY TableIntervalAssumption, TableAssumption
<1>2. table[f] \in Descriptor /\ sent[f] \in Nat /\ pkts[f] \in Nat
  BY StoredTyped DEF IInv, TypeOK, Shield
<1>3. table[f].dOctets = sent[f] % OctetMod /\ table[f].dPkts = pkts[f]
  BY DEF IInv, CountsExact, Shield
<1>4. /\ d \in Descriptor
      /\ d.dOctets = (sent[f] + octets) % OctetMod
      /\ d.dPkts = pkts[f] + 1
      /\ d.cycles = table[f].cycles
  BY <1>1, <1>2, <1>3, WrapOnce DEF Descriptor
<1>5. table' = [table EXCEPT ![f] = d]
  BY DEF Shield, updateTable
<1>6. /\ sent' = [sent EXCEPT ![f] = @ + octets]
      /\ pkts' = [pkts EXCEPT ![f] = @ + 1]
      /\ results' = results
  BY DEF Shield, Count
<1> HIDE DEF d
<1>7. d # Absent
  BY <1>4, TableAssumption
<1>8. TypeOK'
  BY <1>1, <1>2, <1>4, <1>5, <1>6 DEF IInv, TypeOK, Tables
<1>9. \A g \in Flow : lookupFlow(table', g) <=> lookupFlow(table, g)
  BY <1>5, <1>7 DEF IInv, TypeOK, Tables, lookupFlow, Shield
<1>10. CountsExact'
  BY <1>4, <1>5, <1>6, <1>9 DEF IInv, TypeOK, Tables, CountsExact
<1>11. SecondChanceOnce'
  BY <1>4, <1>5, <1>6, <1>9 DEF IInv, TypeOK, Tables, SecondChanceOnce
<1>12. Unstored'
  BY <1>6, <1>9 DEF IInv, TypeOK, Unstored, Shield
<1>13. QED
  BY <1>8, <1>10, <1>11, <1>12 DEF IInv

LEMMA StoreInv ==
  ASSUME IInv, NEW f \in Flow, NEW octets \in Octets, Store(f, octets)
  PROVE  IInv'
<1> DEFINE d == [dOctets |-> octets, dPkts |-> 1, cycles |-> 0]
<1>1. octets \in 0..(OctetMod - 1)
  BY TableIntervalAssumption
<1>2. ~ lookupFlow(table, f) /\ sent[f] = 0 /\ pkts[f] = 0
  BY DEF IInv, Unstored, Store
<1>3. octets % OctetMod = octets /\ octets \in Nat
  <2>1. octets \in Nat /\ octets < OctetMod
    BY <1>1, TableAssumption
  <2>2. QED
    BY <2>1, WrapOnce
<1>4. d \in Descriptor /\ d.dOctets = octets /\ d.dPkts = 1 /\ d.cycles = 0
  BY <1>1 DEF Descriptor
<1>5. table' = [table EXCEPT ![f] = d]
  BY <1>2 DEF Store, insertFlow
<1>6. /\ sent' = [sent EXCEPT ![f] = @ + octets]
      /\ pkts' = [pkts EXCEPT ![f] = @ + 1]
      /\ results' = results
  BY DEF Store, Count
<1> HIDE DEF d
<1>7. d # Absent
  BY <1>4, TableAssumption
<1>8. TypeOK'
  BY <1>1, <1>4, <1>5, <1>6 DEF IInv, TypeOK, Tables
<1>9. \A g \in Flow : lookupFlow(table', g) <=> g = f \/ lookupFlow(table, g)
  BY <1>5, <1>7 DEF IInv, TypeOK, Tables, lookupFlow
<1>10. CountsExact'
  <2> SUFFICES ASSUME NEW g \in Flow, lookupFlow(table', g)
               PROVE  table'[g].dOctets = sent'[g] % OctetMod /\ table'[g].dPkts = pkts'[g]
    BY DEF CountsExact
  <2>1. CASE g = f
    <3>1. table'[f] = d /\ sent'[f] = octets /\ pkts'[f] = 1
      BY <1>2, <1>3, <1>5, <1>6 DEF IInv, TypeOK, Tables
    <3>2. QED
      BY <2>1, <3>1, <1>3, <1>4
  <2>2. CASE g # f
    <3>1. table'[g] = table[g] /\ sent'[g] = sent[g] /\ pkts'[g] = pkts[g] /\ lookupFlow(table, g)
      BY <2>2, <1>5, <1>6, <1>9 DEF IInv, TypeOK, Tables
    <3>2. QED
      BY <3>1 DEF IInv, CountsExact
  <2>3. QED
    BY <2>1, <2>2
<1>11. SecondChanceOnce'
  BY <1>4, <1>5, <1>6, <1>9 DEF IInv, TypeOK, Tables, SecondChanceOnce
<1>12. Unstored'
  BY <1>6, <1>9 DEF IInv, TypeOK, Unstored
<1>13. QED
  BY <1>8, <1>10, <1>11, <1>12 DEF IInv

(* The entries an analysis leaves, and what it knows of them. *)
LEMMA AnalysisEntries ==
  ASSUME IInv, NEW r \in Nat, NEW t \in Nat, Analysis(r, t), NEW f \in Flow
  PROVE  /\ lookupFlow(table', f) <=> f \in Survivors(table, r, t)
         /\ f \in Survivors(table, r, t) =>
              /\ lookupFlow(table, f) /\ table[f] \in Descriptor
              /\ table[f].dOctets > 0
              /\ table'[f] = [dOctets |-> 0, dPkts |-> table[f].dPkts,
                              cycles |-> table[f].cycles + 1]
              /\ table'[f] \in Descriptor
              /\ table[f].cycles # 0 => f \in Heavy(table, r, t)
         /\ f \notin Survivors(table, r, t) => table'[f] = Absent
<1> DEFINE d == [dOctets |-> 0, dPkts |-> table[f].dPkts, cycles |-> table[f].cycles + 1]
<1>1. table' = Cleaned(table, r, t)
  BY DEF Analysis
<1>2. /\ f \in Survivors(table, r, t) => table'[f] = d
      /\ f \notin Survivors(table, r, t) => table'[f] = Absent
  BY <1>1 DEF Cleaned
<1>3. f \in Survivors(table, r, t) => lookupFlow(table, f) /\ table[f] \in Descriptor
  BY StoredTyped DEF IInv, Survivors, Heavy
<1>4. f \in Survivors(table, r, t) => d \in Descriptor
  BY <1>3, TableAssumption DEF Descriptor
<1>5. f \in Survivors(table, r, t) => table[f].dOctets > 0
  BY <1>3 DEF Survivors, Heavy, EarlyKept, Descriptor
<1>6. f \in Survivors(table, r, t) /\ table[f].cycles # 0 => f \in Heavy(table, r, t)
  BY DEF Survivors, EarlyKept
<1> HIDE DEF d
<1>7. lookupFlow(table', f) <=> f \in Survivors(table, r, t)
  BY <1>2, <1>4, TableAssumption DEF lookupFlow
<1>8. QED
  BY <1>2, <1>3, <1>4, <1>5, <1>6, <1>7 DEF d

LEMMA AnalysisInv ==
  ASSUME IInv, NEW r \in Nat, NEW t \in Nat, Analysis(r, t)
  PROVE  IInv'
<1>1. /\ table' = Cleaned(table, r, t) /\ results' = Collected(table, r, t)
      /\ sent' = NothingSent /\ pkts' = OfEntries(pkts)
  BY DEF Analysis
<1>2. results' \subseteq [fid : Flow, fd : Descriptor]
  BY <1>1, StoredTyped DEF IInv, Collected, Heavy
<1>3. table' \in Tables
  BY <1>1, AnalysisEntries DEF Cleaned, Tables
<1>4. sent' \in [Flow -> Nat] /\ pkts' \in [Flow -> Nat]
  BY <1>1 DEF IInv, TypeOK, NothingSent, OfEntries
<1>5. TypeOK'
  BY <1>2, <1>3, <1>4 DEF TypeOK
<1>6. CountsExact'
  <2> SUFFICES ASSUME NEW f \in Flow, lookupFlow(table', f)
               PROVE  table'[f].dOctets = sent'[f] % OctetMod /\ table'[f].dPkts = pkts'[f]
    BY DEF CountsExact
  <2>1. /\ table'[f] = [dOctets |-> 0, dPkts |-> table[f].dPkts, cycles |-> table[f].cycles + 1]
        /\ lookupFlow(table, f)
    BY AnalysisEntries
  <2>2. sent'[f] = 0 /\ pkts'[f] = pkts[f]
    BY <1>1 DEF NothingSent, OfEntries
  <2>3. 0 % OctetMod = 0
    BY TableAssumption
  <2>4. QED
    BY <2>1, <2>2, <2>3 DEF IInv, CountsExact
<1>7. SecondChanceOnce'
  <2> SUFFICES ASSUME NEW f \in Flow, lookupFlow(table', f), table'[f].cycles >= 2
               PROVE  \E res \in results' : res.fid = f
    BY DEF SecondChanceOnce
  <2>1. /\ table'[f] = [dOctets |-> 0, dPkts |-> table[f].dPkts, cycles |-> table[f].cycles + 1]
        /\ table[f] \in Descriptor
    BY AnalysisEntries
  <2>2. table[f].cycles # 0
    BY <2>1 DEF Descriptor
  <2>3. f \in Heavy(table, r, t)
    BY <2>2, AnalysisEntries
  <2>4. [fid |-> f, fd |-> table[f]] \in results'
    BY <1>1, <2>3 DEF Collected
  <2>5. QED
    BY <2>4
<1>8. Unstored'
  BY <1>1 DEF Unstored, NothingSent, OfEntries
<1>9. QED
  BY <1>5, <1>6, <1>7, <1>8 DEF IInv

LEMMA Inductive ==
  ASSUME IInv, [Next]_vars
  PROVE  IInv'
<1>1. ASSUME NEW f \in Flow, NEW octets \in Octets, Shield(f, octets) \/ Store(f, octets)
      PROVE  IInv'
  BY <1>1, ShieldInv, StoreInv
<1>2. ASSUME NEW r \in RThresholds, NEW t \in TThresholds, Analysis(r, t)
      PROVE  IInv'
  BY <1>2, AnalysisInv, TableIntervalAssumption
<1>3. CASE UNCHANGED vars
  BY <1>3 DEF IInv, TypeOK, CountsExact, SecondChanceOnce, Unstored, lookupFlow, vars
<1>4. QED
  BY <1>1, <1>2, <1>3 DEF Next

THEOREM Invariance == Spec => []IInv
BY InitInv, Inductive, PTL DEF Spec

-----------------------------------------------------------------------------
(* Tables, results and histories are what their names say. *)
THEOREM TypeCorrect == Spec => []TypeOK
<1>1. IInv => TypeOK
  BY DEF IInv
<1>2. QED
  BY <1>1, Invariance, PTL

(* The octets of an entry are those of the interval, modulo the width of   *)
(* the counter, and its packets all since it was made, after any number of *)
(* analyses with any thresholds.                                           *)
THEOREM EntriesExact == Spec => []CountsExact
<1>1. IInv => CountsExact
  BY DEF IInv
<1>2. QED
  BY <1>1, Invariance, PTL

(* Early removal spares an entry once: whatever outlived two analyses was  *)
(* reported by the last.                                                   *)
THEOREM OneSecondChance == Spec => []SecondChanceOnce
<1>1. IInv => SecondChanceOnce
  BY DEF IInv
<1>2. QED
  BY <1>1, Invariance, PTL

(* No analysis keeps a flow that was silent since the last one. *)
THEOREM IdleGo == Spec => IdleRemoved
<1> DEFINE A == \A r \in RThresholds, t \in TThresholds : Analysis(r, t) =>
                  \A f \in Flow : lookupFlow(table', f) => sent[f] > 0
<1>1. IInv => A
  <2> SUFFICES ASSUME IInv, NEW r \in RThresholds, NEW t \in TThresholds, Analysis(r, t),
                      NEW f \in Flow, lookupFlow(table', f)
               PROVE  sent[f] > 0
    OBVIOUS
  <2>1. r \in Nat /\ t \in Nat
    BY TableIntervalAssumption
  <2>2. lookupFlow(table, f) /\ table[f].dOctets > 0
    BY <2>1, AnalysisEntries
  <2>3. table[f].dOctets = sent[f] % OctetMod /\ sent[f] \in Nat
    BY <2>2 DEF IInv, CountsExact, TypeOK
  <2>4. sent[f] % OctetMod <= sent[f] /\ sent[f] % OctetMod \in 0..(OctetMod - 1)
    BY <2>3, WrapOnce
  <2>5. QED
    BY <2>2, <2>3, <2>4
<1>2. IInv /\ [Next]_vars => [A]_vars
  BY <1>1
<1>3. QED
  BY <1>2, Invariance, PTL DEF Spec, IdleRemoved

(* A report names flows above the threshold only, and every stored one     *)
(* above it whose octets did not wrap, with its octets of the interval.    *)
THEOREM ReportsExact == Spec => ReportExact
<1> DEFINE A == \A r \in RThresholds, t \in TThresholds : Analysis(r, t) =>
                  /\ \A res \in results' : sent[res.fid] > t
                  /\ \A f \in Flow : lookupFlow(table, f) /\ sent[f] > t /\ sent[f] < OctetMod =>
                       \E res \in results' : res.fid = f /\ res.fd.dOctets = sent[f]
<1>1. IInv => A
  <2> SUFFICES ASSUME IInv, NEW r \in RThresholds, NEW t \in TThresholds, Analysis(r, t)
               PROVE  /\ \A res \in results' : sent[res.fid] > t
                      /\ \A f \in Flow :
                           lookupFlow(table, f) /\ sent[f] > t /\ sent[f] < OctetMod =>
                             \E res \in results' : res.fid = f /\ res.fd.dOctets = sent[f]
    OBVIOUS
  <2>1. t \in Nat /\ results' = Collected(table, r, t)
    BY TableIntervalAssumption DEF Analysis
  <2>2. ASSUME NEW f \in Flow, lookupFlow(table, f)
        PROVE  /\ table[f].dOctets \in Nat /\ sent[f] \in Nat
               /\ table[f].dOctets <= sent[f]
               /\ sent[f] < OctetMod => table[f].dOctets = sent[f]
    <3>1. table[f].dOctets = sent[f] % OctetMod /\ sent[f] \in Nat
      BY <2>2 DEF IInv, CountsExact, TypeOK
    <3>2. sent[f] % OctetMod \in 0..(OctetMod - 1) /\ sent[f] % OctetMod <= sent[f]
          /\ (sent[f] < OctetMod => sent[f] % OctetMod = sent[f])
      BY <3>1, WrapOnce
    <3>3. QED
      BY <3>1, <3>2, TableAssumption
  <2>3. ASSUME NEW res \in results'
        PROVE  sent[res.fid] > t
    <3>1. PICK f \in Heavy(table, r, t) : res = [fid |-> f, fd |-> table[f]]
      BY <2>1 DEF Collected
    <3>2. f \in Flow /\ lookupFlow(table, f) /\ table[f].dOctets > t /\ res.fid = f
      BY <3>1 DEF Heavy
    <3>3. QED
      BY <2>1, <2>2, <3>2
  <2>4. ASSUME NEW f \in Flow, lookupFlow(table, f), sent[f] > t, sent[f] < OctetMod
        PROVE  \E res \in results' : res.fid = f /\ res.fd.dOctets = sent[f]
    <3>1. table[f].dOctets = sent[f] /\ f \in Heavy(table, r, t)
      BY <2>2, <2>4 DEF Heavy
    <3>2. [fid |-> f, fd |-> table[f]] \in results'
      BY <2>1, <3>1 DEF Collected
    <3>3. QED
      BY <3>1, <3>2
  <2>5. QED
    BY <2>3, <2>4
<1>2. IInv /\ [Next]_vars => [A]_vars
  BY <1>1
<1>3. QED
  BY <1>2, Invariance, PTL DEF Spec, ReportExact
=============================================================================
