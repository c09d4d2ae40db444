--------------------------- MODULE FlowTableProofs ---------------------------
(***************************************************************************)
(* Facts about the operators of FlowTable, for every set of flows and      *)
(* every width of dOctets.                                                 *)
(***************************************************************************)
EXTENDS FlowTable, FiniteSetTheorems, TLAPS

(* What the table gives a stored flow is a descriptor. *)
LEMMA StoredDescriptor ==
  ASSUME NEW table \in Tables, NEW f \in Flow
  PROVE  lookupFlow(table, f) <=> table[f] \in Descriptor
BY TableAssumption DEF Tables, lookupFlow

LEMMA EmptyTableTyped == EmptyTable \in Tables /\ \A f \in Flow : ~ lookupFlow(EmptyTable, f)
BY DEF EmptyTable, Tables, lookupFlow

LEMMA Wrapped ==
  ASSUME NEW n \in Nat
  PROVE  n % OctetMod \in 0..(OctetMod - 1)
BY TableAssumption

(* A remainder that is below the modulus is the remainder. *)
LEMMA RemainderUnique ==
  ASSUME NEW q \in Nat, NEW r \in 0..(OctetMod - 1)
  PROVE  (OctetMod * q + r) % OctetMod = r
BY TableAssumption

(* An octet counter that wrapped before an addition shows no trace of it. *)
LEMMA WrapOnce ==
  ASSUME NEW s \in Nat, NEW o \in Nat
  PROVE  /\ s % OctetMod \in 0..(OctetMod - 1)
         /\ s % OctetMod <= s
         /\ s < OctetMod => s % OctetMod = s
         /\ ((s % OctetMod) + o) % OctetMod = (s + o) % OctetMod
<1> DEFINE q == s \div OctetMod
           r == s % OctetMod
           p == (r + o) \div OctetMod
           y == (r + o) % OctetMod
<1>1. q \in Nat /\ r \in 0..(OctetMod - 1) /\ s = OctetMod * q + r
  BY TableAssumption
<1>2. r <= s
  BY <1>1, TableAssumption
<1>3. p \in Nat /\ y \in 0..(OctetMod - 1) /\ r + o = OctetMod * p + y
  BY <1>1, TableAssumption
<1>4. s < OctetMod => r = s
  BY TableAssumption
<1> HIDE DEF q, r, p, y
<1>5. s + o = OctetMod * (q + p) + y /\ q + p \in Nat
  BY <1>1, <1>3, TableAssumption
<1>6. (s + o) % OctetMod = y
  BY <1>3, <1>5, RemainderUnique
<1>7. QED
  BY <1>1, <1>2, <1>4, <1>6 DEF r, y

(* updateTable changes the descriptor of one flow and stores no flow. *)
LEMMA UpdateTyped ==
  ASSUME NEW table \in Tables, NEW f \in Flow, lookupFlow(table, f), NEW octets \in Nat
  PROVE  /\ updateTable(table, f, octets) \in Tables
         /\ \A g \in Flow : lookupFlow(updateTable(table, f, octets), g) <=> lookupFlow(table, g)
<1> DEFINE d == [dOctets |-> (table[f].dOctets + octets) % OctetMod,
                 dPkts   |-> table[f].dPkts + 1,
                 cycles  |-> table[f].cycles]
<1>1. table[f] \in Descriptor
  BY StoredDescriptor
<1>2. d \in Descriptor
  <2>1. table[f].dOctets + octets \in Nat
    BY <1>1, TableAssumption DEF Descriptor
  <2>2. QED
    BY <1>1, <2>1, Wrapped DEF Descriptor
<1>3. updateTable(table, f, octets) = [table EXCEPT ![f] = d]
  BY DEF updateTable
<1> HIDE DEF d
<1>4. QED
  BY <1>1, <1>2, <1>3, TableAssumption DEF Tables, lookupFlow

(* insertFlow stores the flow, and no other. *)
LEMMA InsertTyped ==
  ASSUME NEW table \in Tables, NEW f \in Flow, NEW octets \in 0..(OctetMod - 1)
  PROVE  /\ insertFlow(table, f, octets) \in Tables
         /\ \A g \in Flow :
              lookupFlow(insertFlow(table, f, octets), g) <=> g = f \/ lookupFlow(table, g)
<1> DEFINE d == [dOctets |-> octets, dPkts |-> 1, cycles |-> 0]
<1>1. d \in Descriptor
  BY DEF Descriptor
<1>2. insertFlow(table, f, octets) = IF lookupFlow(table, f) THEN table ELSE [table EXCEPT ![f] = d]
  BY DEF insertFlow
<1> HIDE DEF d
<1>3. QED
  BY <1>1, <1>2, TableAssumption DEF Tables, lookupFlow

(* checkCleanHashTable leaves descriptors of flows that were there. *)
LEMMA CleanedTyped ==
  ASSUME NEW table \in Tables, NEW r, NEW t
  PROVE  /\ Cleaned(table, r, t) \in Tables
         /\ \A g \in Flow : lookupFlow(Cleaned(table, r, t), g) <=> g \in Survivors(table, r, t)
         /\ \A g \in Survivors(table, r, t) : g \in Flow /\ lookupFlow(table, g)
<1>1. \A g \in Survivors(table, r, t) : g \in Flow /\ lookupFlow(table, g)
  BY DEF Survivors, Heavy
<1>2. ASSUME NEW g \in Survivors(table, r, t)
      PROVE  [dOctets |-> 0, dPkts |-> table[g].dPkts, cycles |-> table[g].cycles + 1]
                \in Descriptor
  <2>1. table[g] \in Descriptor
    BY <1>1, StoredDescriptor
  <2>2. QED
    BY <2>1, TableAssumption DEF Descriptor
<1>3. QED
  BY <1>1, <1>2, TableAssumption DEF Cleaned, Tables, lookupFlow

(* It keeps the heavy flows and the promising new ones, without octets and *)
(* one analysis older.                                                     *)
LEMMA CleanedEntry ==
  ASSUME NEW table \in Tables, NEW r, NEW t, NEW f \in Flow
  PROVE  /\ lookupFlow(Cleaned(table, r, t), f) <=>
              /\ lookupFlow(table, f)
              /\ table[f].dOctets > t \/ EarlyKept(table[f], r, t)
         /\ lookupFlow(Cleaned(table, r, t), f) =>
              /\ Cleaned(table, r, t)[f].dOctets = 0
              /\ Cleaned(table, r, t)[f].cycles = table[f].cycles + 1
<1>1. f \in Survivors(table, r, t) <=>
        lookupFlow(table, f) /\ (table[f].dOctets > t \/ EarlyKept(table[f], r, t))
  BY DEF Survivors, Heavy
<1>2. lookupFlow(Cleaned(table, r, t), f) <=> f \in Survivors(table, r, t)
  BY CleanedTyped
<1>3. f \in Survivors(table, r, t) =>
        Cleaned(table, r, t)[f] =
          [dOctets |-> 0, dPkts |-> table[f].dPkts, cycles |-> table[f].cycles + 1]
  BY DEF Cleaned
<1>4. QED
  BY <1>1, <1>2, <1>3

(* It collects finitely many descriptors of stored flows. *)
LEMMA CollectedTyped ==
  ASSUME NEW table \in Tables, NEW r, NEW t, IsFiniteSet(Flow)
  PROVE  /\ Collected(table, r, t) \subseteq [fid : Flow, fd : Descriptor]
         /\ IsFiniteSet(Collected(table, r, t))
<1>1. Heavy(table, r, t) \subseteq Flow
  BY DEF Heavy
<1>2. \A g \in Heavy(table, r, t) : table[g] \in Descriptor
  BY StoredDescriptor DEF Heavy
<1>3. IsFiniteSet(Heavy(table, r, t))
  BY <1>1, FS_Subset
<1>4. IsFiniteSet(Collected(table, r, t))
  <2> DEFINE copy == [g \in Heavy(table, r, t) |-> [fid |-> g, fd |-> table[g]]]
  <2>1. copy \in Surjection(Heavy(table, r, t), Collected(table, r, t))
    BY DEF Surjection, Collected
  <2>2. QED
    BY <1>3, <2>1, FS_Surjection
<1>5. QED
  BY <1>1, <1>2, <1>4 DEF Collected
=============================================================================
