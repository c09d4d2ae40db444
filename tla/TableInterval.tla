--------------------------- MODULE TableInterval ---------------------------
(***************************************************************************)
(* One worker's hash table over its life: Worker::svc under the lock, with *)
(* any answer the filter may give, and the analyses that clean the table   *)
(* and collect its heavy flows.                                            *)
(*                                                                         *)
(* sent and pkts are history variables: the octets of a flow since its     *)
(* entry was made or last analysed, its packets since the entry was made.  *)
(***************************************************************************)
EXTENDS FlowTable

CONSTANTS
  Octets,               \* lengths of packets
  RThresholds,          \* early removal thresholds of an analysis
  TThresholds,          \* table thresholds of an analysis
  MaxPkts,              \* bound: packets counted in one entry
  MaxCycles             \* bound: an entry that survived so many analyses
                        \* gets no more packets

ASSUME TableIntervalAssumption ==
  /\ Octets \subseteq 0..(OctetMod - 1)
  /\ RThresholds \subseteq Nat
  /\ TThresholds \subseteq Nat
  /\ MaxPkts \in Nat
  /\ MaxCycles \in Nat

VARIABLES
  table,                \* the FlowMap
  results,              \* what the last analysis collected
  sent,                 \* octets in this interval, by flow
  pkts                  \* packets since the entry was made, by flow

vars == <<table, results, sent, pkts>>

TypeOK ==
  /\ table \in Tables
  /\ results \subseteq [fid : Flow, fd : Descriptor]
  /\ sent \in [Flow -> Nat]
  /\ pkts \in [Flow -> Nat]

NothingSent == [f \in Flow |-> 0]
OfEntries(p) == [f \in Flow |-> IF lookupFlow(table', f) THEN p[f] ELSE 0]

Init ==
  /\ table = EmptyTable
  /\ results = {}
  /\ sent = NothingSent
  /\ pkts = NothingSent

-----------------------------------------------------------------------------
Count(f, octets) ==
  /\ pkts[f] < MaxPkts
  /\ lookupFlow(table, f) => table[f].cycles < MaxCycles
  /\ sent' = [sent EXCEPT ![f] = @ + octets]
  /\ pkts' = [pkts EXCEPT ![f] = @ + 1]

(* Worker::svc on a packet of a stored flow.                               *)
Shield(f, octets) ==
  /\ lookupFlow(table, f)
  /\ table' = updateTable(table, f, octets)
  /\ Count(f, octets)
  /\ UNCHANGED results

(* Worker::svc on the packet with which a flow passes the filter.  (One    *)
(* that does not pass leaves the table alone.)                             *)
Store(f, octets) ==
  /\ ~ lookupFlow(table, f)
  /\ table' = insertFlow(table, f, octets)
  /\ Count(f, octets)
  /\ UNCHANGED results

(* Slip: the octets of the last interval are not erased. *)
AnalysisUnerased(r, t) ==
  /\ table' = [f \in Flow |->
                 IF f \in Survivors(table, r, t) THEN [table[f] EXCEPT !.cycles = @ + 1]
                 ELSE Absent]
  /\ results' = Collected(table, r, t)
  /\ sent' = NothingSent
  /\ pkts' = OfEntries(pkts)

(* checkCleanHashTable.                                                    *)
Analysis(r, t) ==
  /\ table' = Cleaned(table, r, t)
  /\ results' = Collected(table, r, t)
  /\ sent' = NothingSent
  /\ pkts' = OfEntries(pkts)

Next ==
  \/ \E f \in Flow, octets \in Octets : Shield(f, octets) \/ Store(f, octets)
  \/ \E r \in RThresholds, t \in TThresholds : Analysis(r, t)

Spec == Init /\ [][Next]_vars

-----------------------------------------------------------------------------
(* A stored flow's dOctets are the octets of this interval, modulo 2^32:   *)
(* nothing of an earlier interval is left in it, whichever way it survived *)
(* the analyses in between.  Its dPkts are all packets since the entry was *)
(* made: no analysis starts them anew.                                     *)
CountsExact ==
  \A f \in Flow : lookupFlow(table, f) =>
    /\ table[f].dOctets = sent[f] % OctetMod
    /\ table[f].dPkts = pkts[f]

(* Nobody gets a second chance twice: an entry that outlived two analyses  *)
(* was heavy in the last one.                                              *)
SecondChanceOnce ==
  \A f \in Flow : lookupFlow(table, f) /\ table[f].cycles >= 2 =>
    \E res \in results : res.fid = f

(* An analysis keeps no flow that sent nothing since the last one, so      *)
(* every entry of the table is at most two analyses away from deletion.    *)
IdleRemoved ==
  [][\A r \in RThresholds, t \in TThresholds : Analysis(r, t) =>
       \A f \in Flow : lookupFlow(table', f) => sent[f] > 0]_vars

(* An analysis reports no flow that sent no more than its threshold; those *)
(* that sent more are reported unless their octets wrapped.                *)
ReportExact ==
  [][\A r \in RThresholds, t \in TThresholds : Analysis(r, t) =>
       /\ \A res \in results' : sent[res.fid] > t
       /\ \A f \in Flow : lookupFlow(table, f) /\ sent[f] > t /\ sent[f] < OctetMod =>
            \E res \in results' : res.fid = f /\ res.fd.dOctets = sent[f]]_vars
=============================================================================
