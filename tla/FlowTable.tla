------------------------------ MODULE FlowTable ------------------------------
(***************************************************************************)
(* The hash table of one worker (HashTable.cpp) and what the Analyzer does *)
(* to it (checkCleanHashTable), as operators on the table's value: a       *)
(* function that gives every flow its FlowDescriptor, or Absent.           *)
(*                                                                         *)
(* The code's table grows without limit (boost::unordered_map; tableSize   *)
(* is its initial number of buckets), and so does this one.                *)
(***************************************************************************)
EXTENDS DataStructures, Integers

CONSTANTS
  OctetMod,             \* dOctets is a u_int32_t: 2^32
  Absent                \* no descriptor

Descriptor == [dOctets : 0..(OctetMod - 1), dPkts : Nat, cycles : Nat]

ASSUME TableAssumption ==
  /\ OctetMod \in Nat \ {0}
  /\ Absent \notin Descriptor

Tables == [Flow -> Descriptor \cup {Absent}]
EmptyTable == [f \in Flow |-> Absent]

lookupFlow(table, f) == table[f] # Absent

(* Slip: the sum computed in more than 32 bits. *)
updateTableWide(table, f, octets) ==
  [table EXCEPT ![f] = [dOctets |-> table[f].dOctets + octets,
                        dPkts   |-> table[f].dPkts + 1,
                        cycles  |-> table[f].cycles]]

(* A stored flow's descriptor gains a packet; the octets wrap.  (The code  *)
(* throws if the flow is absent; whether it can be is a property of the    *)
(* farm.)                                                                  *)
updateTable(table, f, octets) ==
  [table EXCEPT ![f] = [dOctets |-> (table[f].dOctets + octets) % OctetMod,
                        dPkts   |-> table[f].dPkts + 1,
                        cycles  |-> table[f].cycles]]

(* unordered_map::insert does nothing if the key is there.                 *)
insertFlow(table, f, octets) ==
  IF lookupFlow(table, f) THEN table
  ELSE [table EXCEPT ![f] = [dOctets |-> octets, dPkts |-> 1, cycles |-> 0]]

-----------------------------------------------------------------------------
(* Slip: cycles is not looked at. *)
EarlyKeptAgain(d, r_threshold, t_threshold) ==
  d.dOctets > r_threshold /\ d.dOctets <= t_threshold

(* Slip: `>=' for `>', so that the limit 0 keeps flows without octets. *)
EarlyKeptIdle(d, r_threshold, t_threshold) ==
  d.cycles = 0 /\ d.dOctets >= r_threshold /\ d.dOctets <= t_threshold

(* The two conditions of checkCleanHashTable: a flow in its first interval *)
(* that is promising, and a flow to report.                                *)
EarlyKept(d, r_threshold, t_threshold) ==
  d.cycles = 0 /\ d.dOctets > r_threshold /\ d.dOctets <= t_threshold

(* Slip: the early removal threshold in place of the table threshold. *)
HeavyEarly(table, r_threshold, t_threshold) ==
  {f \in Flow : lookupFlow(table, f) /\ table[f].dOctets > r_threshold}

Heavy(table, r_threshold, t_threshold) ==
  {f \in Flow : lookupFlow(table, f) /\ table[f].dOctets > t_threshold}

Survivors(table, r_threshold, t_threshold) ==
  Heavy(table, r_threshold, t_threshold) \cup
    {f \in Flow : lookupFlow(table, f) /\ EarlyKept(table[f], r_threshold, t_threshold)}

(* The table checkCleanHashTable leaves: survivors are marked and start    *)
(* the next interval without octets, but keep their packets.               *)
Cleaned(table, r_threshold, t_threshold) ==
  [f \in Flow |->
     IF f \in Survivors(table, r_threshold, t_threshold)
     THEN [dOctets |-> 0, dPkts |-> table[f].dPkts, cycles |-> table[f].cycles + 1]
     ELSE Absent]

(* Slip: results hold the descriptors themselves, which are marked next. *)
CollectedByReference(table, r_threshold, t_threshold) ==
  {[fid |-> f, fd |-> Cleaned(table, r_threshold, t_threshold)[f]] :
     f \in Heavy(table, r_threshold, t_threshold)}

(* The copies of descriptors it appends to results, before it marks them.  *)
Collected(table, r_threshold, t_threshold) ==
  {[fid |-> f, fd |-> table[f]] : f \in Heavy(table, r_threshold, t_threshold)}
=============================================================================
