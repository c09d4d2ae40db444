------------------------------ MODULE FlowMeter ------------------------------
(***************************************************************************)
(* What the program promises as a meter: one table for all flows, packets  *)
(* that take effect at once, and analyses that look at all entries at the  *)
(* same instant.  There are no workers, queues or locks.  Which flows get  *)
(* an entry is the filter's business (FilterInterval): here any flow may   *)
(* get one with any of its packets, and a packet that is not counted has   *)
(* no effect.                                                              *)
(***************************************************************************)
EXTENDS FlowTable

CONSTANT Octets         \* lengths of packets

VARIABLES
  entry,                \* the table of all flows
  report,               \* the results that wait for their export
  phase,                \* "analysed" between the analysis and the adaptation
  limit, early          \* the thresholds of table and early removal

meterVars == <<entry, report, phase, limit, early>>

Init ==
  /\ entry = EmptyTable
  /\ report = {}
  /\ phase = "measuring"
  /\ limit \in Nat /\ early \in Nat /\ 5 * early <= limit

(* A packet of a flow with an entry is always counted ...                  *)
Count(f, octets) ==
  /\ phase = "measuring" /\ lookupFlow(entry, f)
  /\ entry' = updateTable(entry, f, octets)
  /\ UNCHANGED <<report, phase, limit, early>>

(* ... and one of any other flow may get it an entry.                      *)
Store(f, octets) ==
  /\ phase = "measuring" /\ ~ lookupFlow(entry, f)
  /\ entry' = insertFlow(entry, f, octets)
  /\ UNCHANGED <<report, phase, limit, early>>

(* All heavy entries are reported and all others judged at one instant,    *)
(* by the same thresholds.                                                 *)
Analyse ==
  /\ phase = "measuring" /\ report = {}
  /\ entry' = Cleaned(entry, early, limit)
  /\ report' = Collected(entry, early, limit)
  /\ phase' = "analysed"
  /\ UNCHANGED <<limit, early>>

(* The next early removal threshold is a fraction of the present limit.    *)
Adapt ==
  /\ phase = "analysed"
  /\ limit' \in Nat /\ early' \in Nat
  /\ 5 * early' <= limit
  /\ limit > 0 => limit' > 0
  /\ phase' = "measuring"
  /\ UNCHANGED <<entry, report>>

(* The export, after which the next analysis may come.                     *)
Publish ==
  /\ phase = "measuring"
  /\ report' = {}
  /\ UNCHANGED <<entry, phase, limit, early>>

Next ==
  \/ \E f \in Flow, octets \in Octets : Count(f, octets) \/ Store(f, octets)
  \/ Analyse \/ Adapt \/ Publish

Spec == Init /\ [][Next]_meterVars
=============================================================================
