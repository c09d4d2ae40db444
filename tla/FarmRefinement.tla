--------------------------- MODULE FarmRefinement ---------------------------
(***************************************************************************)
(* The farm as a flow meter.  The entry of a flow is that in the table of  *)
(* its worker; a packet takes effect when the worker updates or inserts,   *)
(* and an analysis when the analyzer comes to the first worker: the tables *)
(* it has not come to yet count as cleaned, and what it will find there as *)
(* reported.                                                               *)
(***************************************************************************)
EXTENDS CaptureFarm

(* The analysis has begun, and has not come to worker w yet.               *)
ToClean(w) == anPc = "clean" /\ 1 < anIdx /\ anIdx <= w

entryBar ==
  [f \in Flow |->
     IF ToClean(Dispatch[f])
     THEN Cleaned(table[Dispatch[f]], old_r_threshold, t_threshold)[f]
     ELSE table[Dispatch[f]][f]]

reportBar ==
  {[fid |-> c.fid, fd |-> c.fd] : c \in results}
    \cup UNION {Collected(table[w], old_r_threshold, t_threshold) :
                  w \in {v \in Worker : ToClean(v)}}

phaseBar ==
  IF anPc = "adapt" \/ (anPc = "clean" /\ 1 < anIdx) THEN "analysed" ELSE "measuring"

Meter == INSTANCE FlowMeter
           WITH entry <- entryBar, report <- reportBar, phase <- phaseBar,
                limit <- t_threshold, early <- old_r_threshold

(* The farm, with its workers, queues and locks, is a flow meter: no entry *)
(* changes during an analysis, no packet is counted by half, no report     *)
(* mixes two intervals, and no flow is reported by two workers.            *)
ImplementsFlowMeter == Meter!Spec
=============================================================================
