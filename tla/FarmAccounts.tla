---------------------------- MODULE FarmAccounts ----------------------------
(***************************************************************************)
(* The farm with accounts of the traffic: what its reports say of the      *)
(* packets, from the workers' decisions to the file.                       *)
(*                                                                         *)
(* The variables of this module are history variables.  They are kept from *)
(* what a step of CaptureFarm does, and no step reads them.                *)
(***************************************************************************)
EXTENDS CaptureFarm

VARIABLES
  offered,              \* octets of a flow its worker has decided on since
                        \* the analyzer last cleaned that worker's table
  dropped,              \* those of them that the filter dropped
  offeredThen,          \* what these were when the analysis under way
  droppedThen           \* cleaned the table

accounts == <<offered, dropped, offeredThen, droppedThen>>
accountVars == <<vars, accounts>>

NoOctets == [f \in Flow |-> 0]

AccountInit ==
  /\ Init
  /\ offered = NoOctets /\ dropped = NoOctets
  /\ offeredThen = NoOctets /\ droppedThen = NoOctets

-----------------------------------------------------------------------------
(* The step ends the work of worker w on its packet, at the table or in    *)
(* the filter.                                                             *)
Decides(w) == wPc[w] \in {"update", "filter", "insert"} /\ wPc'[w] = "unlock"

(* The step cleans the table of worker w.                                  *)
Cleans(w) == anPc = "clean" /\ anIdx = w /\ <<anPc, anIdx>>' # <<anPc, anIdx>>

(* Octets of flow f the step decides on, and those of them it drops.       *)
Offered(f) ==
  LET w == Dispatch[f] IN IF Decides(w) /\ wTask[w].fid = f THEN wTask[w].dOctets ELSE 0

Dropped(f) == IF wPc[Dispatch[f]] = "filter" THEN Offered(f) ELSE 0

(* An account is carried on until the table is cleaned, then set aside     *)
(* for the report of that analysis, and forgotten when this is written.    *)
Account ==
  /\ offered' = [f \in Flow |-> IF Cleans(Dispatch[f]) THEN 0 ELSE offered[f] + Offered(f)]
  /\ dropped' = [f \in Flow |-> IF Cleans(Dispatch[f]) THEN 0 ELSE dropped[f] + Dropped(f)]
  /\ IF anPc = "flush" /\ anPc' = "loop"
     THEN offeredThen' = NoOctets /\ droppedThen' = NoOctets
     ELSE /\ offeredThen' =
               [f \in Flow |-> IF Cleans(Dispatch[f]) THEN offered[f] ELSE offeredThen[f]]
          /\ droppedThen' =
               [f \in Flow |-> IF Cleans(Dispatch[f]) THEN dropped[f] ELSE droppedThen[f]]

AccountNext == Next /\ Account

AccountSpec == AccountInit /\ [][AccountNext]_accountVars

-----------------------------------------------------------------------------
(* Octets of the interval of the analysis under way that the flow's entry  *)
(* in the table counted.                                                   *)
Counted(f) == offeredThen[f] - droppedThen[f]

Reported(f) == \E r \in results : r.fid = f

(* The report that is written lists just the flows of which more octets    *)
(* than the threshold printed in its head were counted in its interval,    *)
(* once, with these octets (modulo the width of dOctets) and never more    *)
(* than there were, although they were counted in the tables of several    *)
(* workers, the analyzer came to each table at another time, the workers   *)
(* have gone on since, and the threshold has been adapted.                 *)
ReportsTrue ==
  anPc \in {"export", "flush"} =>
    /\ \A f \in Flow : Reported(f) <=> Counted(f) % OctetMod > old_t_threshold
    /\ \A r \in results : /\ r.fd.dOctets = Counted(r.fid) % OctetMod
                           /\ r.fd.dOctets <= offeredThen[r.fid]
    /\ \A r, s \in results : r.fid = s.fid => r = s

(* A flow that shares no bucket with another flow of its worker. *)
AloneAtWorker(f) ==
  \A g \in Flow \ {f} : Dispatch[g] = Dispatch[f] => \A i \in Stage : Hash[i][g] # Hash[i][f]

(* No heavy flow is missed on its own account: one that collides with no   *)
(* other is reported if in the interval more octets than the thresholds of *)
(* table and filter together passed through its worker, however its        *)
(* packets, those of other flows, and analyses are interleaved.  (Octets   *)
(* that wrapped in dOctets aside.)                                         *)
LoneHeavyReported ==
  anPc = "adapt" =>
    \A f \in Flow :
      /\ AloneAtWorker(f) /\ Counted(f) < OctetMod
      /\ offeredThen[f] > t_threshold + threshold[Dispatch[f]]
      => Reported(f)

(* An analysis leaves in the tables what deserves its place: the flows it  *)
(* reports, so that they stay shielded from the filter while their report  *)
(* is on its way, and flows in their first interval; all of them sent in   *)
(* the interval, and begin the next one without octets.                    *)
EntriesPreserved ==
  /\ \A f \in Flow : Reported(f) => lookupFlow(table[Dispatch[f]], f)
  /\ anPc = "adapt" =>
       \A f \in Flow : lookupFlow(table[Dispatch[f]], f) =>
         LET d == table[Dispatch[f]][f]
         IN  /\ d.dOctets = 0 /\ Counted(f) % OctetMod > 0
             /\ Reported(f) \/ d.cycles = 1
=============================================================================
