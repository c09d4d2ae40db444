------------------------ MODULE FarmPromisesProofs --------------------------
(***************************************************************************)
(* What the farm promises, for every number of workers and flows: it       *)
(* implements FlowMeter, and its reports are true of the packets.          *)
(***************************************************************************)
EXTENDS FarmRefinement, FarmAccounts, CaptureFarmProofs

(* The analyzer is not between the first cleaning and the adaptation. *)
Quiet == anPc # "adapt" /\ ~ (anPc = "clean" /\ 1 < anIdx)

(* Before an analysis begins, all results have been exported. *)
Exported ==
  anPc \in {"off", "loop", "wait", "lock", "ended"} \/ (anPc = "clean" /\ anIdx = 1)
    => results = {}

(* What the meter does to its table is what a worker does to its own. *)
LEMMA SameOperators ==
  /\ Meter!EmptyTable = EmptyTable
  /\ \A tb, f : Meter!lookupFlow(tb, f) = lookupFlow(tb, f)
  /\ \A tb, f, octets : Meter!updateTable(tb, f, octets) = updateTable(tb, f, octets)
  /\ \A tb, f, octets : Meter!insertFlow(tb, f, octets) = insertFlow(tb, f, octets)
  /\ \A tb, r, t : Meter!Cleaned(tb, r, t) = Cleaned(tb, r, t)
  /\ \A tb, r, t : Meter!Collected(tb, r, t) = Collected(tb, r, t)
<1> USE DEF Meter!lookupFlow, lookupFlow
<1>1. Meter!EmptyTable = EmptyTable
  BY DEF Meter!EmptyTable, EmptyTable
<1>2. \A tb, f : Meter!lookupFlow(tb, f) = lookupFlow(tb, f)
  OBVIOUS
<1>3. \A tb, f, octets : Meter!updateTable(tb, f, octets) = updateTable(tb, f, octets)
  BY DEF Meter!updateTable, updateTable
<1>4. \A tb, f, octets : Meter!insertFlow(tb, f, octets) = insertFlow(tb, f, octets)
  BY DEF Meter!insertFlow, insertFlow
<1>5. \A tb, r, t : Meter!Heavy(tb, r, t) = Heavy(tb, r, t)
  BY DEF Meter!Heavy, Heavy
<1>6. \A tb, r, t : Meter!Survivors(tb, r, t) = Survivors(tb, r, t)
  BY <1>5 DEF Meter!Survivors, Survivors, Meter!EarlyKept, EarlyKept
<1>7. \A tb, r, t : Meter!Cleaned(tb, r, t) = Cleaned(tb, r, t)
  BY <1>6 DEF Meter!Cleaned, Cleaned
<1>8. \A tb, r, t : Meter!Collected(tb, r, t) = Collected(tb, r, t)
  BY <1>5 DEF Meter!Collected, Collected
<1>9. QED
  BY <1>1, <1>2, <1>3, <1>4, <1>7, <1>8

(* What an analysis makes of a flow depends on the flow's entry only. *)
LEMMA HeavyPointwise ==
  ASSUME NEW tb, NEW tb2, NEW r, NEW t, NEW f \in Flow, tb[f] = tb2[f]
  PROVE  f \in Heavy(tb, r, t) <=> f \in Heavy(tb2, r, t)
BY DEF Heavy, lookupFlow

LEMMA CleanedPointwise ==
  ASSUME NEW tb, NEW tb2, NEW r, NEW t, NEW f \in Flow, tb[f] = tb2[f]
  PROVE  Cleaned(tb, r, t)[f] = Cleaned(tb2, r, t)[f]
<1>1. f \in Survivors(tb, r, t) <=> f \in Survivors(tb2, r, t)
  BY HeavyPointwise DEF Survivors, EarlyKept, lookupFlow
<1>2. QED
  BY <1>1 DEF Cleaned

(* The results are exported and cleared before the next analysis. *)
LEMMA ExportedInit == Init => Exported
BY DEF Init, Exported

LEMMA ExportedStep == Below /\ Exported /\ [Next]_vars => Exported'
<1> SUFFICES ASSUME Below, Exported, [Next]_vars PROVE Exported'
  OBVIOUS
<1> USE DEF Exported, Below, ControlInv, NotStarted, IndexReset
<1>1. CASE UNCHANGED <<results, anPc, anIdx>>
  BY <1>1
<1>2. CASE Main \/ RunFails \/ PcapError \/ Send \/ EndOfCapture \/ RaiseSignal
  BY <1>2 DEF Main, Go, RunFarm, FarmEnds, StopAnalyzer, JoinAnalyzer, CloseExporter, CleanUp, Exit,
              RunFails, PcapError, Send, EndOfCapture, RaiseSignal, analyzerVars
<1>3. ASSUME NEW f \in Flow, NEW octets \in Octets, Capture(f, octets)
      PROVE  Exported'
  BY <1>1, <1>3 DEF Capture, analyzerVars
<1>4. ASSUME NEW w \in Worker, WorkerStep(w)
      PROVE  Exported'
  BY <1>1, <1>4 DEF WorkerStep, TakeTask, EndOfStream, LockSelf, Lookup, Update, Filter, Insert,
                    UnlockSelf, analyzerVars
<1>5. CASE LoopTest \/ TimeUp \/ SignalReceived \/ WaitInterrupted
  BY <1>5 DEF LoopTest, TimeUp, SignalReceived, WaitInterrupted
<1>6. CASE LockNext \/ RefilterNext \/ UnlockNext
  BY <1>6 DEF LockNext, RefilterNext, UnlockNext, NextIndexOr
<1>7. CASE CleanNext
  <2>1. anIdx \in Nat /\ 1 <= anIdx
    BY FarmAssumption DEF ControlTypes, Worker
  <2>2. QED
    BY <1>7, <2>1 DEF CleanNext, NextIndexOr
<1>8. CASE Adapt \/ WriteReport \/ ExportResults
  BY <1>8 DEF Adapt, WriteReport, ExportResults
<1>9. CASE Gone \/ UNCHANGED vars
  BY <1>1, <1>9 DEF Gone, vars, analyzerVars
<1>10. QED
  BY <1>2, <1>3, <1>4, <1>5, <1>6, <1>7, <1>8, <1>9 DEF Next, Analysis

-----------------------------------------------------------------------------
(* Outside an analysis the meter shows the tables as they are. *)
LEMMA QuietMapping ==
  ASSUME Quiet
  PROVE  /\ entryBar = [f \in Flow |-> table[Dispatch[f]][f]]
         /\ reportBar = {[fid |-> c.fid, fd |-> c.fd] : c \in results}
         /\ phaseBar = "measuring"
BY DEF Quiet, entryBar, reportBar, phaseBar, ToClean

(* Steps the meter does not see. *)
LEMMA MeterStutters ==
  ASSUME UNCHANGED <<table, results, t_threshold, old_r_threshold>>,
         UNCHANGED <<anPc, anIdx>> \/ (Quiet /\ Quiet')
  PROVE  UNCHANGED Meter!meterVars
<1>1. CASE UNCHANGED <<anPc, anIdx>>
  BY <1>1 DEF Meter!meterVars, entryBar, reportBar, phaseBar, ToClean
<1>2. CASE Quiet /\ Quiet'
  BY <1>2 DEF Meter!meterVars, Quiet, entryBar, reportBar, phaseBar, ToClean
<1>3. QED
  BY <1>1, <1>2

(* The farm begins as a meter does. *)
LEMMA MeterInit == Init => Meter!Init
<1> SUFFICES ASSUME Init PROVE Meter!Init
  OBVIOUS
<1>1. Quiet
  BY DEF Init, Quiet
<1>2. entryBar = EmptyTable
  <2>1. \A f \in Flow : Dispatch[f] \in Worker
    BY FarmAssumption
  <2>2. QED
    BY <1>1, <2>1, QuietMapping DEF Init, EmptyTable
<1>3. reportBar = {} /\ phaseBar = "measuring"
  BY <1>1, QuietMapping DEF Init
<1>4. TInv
  BY DataInit DEF DataInv
<1>5. t_threshold \in Nat /\ old_r_threshold \in Nat /\ 5 * old_r_threshold <= t_threshold
  BY <1>4, ThresholdAssumption DEF Init, ThresholdInit, TInv, ThresholdTypeOK, EarlyRemovalBound
<1>6. QED
  BY <1>2, <1>3, <1>5, SameOperators DEF Meter!Init

(* A worker at its table: the analyzer holds no lock, and the flow is not  *)
(* in any other table.                                                     *)
LEMMA CriticalIsQuiet ==
  ASSUME Below, NEW w \in Worker, wPc[w] \in critical
  PROVE  Quiet
<1>1. lock[w] = "worker"
  BY DEF Below, ControlInv, LocksHeld
<1>2. lock[w] # "analyzer"
  BY <1>1
<1>3. anPc \notin {"clean", "adapt"}
  BY <1>2 DEF Below, ControlInv, LocksHeld
<1>4. QED
  BY <1>3 DEF Quiet

(* A packet of a stored flow is counted. *)
LEMMA MeterUpdate ==
  ASSUME Below, DataInv, NEW w \in Worker, Update(w)
  PROVE  Meter!Next
<1> DEFINE f == wTask[w].fid
           octets == wTask[w].dOctets
<1>1. f \in Flow /\ Dispatch[f] = w /\ octets \in Octets
  BY DEF Update, critical, Below, ThreadInv, TasksHeld, Routed, TaskOf, Task
<1>2. Quiet /\ Quiet'
  BY CriticalIsQuiet DEF Update, critical, Quiet, analyzerVars
<1>3. lookupFlow(table[w], f)
  BY DEF DataInv, ShieldingStable, Update
<1>4. /\ table' = [table EXCEPT ![w] = updateTable(table[w], f, octets)]
      /\ UNCHANGED <<results, t_threshold, old_r_threshold>>
  BY DEF Update, analyzerVars, tvars
<1> HIDE DEF f, octets
<1>5. entryBar[f] = table[w][f]
  BY <1>1, <1>2, QuietMapping
<1>6. entryBar' = updateTable(entryBar, f, octets)
  <2>1. entryBar' = [g \in Flow |-> table'[Dispatch[g]][g]]
    BY <1>2 DEF Quiet, entryBar, ToClean
  <2>2. entryBar = [g \in Flow |-> table[Dispatch[g]][g]]
    BY <1>2, QuietMapping
  <2>3. table \in [Worker -> Tables] /\ \A g \in Flow : Dispatch[g] \in Worker
    BY FarmAssumption DEF DataInv, DataTypes
  <2>4. table[w] \in [Flow -> Descriptor \cup {Absent}]
    BY <2>3 DEF Tables
  <2>5. /\ table'[w] = updateTable(table[w], f, octets)
        /\ \A v \in Worker : v # w => table'[v] = table[v]
    BY <1>4, <2>3
  <2>6. ASSUME NEW g \in Flow
        PROVE  table'[Dispatch[g]][g] = updateTable(entryBar, f, octets)[g]
    BY <1>1, <1>5, <2>2, <2>3, <2>4, <2>5, <2>6 DEF updateTable
  <2>7. updateTable(entryBar, f, octets) = [g \in Flow |-> updateTable(entryBar, f, octets)[g]]
    BY <2>2 DEF updateTable
  <2>8. QED
    BY <2>1, <2>6, <2>7
<1>7. lookupFlow(entryBar, f)
  BY <1>3, <1>5 DEF lookupFlow
<1>8. UNCHANGED <<reportBar, phaseBar>> /\ phaseBar = "measuring"
  BY <1>2, <1>4 DEF Quiet, reportBar, phaseBar, ToClean
<1>9. Meter!Count(f, octets)
  BY <1>4, <1>6, <1>7, <1>8, SameOperators DEF Meter!Count
<1>10. QED
  BY <1>1, <1>9 DEF Meter!Next

(* A flow that passed the filter is stored. *)
LEMMA MeterInsert ==
  ASSUME Below, DataInv, NEW w \in Worker, Insert(w)
  PROVE  Meter!Next
<1> DEFINE f == wTask[w].fid
           octets == wTask[w].dOctets
<1>1. f \in Flow /\ Dispatch[f] = w /\ octets \in Octets
  BY DEF Insert, critical, Below, ThreadInv, TasksHeld, Routed, TaskOf, Task
<1>2. Quiet /\ Quiet'
  BY CriticalIsQuiet DEF Insert, critical, Quiet, analyzerVars
<1>3. ~ lookupFlow(table[w], f)
  BY DEF DataInv, ShieldingStable, Insert
<1>4. /\ table' = [table EXCEPT ![w] = insertFlow(table[w], f, octets)]
      /\ UNCHANGED <<results, t_threshold, old_r_threshold>>
  BY DEF Insert, analyzerVars, tvars
<1> HIDE DEF f, octets
<1>5. entryBar[f] = table[w][f]
  BY <1>1, <1>2, QuietMapping
<1>6. ~ lookupFlow(entryBar, f)
  BY <1>3, <1>5 DEF lookupFlow
<1>7. entryBar' = insertFlow(entryBar, f, octets)
  <2>1. entryBar' = [g \in Flow |-> table'[Dispatch[g]][g]]
    BY <1>2 DEF Quiet, entryBar, ToClean
  <2>2. entryBar = [g \in Flow |-> table[Dispatch[g]][g]]
    BY <1>2, QuietMapping
  <2>3. table \in [Worker -> Tables] /\ \A g \in Flow : Dispatch[g] \in Worker
    BY FarmAssumption DEF DataInv, DataTypes
  <2>4. table[w] \in [Flow -> Descriptor \cup {Absent}]
    BY <2>3 DEF Tables
  <2>5. /\ table'[w] = insertFlow(table[w], f, octets)
        /\ \A v \in Worker : v # w => table'[v] = table[v]
    BY <1>4, <2>3
  <2>6. ASSUME NEW g \in Flow
        PROVE  table'[Dispatch[g]][g] = insertFlow(entryBar, f, octets)[g]
    BY <1>1, <1>3, <1>6, <2>2, <2>3, <2>4, <2>5, <2>6 DEF insertFlow
  <2>7. insertFlow(entryBar, f, octets) = [g \in Flow |-> insertFlow(entryBar, f, octets)[g]]
    BY <1>6, <2>2 DEF insertFlow
  <2>8. QED
    BY <2>1, <2>6, <2>7
<1>8. UNCHANGED <<reportBar, phaseBar>> /\ phaseBar = "measuring"
  BY <1>2, <1>4 DEF Quiet, reportBar, phaseBar, ToClean
<1>9. Meter!Store(f, octets)
  BY <1>4, <1>6, <1>7, <1>8, SameOperators DEF Meter!Store
<1>10. QED
  BY <1>1, <1>9 DEF Meter!Next

-----------------------------------------------------------------------------
(* What the analysis makes of a flow, and what it finds in all tables. *)
Judged(f) == Cleaned(table[Dispatch[f]], old_r_threshold, t_threshold)[f]
Found(w) == Collected(table[w], old_r_threshold, t_threshold)

(* The tables do not share flows, so a collection from each of them is one *)
(* from the table of all flows.                                            *)
LEMMA CollectedFromAll ==
  ASSUME DataInv, Quiet
  PROVE  /\ Collected(entryBar, old_r_threshold, t_threshold) = UNION {Found(w) : w \in Worker}
         /\ Cleaned(entryBar, old_r_threshold, t_threshold) = [f \in Flow |-> Judged(f)]
<1> DEFINE r == old_r_threshold
           t == t_threshold
           all == entryBar
<1>1. \A f \in Flow : Dispatch[f] \in Worker /\ all[f] = table[Dispatch[f]][f]
  BY FarmAssumption, QuietMapping
<1>2. \A f \in Flow : f \in Heavy(all, r, t) <=> f \in Heavy(table[Dispatch[f]], r, t)
  BY <1>1, HeavyPointwise
<1>3. \A f \in Flow, w \in Worker : f \in Heavy(table[w], r, t) => Dispatch[f] = w
  BY DEF Heavy, DataInv, FlowAffinity
<1>4. \A f \in Flow : Cleaned(all, r, t)[f] = Judged(f)
  BY <1>1, CleanedPointwise DEF Judged
<1>5. Cleaned(all, r, t) = [f \in Flow |-> Judged(f)]
  <2>1. Cleaned(all, r, t) = [f \in Flow |-> Cleaned(all, r, t)[f]]
    BY DEF Cleaned
  <2>2. QED
    BY <1>4, <2>1
<1>6. ASSUME NEW c \in Collected(all, r, t)
      PROVE  \E w \in Worker : c \in Found(w)
  <2>1. PICK f \in Heavy(all, r, t) : c = [fid |-> f, fd |-> all[f]]
    BY <1>6 DEF Collected
  <2>2. f \in Flow
    BY DEF Heavy
  <2>3. f \in Heavy(table[Dispatch[f]], r, t) /\ c = [fid |-> f, fd |-> table[Dispatch[f]][f]]
    BY <1>1, <1>2, <2>1, <2>2
  <2>4. c \in Found(Dispatch[f])
    BY <2>3 DEF Found, Collected
  <2>5. QED
    BY <1>1, <2>2, <2>4
<1>7. ASSUME NEW w \in Worker, NEW c \in Found(w)
      PROVE  c \in Collected(all, r, t)
  <2>1. PICK f \in Heavy(table[w], r, t) : c = [fid |-> f, fd |-> table[w][f]]
    BY <1>7 DEF Found, Collected
  <2>2. f \in Flow /\ Dispatch[f] = w
    BY <1>3 DEF Heavy
  <2>3. f \in Heavy(all, r, t) /\ c = [fid |-> f, fd |-> all[f]]
    BY <1>1, <1>2, <2>1, <2>2
  <2>4. QED
    BY <2>3 DEF Collected
<1> HIDE DEF all, r, t
<1>8. Collected(all, r, t) = UNION {Found(w) : w \in Worker}
  BY <1>6, <1>7
<1>9. QED
  BY <1>5, <1>8 DEF all, r, t

(* The tables and results while the analyzer goes through the tables. *)
LEMMA CleanStep ==
  ASSUME Below, DataInv, CleanNext
  PROVE  /\ anIdx \in Worker /\ anPc = "clean"
         /\ table'[anIdx] = Cleaned(table[anIdx], old_r_threshold, t_threshold)
         /\ \A w \in Worker : w # anIdx => table'[w] = table[w]
         /\ UNCHANGED <<t_threshold, old_r_threshold>>
         /\ phaseBar' = "analysed"
         /\ \A w \in Worker : ToClean(w)' <=> anIdx < w
<1>1. /\ anIdx \in Worker /\ anPc = "clean" /\ table \in [Worker -> Tables]
      /\ table' = [table EXCEPT ![anIdx] = Cleaned(table[anIdx], old_r_threshold, t_threshold)]
      /\ UNCHANGED <<t_threshold, old_r_threshold>> /\ NextIndexOr("adapt")
  BY DEF CleanNext, tvars, Below, ControlInv, ControlTypes, DataInv, DataTypes
<1>2. phaseBar' = "analysed"
  BY <1>1, FarmAssumption DEF NextIndexOr, phaseBar, Worker
<1>3. \A w \in Worker : ToClean(w)' <=> anIdx < w
  BY <1>1, FarmAssumption DEF NextIndexOr, ToClean, Worker
<1>4. QED
  BY <1>1, <1>2, <1>3

(* Every cleaning leaves the meter's entries as the first one made them ... *)
LEMMA CleanedBar ==
  ASSUME Below, DataInv, CleanNext
  PROVE  /\ \A f \in Flow : anIdx <= Dispatch[f] => entryBar'[f] = Judged(f)
         /\ \A f \in Flow : Dispatch[f] < anIdx => entryBar'[f] = table[Dispatch[f]][f]
<1>1. /\ anIdx \in Worker
      /\ table'[anIdx] = Cleaned(table[anIdx], old_r_threshold, t_threshold)
      /\ \A w \in Worker : w # anIdx => table'[w] = table[w]
      /\ UNCHANGED <<t_threshold, old_r_threshold>>
      /\ \A w \in Worker : ToClean(w)' <=> anIdx < w
  BY CleanStep
<1>2. ASSUME NEW f \in Flow
      PROVE  /\ anIdx <= Dispatch[f] => entryBar'[f] = Judged(f)
             /\ Dispatch[f] < anIdx => entryBar'[f] = table[Dispatch[f]][f]
  <2>1. Dispatch[f] \in Worker
    BY FarmAssumption
  <2>2. CASE anIdx < Dispatch[f]
    <3>1. ToClean(Dispatch[f])' /\ table'[Dispatch[f]] = table[Dispatch[f]]
      BY <1>1, <2>1, <2>2 DEF Worker
    <3>2. entryBar'[f] = Cleaned(table'[Dispatch[f]], old_r_threshold', t_threshold')[f]
      BY <3>1 DEF entryBar
    <3>3. QED
      BY <1>1, <2>1, <2>2, <3>1, <3>2 DEF Judged, Worker
  <2>3. CASE ~ (anIdx < Dispatch[f])
    <3>1. entryBar'[f] = table'[Dispatch[f]][f]
      BY <1>1, <2>1, <2>3 DEF entryBar
    <3>2. QED
      BY <1>1, <2>1, <2>3, <3>1 DEF Judged, Worker
  <2>4. QED
    BY <2>2, <2>3
<1>3. QED
  BY <1>2

(* ... and its report. *)
LEMMA ReportedBar ==
  ASSUME Below, DataInv, CleanNext
  PROVE  reportBar' = {[fid |-> c.fid, fd |-> c.fd] : c \in results}
                        \cup UNION {Found(w) : w \in {v \in Worker : anIdx <= v}}
<1> DEFINE Strip(c) == [fid |-> c.fid, fd |-> c.fd]
<1>1. /\ anIdx \in Worker
      /\ \A w \in Worker : w # anIdx => table'[w] = table[w]
      /\ UNCHANGED <<t_threshold, old_r_threshold>>
      /\ \A w \in Worker : ToClean(w)' <=> anIdx < w
  BY CleanStep
<1>2. results' = results \cup {[worker |-> anIdx, fid |-> c.fid, fd |-> c.fd] : c \in Found(anIdx)}
  BY DEF CleanNext, Found
<1>3. \A c \in Found(anIdx) : Strip([worker |-> anIdx, fid |-> c.fid, fd |-> c.fd]) = c
  BY DEF Found, Collected
<1>4. {Strip(c) : c \in results'} = {Strip(c) : c \in results} \cup Found(anIdx)
  BY <1>2, <1>3
<1>5. {v \in Worker : ToClean(v)'} = {v \in Worker : anIdx < v}
  BY <1>1
<1>6. \A w \in Worker : anIdx < w => Found(w)' = Found(w)
  BY <1>1 DEF Found, Worker
<1>7. UNION {Found(w)' : w \in {v \in Worker : anIdx < v}}
        = UNION {Found(w) : w \in {v \in Worker : anIdx < v}}
  BY <1>6
<1>8. UNION {Found(w) : w \in {v \in Worker : anIdx <= v}}
        = Found(anIdx) \cup UNION {Found(w) : w \in {v \in Worker : anIdx < v}}
  <2>1. {v \in Worker : anIdx <= v} = {anIdx} \cup {v \in Worker : anIdx < v}
    BY <1>1 DEF Worker
  <2> HIDE DEF Found
  <2>2. QED
    BY <2>1
<1>9. reportBar' = {Strip(c) : c \in results'}
                     \cup UNION {Found(w)' : w \in {v \in Worker : ToClean(v)'}}
  BY DEF reportBar, Found
<1>10. QED
  BY <1>4, <1>5, <1>7, <1>8, <1>9

(* The first table cleaned stands for the whole analysis ... *)
LEMMA MeterAnalyse ==
  ASSUME Below, DataInv, Exported, CleanNext, anIdx = 1
  PROVE  Meter!Next
<1>1. Quiet /\ results = {}
  BY DEF CleanNext, Quiet, Exported
<1>2. \A w \in Worker : 1 <= w
  BY DEF Worker
<1>3. \A f \in Flow : Dispatch[f] \in Worker
  BY FarmAssumption
<1>4. entryBar' = Cleaned(entryBar, old_r_threshold, t_threshold)
  <2>1. entryBar' = [f \in Flow |-> entryBar'[f]]
    BY DEF entryBar
  <2>2. \A f \in Flow : entryBar'[f] = Judged(f)
    BY <1>2, <1>3, CleanedBar
  <2>3. entryBar' = [f \in Flow |-> Judged(f)]
    BY <2>1, <2>2
  <2>4. QED
    BY <1>1, <2>3, CollectedFromAll
<1>5. reportBar' = Collected(entryBar, old_r_threshold, t_threshold)
  <2>1. {v \in Worker : anIdx <= v} = Worker
    BY <1>2
  <2>2. reportBar' = UNION {Found(w) : w \in Worker}
    BY <1>1, <2>1, ReportedBar
  <2>3. QED
    BY <1>1, <2>2, CollectedFromAll
<1>6. phaseBar = "measuring" /\ reportBar = {}
  BY <1>1, QuietMapping
<1>7. phaseBar' = "analysed" /\ UNCHANGED <<t_threshold, old_r_threshold>>
  BY CleanStep
<1>8. Meter!Analyse
  BY <1>4, <1>5, <1>6, <1>7, SameOperators DEF Meter!Analyse
<1>9. QED
  BY <1>8 DEF Meter!Next

(* ... and the others change nothing. *)
LEMMA MeterOngoing ==
  ASSUME Below, DataInv, CleanNext, anIdx # 1
  PROVE  UNCHANGED Meter!meterVars
<1>1. anIdx \in Worker /\ 1 < anIdx /\ anPc = "clean"
  BY CleanStep DEF Worker
<1>2. \A w \in Worker : ToClean(w) <=> anIdx <= w
  BY <1>1 DEF ToClean
<1>3. entryBar' = entryBar
  <2>1. entryBar' = [f \in Flow |-> entryBar'[f]] /\ entryBar = [f \in Flow |-> entryBar[f]]
    BY DEF entryBar
  <2>2. ASSUME NEW f \in Flow
        PROVE  entryBar'[f] = entryBar[f]
    <3>1. Dispatch[f] \in Worker
      BY FarmAssumption
    <3>2. CASE anIdx <= Dispatch[f]
      BY <1>2, <3>1, <3>2, CleanedBar DEF entryBar, Judged
    <3>3. CASE Dispatch[f] < anIdx
      <4>1. ~ ToClean(Dispatch[f])
        BY <1>1, <1>2, <3>1, <3>3 DEF Worker
      <4>2. entryBar[f] = table[Dispatch[f]][f]
        BY <4>1 DEF entryBar
      <4>3. QED
        BY <3>3, <4>2, CleanedBar
    <3>4. QED
      BY <1>1, <3>1, <3>2, <3>3 DEF Worker
  <2>3. QED
    BY <2>1, <2>2
<1>4. reportBar' = reportBar
  <2>1. {v \in Worker : ToClean(v)} = {v \in Worker : anIdx <= v}
    BY <1>2
  <2>2. QED
    BY <2>1, ReportedBar DEF reportBar, Found
<1>5. phaseBar' = phaseBar /\ UNCHANGED <<t_threshold, old_r_threshold>>
  BY <1>1, CleanStep DEF phaseBar
<1>6. QED
  BY <1>3, <1>4, <1>5 DEF Meter!meterVars

(* The thresholds change when all tables are cleaned. *)
LEMMA MeterAdapt ==
  ASSUME Below, DataInv, DataInv', Adapt
  PROVE  Meter!Next
<1>1. anPc = "adapt" /\ anPc' = "refilter" /\ UNCHANGED <<table, results, anIdx>>
  BY DEF Adapt, farmVars, dataVars
<1>2. phaseBar = "analysed" /\ phaseBar' = "measuring"
  BY <1>1 DEF phaseBar
<1>3. UNCHANGED <<entryBar, reportBar>>
  BY <1>1 DEF entryBar, reportBar, ToClean
<1>4. old_r_threshold' = r_threshold
  BY DEF Adapt, Interval, update_thresholds
<1>5. /\ r_threshold \in Nat /\ 5 * r_threshold <= t_threshold
      /\ t_threshold' \in Nat /\ (t_threshold > 0 => t_threshold' > 0)
  <2>1. /\ ThresholdTypeOK /\ EarlyRemovalBound /\ ThresholdTypeOK' /\ ThresholdBounds'
    BY DEF DataInv, TInv
  <2>2. QED
    BY <2>1, ThresholdAssumption DEF ThresholdTypeOK, EarlyRemovalBound, ThresholdBounds
<1>6. Meter!Adapt
  BY <1>2, <1>3, <1>4, <1>5 DEF Meter!Adapt
<1>7. QED
  BY <1>6 DEF Meter!Next

(* The report is cleared when it is in the file. *)
LEMMA MeterPublish ==
  ASSUME ExportResults
  PROVE  Meter!Next
<1>1. /\ anPc = "flush" /\ anPc' = "loop" /\ results' = {}
      /\ UNCHANGED <<table, t_threshold, old_r_threshold>>
  BY DEF ExportResults, farmVars, dataVars, tvars
<1>2. Quiet /\ Quiet'
  BY <1>1 DEF Quiet
<1>3. phaseBar = "measuring" /\ phaseBar' = "measuring" /\ reportBar' = {} /\ entryBar' = entryBar
  BY <1>1, <1>2 DEF Quiet, entryBar, reportBar, phaseBar, ToClean
<1>4. Meter!Publish
  BY <1>1, <1>3 DEF Meter!Publish
<1>5. QED
  BY <1>4 DEF Meter!Next

(* Every step of the farm is one of the meter, or a stutter. *)
LEMMA MeterStep ==
  ASSUME Below, DataInv, DataInv', Exported, [Next]_vars
  PROVE  [Meter!Next]_(Meter!meterVars)
<1>1. CASE UNCHANGED <<table, results, anPc, anIdx, tvars>>
  BY <1>1, MeterStutters DEF tvars
<1>2. CASE Quiet /\ Quiet' /\ UNCHANGED <<table, results, tvars>>
  BY <1>2, MeterStutters DEF tvars
<1>3. CASE Main \/ RunFails \/ PcapError \/ Send \/ EndOfCapture \/ RaiseSignal
  BY <1>1, <1>2, <1>3 DEF Main, Go, RunFarm, FarmEnds, StopAnalyzer, JoinAnalyzer, CloseExporter,
       CleanUp, Exit, RunFails, PcapError, Send, EndOfCapture, RaiseSignal, farmVars, dataVars,
       analyzerVars, Quiet, Below, ControlInv, NotStarted
<1>4. ASSUME NEW f \in Flow, NEW octets \in Octets, Capture(f, octets)
      PROVE  [Meter!Next]_(Meter!meterVars)
  BY <1>1, <1>4 DEF Capture, dataVars, analyzerVars
<1>5. ASSUME NEW w \in Worker, WorkerStep(w)
      PROVE  [Meter!Next]_(Meter!meterVars)
  <2>1. CASE Update(w) \/ Insert(w)
    BY <2>1, MeterUpdate, MeterInsert
  <2>2. CASE ~ (Update(w) \/ Insert(w))
    BY <1>1, <1>5, <2>2 DEF WorkerStep, TakeTask, EndOfStream, LockSelf, Lookup, Filter, UnlockSelf,
         dataVars, analyzerVars
  <2>3. QED
    BY <2>1, <2>2
<1>6. CASE LoopTest \/ TimeUp \/ SignalReceived \/ WaitInterrupted \/ WriteReport
  BY <1>2, <1>6 DEF LoopTest, TimeUp, SignalReceived, WaitInterrupted, WriteReport, farmVars,
                    dataVars, Quiet
<1>7. CASE LockNext
  <2>1. Quiet /\ UNCHANGED <<table, results, tvars>>
    BY <1>7 DEF LockNext, Quiet, dataVars
  <2>2. Quiet'
    BY <1>7 DEF LockNext, NextIndexOr, Quiet
  <2>3. QED
    BY <1>2, <2>1, <2>2
<1>8. CASE RefilterNext \/ UnlockNext
  BY <1>2, <1>8 DEF RefilterNext, UnlockNext, NextIndexOr, Quiet, dataVars
<1>9. CASE CleanNext
  BY <1>9, MeterAnalyse, MeterOngoing
<1>10. CASE Adapt \/ ExportResults
  BY <1>10, MeterAdapt, MeterPublish
<1>11. CASE Gone \/ UNCHANGED vars
  BY <1>1, <1>11 DEF Gone, vars, farmVars, dataVars, analyzerVars
<1>12. QED
  BY <1>3, <1>4, <1>5, <1>6, <1>7, <1>8, <1>9, <1>10, <1>11 DEF Next, Analysis

(* The farm with its threads, queues and locks implements the meter that   *)
(* has one table, immediate packets and instantaneous analyses, for every  *)
(* number of workers and every dispatch function.                          *)
THEOREM Refinement == Spec => ImplementsFlowMeter
<1>1. Init => Meter!Init /\ Exported
  BY MeterInit, ExportedInit
<1>2. Below /\ DataInv /\ Exported /\ [Next]_vars => Exported'
  BY ExportedStep
<1>3. Below /\ DataInv /\ DataInv' /\ Exported /\ [Next]_vars => [Meter!Next]_(Meter!meterVars)
  BY MeterStep
<1>4. QED
  BY <1>1, <1>2, <1>3, FarmInvariance, PTL DEF Spec, ImplementsFlowMeter, Meter!Spec

-----------------------------------------------------------------------------
(* The accounts of FarmAccounts. *)

(* What n octets leave in dOctets. *)
Residue(n) == n % OctetMod

(* The analysis under way has been at the table of worker w. *)
Seen(w) ==
  \/ anPc \in {"adapt", "refilter", "unlock", "export", "flush"}
  \/ anPc = "clean" /\ w < anIdx

(* It has, and the filter of w still counts the interval that is over. *)
Unreset(w) ==
  \/ anPc = "clean" /\ w < anIdx
  \/ anPc = "adapt"
  \/ anPc = "refilter" /\ anIdx <= w

(* The threshold it compares with, which becomes the old one in Adapt. *)
Limit == IF anPc \in {"clean", "adapt"} THEN t_threshold ELSE old_t_threshold

(* Accounts are counts, and no more is dropped than was offered. *)
AccountTypes ==
  /\ offered \in [Flow -> Nat] /\ dropped \in [Flow -> Nat]
  /\ offeredThen \in [Flow -> Nat] /\ droppedThen \in [Flow -> Nat]
  /\ \A f \in Flow : dropped[f] <= offered[f] /\ droppedThen[f] <= offeredThen[f]

(* What was offered of a flow is in its entry, or was dropped. *)
EntriesTrue ==
  \A f \in Flow :
    /\ lookupFlow(table[Dispatch[f]], f) =>
         table[Dispatch[f]][f].dOctets = Residue(offered[f] - dropped[f])
    /\ ~ lookupFlow(table[Dispatch[f]], f) => offered[f] = dropped[f]

(* The results are those of the tables the analysis has been at. *)
ResultsTrue ==
  /\ \A f \in Flow : Reported(f) <=> Seen(Dispatch[f]) /\ Residue(Counted(f)) > Limit
  /\ \A r \in results : r.fid \in Flow /\ r.fd.dOctets = Residue(Counted(r.fid))
  /\ \A r, s \in results : r.fid = s.fid => r = s

(* The counters are within the threshold, and those of a flow that is      *)
(* alone hold what was dropped of it since the filter was reset.           *)
CountersWithin ==
  \A w \in Worker, i \in Stage, b \in Bucket : count[w][i][b] <= threshold[w]

(* What the counters of a flow that is alone hold. *)
Charge(f) == IF Unreset(Dispatch[f]) THEN droppedThen[f] ELSE dropped[f]

LoneExact ==
  \A f \in Flow : AloneAtWorker(f) =>
    \A i \in Stage : count[Dispatch[f]][i][Hash[i][f]] = Charge(f)

(* Between the cleaning of its table and the reset of its filter a worker  *)
(* decides on nothing.                                                     *)
NothingSince == \A f \in Flow : Unreset(Dispatch[f]) => offered[f] = 0 /\ dropped[f] = 0

(* A reported flow is stored, and so are, until the filter is reset, only  *)
(* flows that sent and are either reported or new.                         *)
EntriesSwept ==
  /\ \A f \in Flow : Reported(f) => lookupFlow(table[Dispatch[f]], f)
  /\ \A f \in Flow : Unreset(Dispatch[f]) /\ lookupFlow(table[Dispatch[f]], f) =>
       /\ table[Dispatch[f]][f].dOctets = 0 /\ Residue(Counted(f)) > 0
       /\ Reported(f) \/ table[Dispatch[f]][f].cycles = 1

(* The inductive invariant, together with that of the farm. *)
AccountInv ==
  /\ AccountTypes /\ EntriesTrue /\ ResultsTrue /\ CountersWithin /\ LoneExact /\ NothingSince
  /\ EntriesSwept

-----------------------------------------------------------------------------
(* Nothing is offered, stored or reported at first. *)
LEMMA AccountInitInv == AccountInit => AccountInv
<1> SUFFICES ASSUME AccountInit PROVE AccountInv
  OBVIOUS
<1>1. \A f \in Flow : /\ offered[f] = 0 /\ dropped[f] = 0
                      /\ offeredThen[f] = 0 /\ droppedThen[f] = 0
                      /\ Dispatch[f] \in Worker
  BY FarmAssumption DEF AccountInit, NoOctets
<1>2. anPc = "off" /\ results = {} /\ \A w \in Worker : table[w] = EmptyTable
  BY DEF AccountInit, Init
<1>3. AccountTypes
  BY <1>1 DEF AccountTypes, AccountInit, NoOctets
<1>4. EntriesTrue
  BY <1>1, <1>2 DEF EntriesTrue, lookupFlow, EmptyTable
<1>5. ResultsTrue
  BY <1>2 DEF ResultsTrue, Reported, Seen
<1>6. \A w \in Worker, i \in Stage, b \in Bucket : count[w][i][b] = 0
  BY DEF AccountInit, Init, ZeroCounters
<1>7. CountersWithin
  <2>1. \A w \in Worker : threshold[w] \in Nat
    BY DataInit DEF AccountInit, DataInv, DataTypes
  <2>2. QED
    BY <1>6, <2>1 DEF CountersWithin
<1>8. LoneExact
  BY <1>1, <1>2, <1>6, FilterAssumption DEF LoneExact, Charge, Unreset
<1>9. NothingSince
  BY <1>2 DEF NothingSince, Unreset
<1>10. EntriesSwept
  BY <1>2 DEF EntriesSwept, Reported, Unreset
<1>11. QED
  BY <1>3, <1>4, <1>5, <1>7, <1>8, <1>9, <1>10 DEF AccountInv

(* Most steps neither decide on a packet, nor clean a table, nor end an    *)
(* analysis.                                                               *)
Idle ==
  /\ \A w \in Worker : ~ Decides(w) /\ ~ Cleans(w)
  /\ ~ (anPc = "flush" /\ anPc' = "loop")

LEMMA AccountsIdle ==
  ASSUME AccountTypes, Account, Idle
  PROVE  UNCHANGED accounts
<1>1. \A f \in Flow : Dispatch[f] \in Worker
  BY FarmAssumption
<1>2. \A f \in Flow : Offered(f) = 0 /\ Dropped(f) = 0 /\ ~ Cleans(Dispatch[f])
  BY <1>1 DEF Idle, Offered, Dropped
<1>3. offered' = [f \in Flow |-> offered[f]] /\ dropped' = [f \in Flow |-> dropped[f]]
  BY <1>2 DEF Account, AccountTypes
<1>4. /\ offeredThen' = [f \in Flow |-> offeredThen[f]]
      /\ droppedThen' = [f \in Flow |-> droppedThen[f]]
  BY <1>2 DEF Account, Idle
<1>5. QED
  BY <1>3, <1>4 DEF accounts, AccountTypes

(* The worker's decision is entered in the account of its packet's flow.   *)
LEMMA AccountsDecided ==
  ASSUME AccountTypes, Account, Below, NEW w \in Worker,
         wPc[w] \in {"update", "filter", "insert"}, wPc' = [wPc EXCEPT ![w] = "unlock"],
         UNCHANGED <<anPc, anIdx>>
  PROVE  LET f == wTask[w].fid
             octets == wTask[w].dOctets
         IN  /\ offered' = [offered EXCEPT ![f] = @ + octets]
             /\ dropped' = IF wPc[w] = "filter" THEN [dropped EXCEPT ![f] = @ + octets] ELSE dropped
             /\ UNCHANGED <<offeredThen, droppedThen>>
<1> DEFINE f == wTask[w].fid
           octets == wTask[w].dOctets
<1>1. f \in Flow /\ Dispatch[f] = w /\ octets \in Nat
  BY TaskInHand DEF critical
<1>2. \A g \in Flow : Dispatch[g] \in Worker /\ ~ Cleans(Dispatch[g])
  BY FarmAssumption DEF Cleans
<1>3. wPc'[w] = "unlock" /\ \A v \in Worker : v # w => wPc'[v] = wPc[v]
  BY DEF Below, ControlInv, ControlTypes
<1>4. Decides(w) /\ \A v \in Worker : v # w => ~ Decides(v)
  BY <1>3 DEF Decides
<1>5. Offered(f) = octets /\ Dropped(f) = IF wPc[w] = "filter" THEN octets ELSE 0
  BY <1>1, <1>4 DEF Offered, Dropped
<1>6. \A g \in Flow : g # f => Offered(g) = 0 /\ Dropped(g) = 0
  BY <1>2, <1>4 DEF Offered, Dropped
<1> HIDE DEF f, octets
<1>7. /\ offered' = [g \in Flow |-> offered[g] + Offered(g)]
      /\ dropped' = [g \in Flow |-> dropped[g] + Dropped(g)]
      /\ offeredThen' = [g \in Flow |-> offeredThen[g]]
      /\ droppedThen' = [g \in Flow |-> droppedThen[g]]
  BY <1>2 DEF Account
<1>8. offered' = [offered EXCEPT ![f] = @ + octets]
  <2>1. \A g \in Flow : offered[g] + Offered(g) = IF g = f THEN offered[f] + octets ELSE offered[g]
    BY <1>5, <1>6 DEF AccountTypes
  <2>2. QED
    BY <1>1, <1>7, <2>1 DEF AccountTypes
<1>9. dropped' = IF wPc[w] = "filter" THEN [dropped EXCEPT ![f] = @ + octets] ELSE dropped
  <2>1. CASE wPc[w] = "filter"
    <3>1. \A g \in Flow : dropped[g] + Dropped(g) =
                            IF g = f THEN dropped[f] + octets ELSE dropped[g]
      BY <1>5, <1>6, <2>1 DEF AccountTypes
    <3>2. QED
      BY <1>1, <1>7, <2>1, <3>1 DEF AccountTypes
  <2>2. CASE wPc[w] # "filter"
    <3>1. \A g \in Flow : dropped[g] + Dropped(g) = dropped[g]
      BY <1>5, <1>6, <2>2 DEF AccountTypes
    <3>2. QED
      BY <1>7, <2>2, <3>1 DEF AccountTypes
  <2>3. QED
    BY <2>1, <2>2
<1>10. QED
  BY <1>7, <1>8, <1>9 DEF AccountTypes, f, octets

(* The accounts of the flows of the worker whose table is cleaned are set  *)
(* aside.                                                                  *)
LEMMA AccountsCleaned ==
  ASSUME AccountTypes, Account, Below, CleanNext
  PROVE  /\ offered' = [f \in Flow |-> IF Dispatch[f] = anIdx THEN 0 ELSE offered[f]]
         /\ dropped' = [f \in Flow |-> IF Dispatch[f] = anIdx THEN 0 ELSE dropped[f]]
         /\ offeredThen' =
              [f \in Flow |-> IF Dispatch[f] = anIdx THEN offered[f] ELSE offeredThen[f]]
         /\ droppedThen' =
              [f \in Flow |-> IF Dispatch[f] = anIdx THEN dropped[f] ELSE droppedThen[f]]
<1>1. anPc = "clean" /\ anIdx \in Worker /\ NextIndexOr("adapt") /\ UNCHANGED wPc
  BY DEF CleanNext, workerVars, Below, ControlInv, ControlTypes
<1>2. <<anPc, anIdx>>' # <<anPc, anIdx>>
  BY <1>1 DEF NextIndexOr, Worker
<1>3. \A f \in Flow : Cleans(Dispatch[f]) <=> Dispatch[f] = anIdx
  BY <1>1, <1>2 DEF Cleans
<1>4. \A f \in Flow : Offered(f) = 0 /\ Dropped(f) = 0
  BY <1>1 DEF Offered, Dropped, Decides
<1>5. \A f \in Flow : offered[f] + Offered(f) = offered[f] /\ dropped[f] + Dropped(f) = dropped[f]
  BY <1>4 DEF AccountTypes
<1>6. QED
  BY <1>1, <1>3, <1>5 DEF Account

-----------------------------------------------------------------------------
(* Steps that leave the results and the accounts set aside alone. *)
LEMMA ResultsKept ==
  ASSUME ResultsTrue, UNCHANGED <<results, offeredThen, droppedThen>>,
         \A w \in Worker : Seen(w)' <=> Seen(w),
         (\E w \in Worker : Seen(w)) => Limit' = Limit
  PROVE  ResultsTrue'
<1>1. \A f \in Flow : Dispatch[f] \in Worker
  BY FarmAssumption
<1>2. \A f : Reported(f)' <=> Reported(f)
  BY DEF Reported
<1>3. \A f : Counted(f)' = Counted(f)
  BY DEF Counted
<1>4. ASSUME NEW f \in Flow
      PROVE  Reported(f)' <=> Seen(Dispatch[f])' /\ Residue(Counted(f)') > Limit'
  <2>1. Reported(f) <=> Seen(Dispatch[f]) /\ Residue(Counted(f)) > Limit
    BY DEF ResultsTrue
  <2>2. CASE Seen(Dispatch[f])
    BY <1>1, <1>2, <1>3, <2>1, <2>2
  <2>3. CASE ~ Seen(Dispatch[f])
    BY <1>1, <1>2, <2>1, <2>3
  <2>4. QED
    BY <2>2, <2>3
<1>5. \A r \in results' : r.fid \in Flow /\ r.fd.dOctets = Residue(Counted(r.fid)')
  BY <1>3 DEF ResultsTrue
<1>6. \A r, s \in results' : r.fid = s.fid => r = s
  BY DEF ResultsTrue
<1>7. QED
  BY <1>4, <1>5, <1>6 DEF ResultsTrue, Residue

(* Steps that delete no entry, and leave those the analysis has been at. *)
LEMMA SweptKept ==
  ASSUME EntriesSwept, UNCHANGED results,
         \A f \in Flow : lookupFlow(table[Dispatch[f]], f) => lookupFlow(table'[Dispatch[f]], f),
         \A f \in Flow : Unreset(Dispatch[f])' =>
           /\ Unreset(Dispatch[f]) /\ Counted(f)' = Counted(f)
           /\ table'[Dispatch[f]][f] = table[Dispatch[f]][f]
  PROVE  EntriesSwept'
<1>1. \A f : Reported(f)' <=> Reported(f)
  BY DEF Reported
<1>2. \A f \in Flow : Reported(f)' => lookupFlow(table'[Dispatch[f]], f)
  BY <1>1 DEF EntriesSwept
<1>3. ASSUME NEW f \in Flow, Unreset(Dispatch[f])', lookupFlow(table'[Dispatch[f]], f)
      PROVE  /\ table'[Dispatch[f]][f].dOctets = 0 /\ Residue(Counted(f)') > 0
             /\ Reported(f)' \/ table'[Dispatch[f]][f].cycles = 1
  <2>1. lookupFlow(table[Dispatch[f]], f) /\ Unreset(Dispatch[f])
    BY <1>3 DEF lookupFlow
  <2>2. QED
    BY <1>1, <1>3, <2>1 DEF EntriesSwept
<1>4. QED
  BY <1>2, <1>3 DEF EntriesSwept, Residue, lookupFlow

(* Steps that leave tables, filters, results and accounts alone. *)
LEMMA AccountUnchanged ==
  ASSUME AccountInv, UNCHANGED <<accounts, table, count, threshold, results>>,
         \A w \in Worker : (Seen(w)' <=> Seen(w)) /\ (Unreset(w)' <=> Unreset(w)),
         (\E w \in Worker : Seen(w)) => Limit' = Limit
  PROVE  AccountInv'
<1>1. \A f \in Flow : Dispatch[f] \in Worker
  BY FarmAssumption
<1>2. ResultsTrue'
  BY ResultsKept DEF AccountInv, accounts
<1>3. AccountTypes' /\ EntriesTrue' /\ CountersWithin'
  BY DEF AccountInv, accounts, AccountTypes, EntriesTrue, CountersWithin, lookupFlow
<1>4. LoneExact' /\ NothingSince'
  BY <1>1 DEF AccountInv, accounts, LoneExact, NothingSince, Charge
<1>5. \A f \in Flow : Counted(f)' = Counted(f)
  BY DEF Counted, accounts
<1>6. EntriesSwept'
  BY <1>1, <1>5, SweptKept DEF AccountInv, lookupFlow
<1>7. QED
  BY <1>2, <1>3, <1>4, <1>6 DEF AccountInv

(* The filter of a worker in its critical section is the one of the        *)
(* interval its packets are counted in.                                    *)
LEMMA CriticalIsReset ==
  ASSUME Below, NEW w \in Worker, wPc[w] \in critical
  PROVE  ~ Unreset(w)
<1>1. lock[w] = "worker"
  BY DEF Below, ControlInv, LocksHeld
<1>2. anPc \notin {"clean", "adapt", "refilter"}
  BY <1>1 DEF Below, ControlInv, LocksHeld
<1>3. QED
  BY <1>2 DEF Unreset

(* A worker enters a packet in its table, which becomes new.               *)
Stores(w, f, octets, new) ==
  /\ w \in Worker /\ f \in Flow /\ Dispatch[f] = w /\ octets \in Nat /\ new \in Tables
  /\ ~ Unreset(w)
  /\ lookupFlow(new, f) /\ new[f].dOctets = Residue((offered[f] + octets) - dropped[f])
  /\ \A g \in Flow : g # f => new[g] = table[w][g]
  /\ table' = [table EXCEPT ![w] = new]
  /\ offered' = [offered EXCEPT ![f] = @ + octets]
  /\ UNCHANGED <<dropped, offeredThen, droppedThen, count, threshold, results, anPc, anIdx,
                 t_threshold, old_t_threshold>>

LEMMA AccountStored ==
  ASSUME AccountInv, DataInv, NEW w, NEW f, NEW octets, NEW new, Stores(w, f, octets, new)
  PROVE  AccountInv'
<1> USE DEF Stores
<1>1. /\ AccountTypes /\ table \in [Worker -> Tables]
      /\ \A g \in Flow : Dispatch[g] \in Worker
  BY FarmAssumption DEF AccountInv, DataInv, DataTypes
<1>2. offered'[f] = offered[f] + octets /\ \A g \in Flow : g # f => offered'[g] = offered[g]
  BY <1>1 DEF AccountTypes
<1>3. table'[w] = new /\ \A v \in Worker : v # w => table'[v] = table[v]
  BY <1>1
<1>4. AccountTypes'
  <2>1. offered' \in [Flow -> Nat]
    BY <1>1 DEF AccountTypes
  <2>2. \A g \in Flow : dropped'[g] <= offered'[g]
    BY <1>1, <1>2 DEF AccountTypes
  <2>3. QED
    BY <1>1, <2>1, <2>2 DEF AccountTypes
<1>5. EntriesTrue'
  <2>1. ASSUME NEW g \in Flow
        PROVE  /\ lookupFlow(table'[Dispatch[g]], g) =>
                     table'[Dispatch[g]][g].dOctets = Residue(offered'[g] - dropped'[g])
               /\ ~ lookupFlow(table'[Dispatch[g]], g) => offered'[g] = dropped'[g]
    <3>1. CASE g = f
      <4>1. table'[Dispatch[g]] = new
        BY <1>3, <3>1
      <4>2. offered'[g] = offered[f] + octets /\ dropped'[g] = dropped[f]
        BY <1>2, <3>1
      <4>3. QED
        BY <3>1, <4>1, <4>2
    <3>2. CASE g # f
      <4>1. table'[Dispatch[g]][g] = table[Dispatch[g]][g]
        BY <1>1, <1>3, <3>2
      <4>2. QED
        BY <1>2, <3>2, <4>1 DEF AccountInv, EntriesTrue, lookupFlow
    <3>3. QED
      BY <3>1, <3>2
  <2>2. QED
    BY <2>1 DEF EntriesTrue, Residue, lookupFlow
<1>6. \A v \in Worker : (Seen(v)' <=> Seen(v)) /\ (Unreset(v)' <=> Unreset(v))
  BY DEF Seen, Unreset
<1>7. ResultsTrue'
  <2>1. Limit' = Limit
    BY DEF Limit
  <2>2. QED
    BY <1>6, <2>1, ResultsKept DEF AccountInv
<1>8. CountersWithin' /\ LoneExact'
  BY <1>1, <1>6 DEF AccountInv, CountersWithin, LoneExact, Charge
<1>9. NothingSince'
  BY <1>1, <1>2, <1>6 DEF AccountInv, NothingSince
<1>10. EntriesSwept'
  <2>1. ASSUME NEW g \in Flow
        PROVE  /\ lookupFlow(table[Dispatch[g]], g) => lookupFlow(table'[Dispatch[g]], g)
               /\ Dispatch[g] # w => table'[Dispatch[g]][g] = table[Dispatch[g]][g]
    BY <1>1, <1>3 DEF lookupFlow
  <2>2. ASSUME NEW g \in Flow, Unreset(Dispatch[g])'
        PROVE  /\ Unreset(Dispatch[g]) /\ Counted(g)' = Counted(g)
               /\ table'[Dispatch[g]][g] = table[Dispatch[g]][g]
    <3>1. Unreset(Dispatch[g]) /\ Dispatch[g] # w
      BY <1>1, <1>6, <2>2
    <3>2. Counted(g)' = Counted(g)
      BY DEF Counted
    <3>3. QED
      BY <2>1, <3>1, <3>2
  <2>3. QED
    BY <2>1, <2>2, SweptKept DEF AccountInv
<1>11. QED
  BY <1>4, <1>5, <1>7, <1>8, <1>9, <1>10 DEF AccountInv

(* A packet of a stored flow ... *)
LEMMA AccountUpdate ==
  ASSUME AccountInv, Below, DataInv, Account, NEW w \in Worker, Update(w)
  PROVE  AccountInv'
<1> DEFINE f == wTask[w].fid
           octets == wTask[w].dOctets
           new == updateTable(table[w], f, octets)
<1>1. /\ f \in Flow /\ Dispatch[f] = w /\ octets \in Nat /\ ~ Unreset(w)
      /\ table[w] \in Tables /\ lookupFlow(table[w], f)
  BY TaskInHand, CriticalIsReset DEF Update, critical, DataInv, DataTypes, ShieldingStable
<1>2. /\ offered' = [offered EXCEPT ![f] = @ + octets]
      /\ UNCHANGED <<dropped, offeredThen, droppedThen>>
  BY AccountsDecided DEF AccountInv, Update, analyzerVars
<1>3. /\ table' = [table EXCEPT ![w] = new]
      /\ UNCHANGED <<count, threshold, results, anPc, anIdx, t_threshold, old_t_threshold>>
  BY DEF Update, analyzerVars, tvars
<1> HIDE DEF f, octets
<1>4. new \in Tables /\ lookupFlow(new, f)
  BY <1>1, UpdateTyped
<1>5. \A g \in Flow : g # f => new[g] = table[w][g]
  BY <1>1 DEF updateTable, Tables
<1>6. new[f].dOctets = Residue((offered[f] + octets) - dropped[f])
  <2> DEFINE s == offered[f] - dropped[f]
  <2>1. s \in Nat /\ (offered[f] + octets) - dropped[f] = s + octets
    BY <1>1 DEF AccountInv, AccountTypes
  <2>2. table[w][f].dOctets = s % OctetMod
    BY <1>1 DEF AccountInv, EntriesTrue, Residue
  <2>3. new[f].dOctets = (table[w][f].dOctets + octets) % OctetMod
    BY <1>1 DEF updateTable, Tables
  <2> HIDE DEF s
  <2>4. ((s % OctetMod) + octets) % OctetMod = (s + octets) % OctetMod
    BY <1>1, <2>1, WrapOnce
  <2>5. QED
    BY <2>1, <2>2, <2>3, <2>4 DEF Residue
<1> HIDE DEF new
<1>7. Stores(w, f, octets, new)
  BY <1>1, <1>2, <1>3, <1>4, <1>5, <1>6 DEF Stores
<1>8. QED
  BY <1>7, AccountStored

(* ... of one that passed the filter ... *)
LEMMA AccountInsert ==
  ASSUME AccountInv, Below, DataInv, Account, NEW w \in Worker, Insert(w)
  PROVE  AccountInv'
<1> DEFINE f == wTask[w].fid
           octets == wTask[w].dOctets
           new == insertFlow(table[w], f, octets)
<1>0. octets \in 0..(OctetMod - 1)
  BY TaskInHand DEF Insert, critical
<1>1. /\ f \in Flow /\ Dispatch[f] = w /\ octets \in Nat /\ ~ Unreset(w)
      /\ table[w] \in Tables /\ ~ lookupFlow(table[w], f)
  BY TaskInHand, CriticalIsReset DEF Insert, critical, DataInv, DataTypes, ShieldingStable
<1>2. /\ offered' = [offered EXCEPT ![f] = @ + octets]
      /\ UNCHANGED <<dropped, offeredThen, droppedThen>>
  BY AccountsDecided DEF AccountInv, Insert, analyzerVars
<1>3. /\ table' = [table EXCEPT ![w] = new]
      /\ UNCHANGED <<count, threshold, results, anPc, anIdx, t_threshold, old_t_threshold>>
  BY DEF Insert, analyzerVars, tvars
<1> HIDE DEF f, octets
<1>4. new \in Tables /\ lookupFlow(new, f)
  BY <1>0, <1>1, InsertTyped
<1>5. new = [table[w] EXCEPT ![f] = [dOctets |-> octets, dPkts |-> 1, cycles |-> 0]]
  BY <1>1 DEF insertFlow
<1>6. new[f].dOctets = octets
  BY <1>1, <1>5 DEF Tables
<1>7. \A g \in Flow : g # f => new[g] = table[w][g]
  BY <1>1, <1>5 DEF Tables
<1>8. new[f].dOctets = Residue((offered[f] + octets) - dropped[f])
  <2>1. (offered[f] + octets) - dropped[f] = octets
    BY <1>1 DEF AccountInv, AccountTypes, EntriesTrue
  <2>2. octets < OctetMod
    BY <1>0, TableAssumption
  <2>3. octets % OctetMod = octets
    BY <1>1, <2>2, WrapOnce
  <2>4. QED
    BY <1>6, <2>1, <2>3 DEF Residue
<1> HIDE DEF new
<1>9. Stores(w, f, octets, new)
  BY <1>1, <1>2, <1>3, <1>4, <1>7, <1>8 DEF Stores
<1>10. QED
  BY <1>9, AccountStored

(* A worker drops a packet: its octets are in both accounts, and all of    *)
(* them in the counters of a flow that is alone.                           *)
LEMMA AccountDropped ==
  ASSUME AccountInv, DataInv, NEW w \in Worker, NEW f \in Flow, Dispatch[f] = w,
         NEW octets \in Nat, ~ Unreset(w), ~ lookupFlow(table[w], f),
         ~ Passes(count[w], threshold[w], f, octets),
         count' = [count EXCEPT ![w] = Charged(@, threshold[w], f, octets)],
         offered' = [offered EXCEPT ![f] = @ + octets],
         dropped' = [dropped EXCEPT ![f] = @ + octets],
         UNCHANGED <<offeredThen, droppedThen, table, threshold, results, anPc, anIdx,
                     t_threshold, old_t_threshold>>
  PROVE  AccountInv'
<1>1. /\ AccountTypes /\ count[w] \in Counters /\ threshold[w] \in Nat
      /\ \A g \in Flow : Dispatch[g] \in Worker
  BY FarmAssumption DEF AccountInv, DataInv, DataTypes
<1>2. /\ offered'[f] = offered[f] + octets /\ dropped'[f] = dropped[f] + octets
      /\ \A g \in Flow : g # f => offered'[g] = offered[g] /\ dropped'[g] = dropped[g]
  BY <1>1 DEF AccountTypes
<1> DEFINE new == Charged(count[w], threshold[w], f, octets)
<1>3. count'[w] = new /\ \A v \in Worker : v # w => count'[v] = count[v]
  BY DEF DataInv, DataTypes
<1>4. \A v \in Worker : (Seen(v)' <=> Seen(v)) /\ (Unreset(v)' <=> Unreset(v))
  BY DEF Seen, Unreset
<1> HIDE DEF new
<1>5. AccountTypes'
  <2>1. offered' \in [Flow -> Nat] /\ dropped' \in [Flow -> Nat]
    BY <1>1 DEF AccountTypes
  <2>2. \A g \in Flow : dropped'[g] <= offered'[g]
    BY <1>1, <1>2 DEF AccountTypes
  <2>3. QED
    BY <1>1, <2>1, <2>2 DEF AccountTypes
<1>6. EntriesTrue'
  BY <1>1, <1>2 DEF AccountInv, EntriesTrue, lookupFlow
<1>7. ResultsTrue'
  <2>1. Limit' = Limit
    BY DEF Limit
  <2>2. QED
    BY <1>4, <2>1, ResultsKept DEF AccountInv
<1>8. CountersWithin'
  <2>1. \A i \in Stage : \A b \in Bucket : count[w][i][b] <= threshold[w]
    BY DEF AccountInv, CountersWithin
  <2>2. \A i \in Stage : \A b \in Bucket : new[i][b] <= threshold[w]
    BY <1>1, <2>1, ChargedWithin DEF new
  <2>3. ASSUME NEW v \in Worker, NEW i \in Stage, NEW b \in Bucket
        PROVE  count'[v][i][b] <= threshold[v]
    <3>1. CASE v = w
      BY <1>3, <2>2, <3>1
    <3>2. CASE v # w
      BY <1>3, <3>2 DEF AccountInv, CountersWithin
    <3>3. QED
      BY <3>1, <3>2
  <2>4. QED
    BY <2>3 DEF CountersWithin
<1>9. LoneExact'
  <2>1. ASSUME NEW g \in Flow, AloneAtWorker(g), NEW i \in Stage
        PROVE  count'[Dispatch[g]][i][Hash[i][g]] = Charge(g)'
    <3>1. Hash[i][g] \in Bucket
      BY FilterAssumption
    <3>2. \A j \in Stage : count[Dispatch[g]][j][Hash[j][g]] = Charge(g)
      BY <2>1 DEF AccountInv, LoneExact
    <3>3. CASE g = f
      <4>1. \A j \in Stage : count[w][j][Hash[j][f]] = dropped[f]
        BY <3>2, <3>3 DEF Charge
      <4>2. dropped[f] \in Nat
        BY <1>1 DEF AccountTypes
      <4>3. \A j \in Stage : new[j][Hash[j][f]] = dropped[f] + octets
        BY <1>1, <4>1, <4>2, ChargedEvenly DEF new
      <4>4. Charge(g)' = dropped'[f]
        BY <1>1, <1>4, <3>3 DEF Charge
      <4>5. QED
        BY <1>2, <1>3, <3>3, <4>3, <4>4
    <3>4. CASE g # f /\ Dispatch[g] = w
      <4>1. Hash[i][f] # Hash[i][g]
        BY <2>1, <3>4 DEF AloneAtWorker
      <4>2. new[i][Hash[i][g]] = count[w][i][Hash[i][g]]
        BY <1>1, <3>1, <4>1, ChargedElsewhere DEF new
      <4>3. Charge(g)' = Charge(g)
        BY <1>2, <1>4, <3>4 DEF Charge
      <4>4. QED
        BY <1>3, <3>2, <3>4, <4>2, <4>3
    <3>5. CASE Dispatch[g] # w
      <4>1. g # f
        BY <3>5
      <4>2. Charge(g)' = Charge(g)
        BY <1>1, <1>2, <1>4, <4>1 DEF Charge
      <4>3. QED
        BY <1>1, <1>3, <3>2, <3>5, <4>2
    <3>6. QED
      BY <3>3, <3>4, <3>5
  <2>2. QED
    BY <2>1 DEF LoneExact, AloneAtWorker
<1>10. NothingSince'
  BY <1>1, <1>2, <1>4 DEF AccountInv, NothingSince
<1>11. EntriesSwept'
  <2>1. \A g \in Flow : Counted(g)' = Counted(g)
    BY DEF Counted
  <2>2. QED
    BY <1>1, <1>4, <2>1, SweptKept DEF AccountInv, lookupFlow
<1>12. QED
  BY <1>5, <1>6, <1>7, <1>8, <1>9, <1>10, <1>11 DEF AccountInv

(* ... and of one that the filter saw. *)
LEMMA AccountFilter ==
  ASSUME AccountInv, Below, DataInv, Account, NEW w \in Worker, Filter(w)
  PROVE  AccountInv'
<1> DEFINE f == wTask[w].fid
           octets == wTask[w].dOctets
<1>1. /\ f \in Flow /\ Dispatch[f] = w /\ octets \in Nat /\ ~ Unreset(w)
      /\ ~ lookupFlow(table[w], f)
  BY TaskInHand, CriticalIsReset DEF Filter, critical, DataInv, ShieldingStable
<1>2. /\ wPc[w] = "filter"
      /\ UNCHANGED <<table, threshold, results, anPc, anIdx, t_threshold, old_t_threshold>>
  BY DEF Filter, analyzerVars, tvars
<1>3. CASE Passes(count[w], threshold[w], f, octets)
  <2>1. UNCHANGED count
    BY <1>3 DEF Filter, DataInv, DataTypes
  <2>2. wPc' = [wPc EXCEPT ![w] = "insert"]
    BY <1>3 DEF Filter
  <2>3. \A v \in Worker : ~ Decides(v)
    BY <2>2 DEF Decides, Below, ControlInv, ControlTypes
  <2>4. UNCHANGED accounts
    BY <1>2, <2>3, AccountsIdle DEF AccountInv, Idle, Cleans
  <2>5. QED
    BY <1>2, <2>1, <2>4, AccountUnchanged DEF Seen, Unreset, Limit
<1>4. CASE ~ Passes(count[w], threshold[w], f, octets)
  <2>1. count' = [count EXCEPT ![w] = Charged(@, threshold[w], f, octets)]
    BY <1>4 DEF Filter
  <2>2. wPc' = [wPc EXCEPT ![w] = "unlock"]
    BY <1>4 DEF Filter
  <2>3. /\ offered' = [offered EXCEPT ![f] = @ + octets]
        /\ dropped' = [dropped EXCEPT ![f] = @ + octets]
        /\ UNCHANGED <<offeredThen, droppedThen>>
    BY <1>2, <2>2, AccountsDecided DEF AccountInv
  <2> HIDE DEF f, octets
  <2>4. QED
    BY <1>1, <1>2, <1>4, <2>1, <2>3, AccountDropped
<1>5. QED
  BY <1>3, <1>4

-----------------------------------------------------------------------------
(* A flow without octets leaves none. *)
LEMMA ResidueOfNone == Residue(0) = 0
BY WrapOnce, TableAssumption DEF Residue

(* The analyzer's way through the tables. *)
LEMMA SeenNext ==
  ASSUME Below, CleanNext
  PROVE  /\ \A w \in Worker : Seen(w) <=> w < anIdx
         /\ \A w \in Worker : Unreset(w) <=> w < anIdx
         /\ \A w \in Worker : Seen(w)' <=> w <= anIdx
         /\ \A w \in Worker : Unreset(w)' <=> w <= anIdx
         /\ Limit = t_threshold /\ Limit' = t_threshold
<1>1. anPc = "clean" /\ anIdx \in Worker /\ NextIndexOr("adapt") /\ UNCHANGED t_threshold
  BY DEF CleanNext, tvars, Below, ControlInv, ControlTypes
<1>2. \A w \in Worker : w \in Nat /\ w <= NumWorkers
  BY FarmAssumption DEF Worker
<1>3. CASE anIdx < NumWorkers
  <2>1. anPc' = "clean" /\ anIdx' = anIdx + 1
    BY <1>1, <1>3 DEF NextIndexOr
  <2>2. QED
    BY <1>1, <1>2, <2>1 DEF Seen, Unreset, Limit
<1>4. CASE ~ (anIdx < NumWorkers)
  <2>1. anPc' = "adapt" /\ \A w \in Worker : w <= anIdx
    BY <1>1, <1>2, <1>4, FarmAssumption DEF NextIndexOr
  <2>2. QED
    BY <1>1, <1>2, <2>1 DEF Seen, Unreset, Limit
<1>5. QED
  BY <1>3, <1>4

(* The results it adds are those of the heavy flows of the table. *)
LEMMA ResultsAdded ==
  ASSUME Below, DataInv, CleanNext
  PROVE  \A r : r \in results' <=>
                  \/ r \in results
                  \/ \E f \in Flow : /\ Dispatch[f] = anIdx /\ lookupFlow(table[anIdx], f)
                                      /\ table[anIdx][f].dOctets > t_threshold
                                      /\ r = [worker |-> anIdx, fid |-> f, fd |-> table[anIdx][f]]
<1> DEFINE t == table[anIdx]
           found == Collected(t, old_r_threshold, t_threshold)
<1>1. anIdx \in Worker
  BY DEF Below, ControlInv, ControlTypes
<1>2. \A c : c \in found <=> \E f \in Flow : /\ lookupFlow(t, f) /\ t[f].dOctets > t_threshold
                                             /\ c = [fid |-> f, fd |-> t[f]]
  BY DEF Collected, Heavy
<1>3. results' = results \cup {[worker |-> anIdx, fid |-> c.fid, fd |-> c.fd] : c \in found}
  BY DEF CleanNext
<1>4. \A f \in Flow : lookupFlow(t, f) => Dispatch[f] = anIdx
  BY <1>1 DEF DataInv, FlowAffinity
<1> HIDE DEF t, found
<1>5. ASSUME NEW r
      PROVE  r \in {[worker |-> anIdx, fid |-> c.fid, fd |-> c.fd] : c \in found}
               <=> \E f \in Flow : /\ lookupFlow(t, f) /\ t[f].dOctets > t_threshold
                                  /\ r = [worker |-> anIdx, fid |-> f, fd |-> t[f]]
  <2>1. ASSUME NEW c \in found, r = [worker |-> anIdx, fid |-> c.fid, fd |-> c.fd]
        PROVE  \E f \in Flow : /\ lookupFlow(t, f) /\ t[f].dOctets > t_threshold
                               /\ r = [worker |-> anIdx, fid |-> f, fd |-> t[f]]
    <3>1. PICK f \in Flow : /\ lookupFlow(t, f) /\ t[f].dOctets > t_threshold
                            /\ c = [fid |-> f, fd |-> t[f]]
      BY <1>2
    <3>2. c.fid = f /\ c.fd = t[f]
      BY <3>1
    <3>3. QED
      BY <2>1, <3>1, <3>2
  <2>2. ASSUME NEW f \in Flow, lookupFlow(t, f), t[f].dOctets > t_threshold,
               r = [worker |-> anIdx, fid |-> f, fd |-> t[f]]
        PROVE  \E c \in found : r = [worker |-> anIdx, fid |-> c.fid, fd |-> c.fd]
    <3> DEFINE c == [fid |-> f, fd |-> t[f]]
    <3>1. c \in found /\ c.fid = f /\ c.fd = t[f]
      BY <1>2, <2>2
    <3>2. QED
      BY <2>2, <3>1
  <2>3. QED
    BY <2>1, <2>2
<1>6. QED
  BY <1>3, <1>4, <1>5 DEF t

(* The table is cleaned, its results collected, its accounts set aside. *)
LEMMA AccountClean ==
  ASSUME AccountInv, Below, DataInv, Account, CleanNext
  PROVE  AccountInv'
<1> DEFINE new == Cleaned(table[anIdx], old_r_threshold, t_threshold)
<1>1. /\ offered' = [f \in Flow |-> IF Dispatch[f] = anIdx THEN 0 ELSE offered[f]]
      /\ dropped' = [f \in Flow |-> IF Dispatch[f] = anIdx THEN 0 ELSE dropped[f]]
      /\ offeredThen' = [f \in Flow |-> IF Dispatch[f] = anIdx THEN offered[f] ELSE offeredThen[f]]
      /\ droppedThen' = [f \in Flow |-> IF Dispatch[f] = anIdx THEN dropped[f] ELSE droppedThen[f]]
  BY AccountsCleaned DEF AccountInv
<1>2. /\ anIdx \in Worker /\ \A f \in Flow : Dispatch[f] \in Worker
      /\ AccountTypes /\ t_threshold \in Nat
      /\ \A w \in Worker : w \in Nat
  BY FarmAssumption, ThresholdAssumption
     DEF Below, ControlInv, ControlTypes, AccountInv, DataInv, TInv, ThresholdTypeOK, Worker
<1>3. /\ table'[anIdx] = new /\ \A w \in Worker : w # anIdx => table'[w] = table[w]
      /\ UNCHANGED <<count, threshold>>
  BY <1>2 DEF CleanNext, DataInv, DataTypes
<1>4. AccountTypes'
  <2>1. /\ offered' \in [Flow -> Nat] /\ dropped' \in [Flow -> Nat]
        /\ offeredThen' \in [Flow -> Nat] /\ droppedThen' \in [Flow -> Nat]
    BY <1>1, <1>2 DEF AccountTypes
  <2>2. \A f \in Flow : dropped'[f] <= offered'[f] /\ droppedThen'[f] <= offeredThen'[f]
    BY <1>1, <1>2 DEF AccountTypes
  <2>3. QED
    BY <2>1, <2>2 DEF AccountTypes
<1>5. EntriesTrue'
  <2>1. ASSUME NEW f \in Flow
        PROVE  /\ lookupFlow(table'[Dispatch[f]], f) =>
                     table'[Dispatch[f]][f].dOctets = Residue(offered'[f] - dropped'[f])
               /\ ~ lookupFlow(table'[Dispatch[f]], f) => offered'[f] = dropped'[f]
    <3>1. CASE Dispatch[f] = anIdx
      <4>1. offered'[f] = 0 /\ dropped'[f] = 0
        BY <1>1, <3>1
      <4>2. lookupFlow(new, f) => new[f].dOctets = 0
        BY DEF Cleaned, lookupFlow
      <4>3. QED
        BY <1>3, <3>1, <4>1, <4>2, ResidueOfNone
    <3>2. CASE Dispatch[f] # anIdx
      BY <1>1, <1>2, <1>3, <3>2 DEF AccountInv, EntriesTrue
    <3>3. QED
      BY <3>1, <3>2
  <2>2. QED
    BY <2>1 DEF EntriesTrue, Residue, lookupFlow
<1>6. /\ \A f \in Flow : Dispatch[f] = anIdx => Counted(f)' = offered[f] - dropped[f]
      /\ \A f \in Flow : Dispatch[f] # anIdx => Counted(f)' = Counted(f)
  BY <1>1 DEF Counted
<1>7. \A r \in results : r.fid \in Flow /\ Dispatch[r.fid] < anIdx
  <2>1. ASSUME NEW r \in results
        PROVE  r.fid \in Flow /\ Dispatch[r.fid] < anIdx
    <3>1. r.fid \in Flow /\ Reported(r.fid)
      BY DEF AccountInv, ResultsTrue, Reported
    <3>2. Seen(Dispatch[r.fid])
      BY <3>1 DEF AccountInv, ResultsTrue
    <3>3. QED
      BY <1>2, <3>1, <3>2, SeenNext
  <2>2. QED
    BY <2>1
<1>8. ResultsTrue'
  <2>1. \A f \in Flow : /\ Dispatch[f] = anIdx /\ lookupFlow(table[anIdx], f)
                         => table[anIdx][f].dOctets = Residue(Counted(f)')
    BY <1>6 DEF AccountInv, EntriesTrue
  <2>2. ASSUME NEW f \in Flow
        PROVE  Reported(f)' <=> Seen(Dispatch[f])' /\ Residue(Counted(f)') > Limit'
    <3>1. CASE Dispatch[f] = anIdx
      <4>1. ~ Reported(f)
        BY <1>2, <1>7, <3>1 DEF Reported
      <4>2. Reported(f)' <=> /\ lookupFlow(table[anIdx], f)
                             /\ table[anIdx][f].dOctets > t_threshold
        <5>1. ASSUME NEW r \in results', r.fid = f
              PROVE  lookupFlow(table[anIdx], f) /\ table[anIdx][f].dOctets > t_threshold
          <6>1. r \notin results
            BY <4>1, <5>1 DEF Reported
          <6>2. PICK g \in Flow : /\ lookupFlow(table[anIdx], g)
                                  /\ table[anIdx][g].dOctets > t_threshold
                                  /\ r = [worker |-> anIdx, fid |-> g, fd |-> table[anIdx][g]]
            BY <6>1, ResultsAdded
          <6>3. g = f
            BY <5>1, <6>2
          <6>4. QED
            BY <6>2, <6>3
        <5>2. ASSUME lookupFlow(table[anIdx], f), table[anIdx][f].dOctets > t_threshold
              PROVE  \E r \in results' : r.fid = f
          <6> DEFINE r == [worker |-> anIdx, fid |-> f, fd |-> table[anIdx][f]]
          <6>1. r \in results' /\ r.fid = f
            BY <3>1, <5>2, ResultsAdded
          <6>2. QED
            BY <6>1
        <5>3. QED
          BY <5>1, <5>2 DEF Reported
      <4>3. Seen(Dispatch[f])' /\ Limit' = t_threshold
        BY <1>2, <3>1, SeenNext
      <4>4. ~ lookupFlow(table[anIdx], f) => Counted(f)' = 0
        BY <1>2, <1>6, <3>1 DEF AccountInv, EntriesTrue, AccountTypes
      <4>5. ~ lookupFlow(table[anIdx], f) => ~ (Residue(Counted(f)') > t_threshold)
        BY <1>2, <4>4, ResidueOfNone
      <4>6. QED
        BY <2>1, <3>1, <4>2, <4>3, <4>5
    <3>2. CASE Dispatch[f] # anIdx
      <4>1. Reported(f)' <=> Reported(f)
        BY <3>2, ResultsAdded DEF Reported
      <4>2. Seen(Dispatch[f])' <=> Seen(Dispatch[f])
        BY <1>2, <3>2, SeenNext
      <4>3. Reported(f) <=> Seen(Dispatch[f]) /\ Residue(Counted(f)) > Limit
        BY DEF AccountInv, ResultsTrue
      <4>4. Counted(f)' = Counted(f) /\ Limit' = Limit
        BY <1>6, <3>2, SeenNext
      <4>5. QED
        BY <4>1, <4>2, <4>3, <4>4
    <3>3. QED
      BY <3>1, <3>2
  <2>3. ASSUME NEW r \in results'
        PROVE  r.fid \in Flow /\ r.fd.dOctets = Residue(Counted(r.fid)')
    <3>1. CASE r \in results
      <4>1. r.fid \in Flow /\ Dispatch[r.fid] # anIdx /\ r.fd.dOctets = Residue(Counted(r.fid))
        BY <1>2, <1>7, <3>1 DEF AccountInv, ResultsTrue
      <4>2. QED
        BY <1>6, <4>1
    <3>2. CASE r \notin results
      BY <2>1, <3>2, ResultsAdded
    <3>3. QED
      BY <3>1, <3>2
  <2>4. ASSUME NEW r \in results', NEW q \in results', r.fid = q.fid
        PROVE  r = q
    <3>1. r \in results \/ Dispatch[r.fid] = anIdx
      BY ResultsAdded
    <3>2. q \in results \/ Dispatch[q.fid] = anIdx
      BY ResultsAdded
    <3>3. CASE r \in results /\ q \in results
      BY <2>4, <3>3 DEF AccountInv, ResultsTrue
    <3>4. CASE r \notin results /\ q \notin results
      BY <2>4, <3>4, ResultsAdded
    <3>5. QED
      BY <1>2, <1>7, <2>4, <3>1, <3>2, <3>3, <3>4
  <2>5. QED
    BY <2>2, <2>3, <2>4 DEF ResultsTrue, Residue
<1>9. CountersWithin'
  BY <1>3 DEF AccountInv, CountersWithin
<1>10. LoneExact' /\ NothingSince'
  <2>1. ASSUME NEW f \in Flow
        PROVE  Charge(f)' = Charge(f)
    <3>1. CASE Dispatch[f] = anIdx
      <4>1. Unreset(Dispatch[f])' /\ ~ Unreset(Dispatch[f])
        BY <1>2, <3>1, SeenNext
      <4>2. QED
        BY <1>1, <3>1, <4>1 DEF Charge
    <3>2. CASE Dispatch[f] # anIdx
      <4>1. Unreset(Dispatch[f])' <=> Unreset(Dispatch[f])
        BY <1>2, <3>2, SeenNext
      <4>2. QED
        BY <1>1, <3>2, <4>1 DEF Charge
    <3>3. QED
      BY <3>1, <3>2
  <2>2. LoneExact'
    BY <1>3, <2>1 DEF AccountInv, LoneExact
  <2>3. NothingSince'
    <3>1. ASSUME NEW f \in Flow, Unreset(Dispatch[f])'
          PROVE  offered'[f] = 0 /\ dropped'[f] = 0
      <4>1. CASE Dispatch[f] = anIdx
        BY <1>1, <4>1
      <4>2. CASE Dispatch[f] # anIdx
        <5>1. Unreset(Dispatch[f])
          BY <1>2, <3>1, <4>2, SeenNext
        <5>2. QED
          BY <1>1, <4>2, <5>1 DEF AccountInv, NothingSince
      <4>3. QED
        BY <4>1, <4>2
    <3>2. QED
      BY <3>1 DEF NothingSince
  <2>4. QED
    BY <2>2, <2>3
<1>11. EntriesSwept'
  <2> HIDE DEF new
  <2>1. ASSUME NEW f \in Flow, Dispatch[f] = anIdx
        PROVE  /\ Reported(f)' => lookupFlow(new, f)
               /\ lookupFlow(new, f) => /\ new[f].dOctets = 0 /\ Residue(Counted(f)') > 0
                                        /\ Reported(f)' \/ new[f].cycles = 1
    <3>1. Seen(Dispatch[f])' /\ Limit' = t_threshold
      BY <1>2, <2>1, SeenNext
    <3>2. Reported(f)' <=> Residue(Counted(f)') > t_threshold
      BY <1>8, <3>1 DEF ResultsTrue, Residue
    <3>3. /\ lookupFlow(table[anIdx], f) => table[anIdx][f].dOctets = Residue(Counted(f)')
          /\ ~ lookupFlow(table[anIdx], f) => Counted(f)' = 0
      BY <1>2, <1>6, <2>1 DEF AccountInv, EntriesTrue, AccountTypes
    <3> DEFINE counted == Residue(Counted(f)')
    <3>4. /\ lookupFlow(new, f) <=>
               /\ lookupFlow(table[anIdx], f)
               /\ \/ table[anIdx][f].dOctets > t_threshold
                  \/ EarlyKept(table[anIdx][f], old_r_threshold, t_threshold)
          /\ lookupFlow(new, f) =>
               new[f].dOctets = 0 /\ new[f].cycles = table[anIdx][f].cycles + 1
      BY <1>2, CleanedEntry DEF new, DataInv, DataTypes
    <3>5. counted > t_threshold => lookupFlow(table[anIdx], f)
      BY <1>2, <3>3, ResidueOfNone
    <3>6. old_r_threshold \in Nat /\ counted \in Nat
      <4>1. Counted(f)' \in Nat
        BY <1>4 DEF AccountTypes, Counted
      <4>2. QED
        BY <4>1, WrapOnce, ThresholdAssumption, TableAssumption
           DEF DataInv, TInv, ThresholdTypeOK, Residue
    <3> HIDE DEF counted
    <3>7. Reported(f)' => lookupFlow(new, f)
      BY <3>2, <3>3, <3>4, <3>5 DEF counted
    <3>8. ASSUME lookupFlow(new, f)
          PROVE  counted > 0 /\ (counted > t_threshold \/ table[anIdx][f].cycles = 0)
      BY <1>2, <3>3, <3>4, <3>6, <3>8 DEF EarlyKept, counted
    <3>9. ASSUME lookupFlow(new, f), ~ Reported(f)'
          PROVE  new[f].cycles = 1
      BY <3>2, <3>4, <3>8, <3>9 DEF counted
    <3>10. QED
      BY <3>4, <3>7, <3>8, <3>9 DEF counted
  <2>2. ASSUME NEW f \in Flow, Dispatch[f] # anIdx
        PROVE  /\ Reported(f)' <=> Reported(f)
               /\ Unreset(Dispatch[f])' <=> Unreset(Dispatch[f])
               /\ table'[Dispatch[f]] = table[Dispatch[f]] /\ Counted(f)' = Counted(f)
    <3>1. Reported(f)' <=> Reported(f)
      BY <2>2, ResultsAdded DEF Reported
    <3>2. Unreset(Dispatch[f])' <=> Unreset(Dispatch[f])
      BY <1>2, <2>2, SeenNext
    <3>3. QED
      BY <1>2, <1>3, <1>6, <2>2, <3>1, <3>2
  <2>3. ASSUME NEW f \in Flow
        PROVE  /\ Reported(f)' => lookupFlow(table'[Dispatch[f]], f)
               /\ Unreset(Dispatch[f])' /\ lookupFlow(table'[Dispatch[f]], f) =>
                    /\ table'[Dispatch[f]][f].dOctets = 0 /\ Residue(Counted(f)') > 0
                    /\ Reported(f)' \/ table'[Dispatch[f]][f].cycles = 1
    <3>1. CASE Dispatch[f] = anIdx
      BY <1>3, <2>1, <3>1
    <3>2. CASE Dispatch[f] # anIdx
      BY <2>2, <3>2 DEF AccountInv, EntriesSwept
    <3>3. QED
      BY <3>1, <3>2
  <2>4. QED
    BY <2>3 DEF EntriesSwept, Residue, lookupFlow
<1>12. QED
  BY <1>4, <1>5, <1>8, <1>9, <1>10, <1>11 DEF AccountInv

(* The analyzer resets the filter of a worker, which has decided on        *)
(* nothing since its table was cleaned.                                    *)
LEMMA AccountRefilter ==
  ASSUME AccountInv, Below, DataInv, Account, RefilterNext
  PROVE  AccountInv'
<1>1. /\ anPc = "refilter" /\ anPc' \in {"refilter", "unlock"} /\ anIdx \in Worker
      /\ NextIndexOr("unlock")
      /\ UNCHANGED <<wPc, table, results, t_threshold, old_t_threshold>>
  BY DEF RefilterNext, NextIndexOr, workerVars, tvars, Below, ControlInv, ControlTypes
<1>2. UNCHANGED accounts
  BY <1>1, AccountsIdle DEF AccountInv, Idle, Decides, Cleans
<1>3. /\ \A f \in Flow : Dispatch[f] \in Worker
      /\ \A w \in Worker : w \in Nat /\ w <= NumWorkers
  BY FarmAssumption DEF Worker
<1>4. /\ \A w \in Worker : (Seen(w)' <=> Seen(w))
      /\ \A w \in Worker : Unreset(w) <=> anIdx <= w
      /\ \A w \in Worker : Unreset(w)' <=> anIdx < w
      /\ Limit' = Limit
  <2>1. CASE anIdx < NumWorkers
    <3>1. anPc' = "refilter" /\ anIdx' = anIdx + 1
      BY <1>1, <2>1 DEF NextIndexOr
    <3>2. QED
      BY <1>1, <1>3, <3>1 DEF Seen, Unreset, Limit
  <2>2. CASE ~ (anIdx < NumWorkers)
    <3>1. anPc' = "unlock"
      BY <1>1, <2>2 DEF NextIndexOr
    <3>2. \A w \in Worker : ~ (anIdx < w)
      BY <1>1, <1>3, <2>2, FarmAssumption
    <3>3. QED
      BY <1>1, <3>1, <3>2 DEF Seen, Unreset, Limit
  <2>3. QED
    BY <2>1, <2>2
<1>5. /\ count'[anIdx] = ZeroCounters /\ threshold'[anIdx] = UpdatedThreshold(t_threshold)
      /\ \A w \in Worker : w # anIdx => count'[w] = count[w] /\ threshold'[w] = threshold[w]
  BY <1>1 DEF RefilterNext, DataInv, DataTypes
<1>6. AccountTypes' /\ EntriesTrue'
  BY <1>1, <1>2 DEF AccountInv, accounts, AccountTypes, EntriesTrue, lookupFlow
<1>7. ResultsTrue'
  BY <1>1, <1>2, <1>4, ResultsKept DEF AccountInv, accounts
<1>8. CountersWithin'
  <2>1. UpdatedThreshold(t_threshold) \in Nat
    BY DEF UpdatedThreshold
  <2>2. ASSUME NEW w \in Worker, NEW i \in Stage, NEW b \in Bucket
        PROVE  count'[w][i][b] <= threshold'[w]
    BY <1>5, <2>1 DEF ZeroCounters, AccountInv, CountersWithin
  <2>3. QED
    BY <2>2 DEF CountersWithin
<1>9. NothingSince'
  BY <1>1, <1>2, <1>3, <1>4 DEF AccountInv, NothingSince, accounts, Worker
<1>10. LoneExact'
  <2>1. ASSUME NEW f \in Flow, AloneAtWorker(f), NEW i \in Stage
        PROVE  count'[Dispatch[f]][i][Hash[i][f]] = Charge(f)'
    <3>1. CASE Dispatch[f] = anIdx
      <4>1. Unreset(Dispatch[f]) /\ ~ Unreset(Dispatch[f])'
        BY <1>1, <1>3, <1>4, <3>1
      <4>2. Charge(f)' = dropped[f] /\ dropped[f] = 0
        BY <1>2, <4>1 DEF Charge, accounts, AccountInv, NothingSince
      <4>3. Hash[i][f] \in Bucket
        BY FilterAssumption
      <4>4. QED
        BY <1>5, <3>1, <4>2, <4>3 DEF ZeroCounters
    <3>2. CASE Dispatch[f] # anIdx
      <4>1. Unreset(Dispatch[f])' <=> Unreset(Dispatch[f])
        BY <1>1, <1>3, <1>4, <3>2
      <4>2. Charge(f)' = Charge(f)
        BY <1>2, <4>1 DEF Charge, accounts
      <4>3. count[Dispatch[f]][i][Hash[i][f]] = Charge(f)
        BY <2>1 DEF AccountInv, LoneExact
      <4>4. QED
        BY <1>3, <1>5, <3>2, <4>2, <4>3
    <3>3. QED
      BY <3>1, <3>2
  <2>2. QED
    BY <2>1 DEF LoneExact, AloneAtWorker
<1>11. EntriesSwept'
  <2>1. \A f \in Flow : Counted(f)' = Counted(f)
    BY <1>2 DEF Counted, accounts
  <2>2. \A f \in Flow : Unreset(Dispatch[f])' => Unreset(Dispatch[f])
    BY <1>1, <1>3, <1>4
  <2>3. QED
    BY <1>1, <2>1, <2>2, SweptKept DEF AccountInv, lookupFlow
<1>12. QED
  BY <1>6, <1>7, <1>8, <1>9, <1>10, <1>11 DEF AccountInv

(* The report is written, and its accounts are closed. *)
LEMMA AccountExport ==
  ASSUME AccountInv, Below, Account, ExportResults
  PROVE  AccountInv'
<1>1. /\ anPc = "flush" /\ anPc' = "loop" /\ results' = {}
      /\ UNCHANGED <<wPc, table, count, threshold>>
  BY DEF ExportResults, farmVars, workerVars, dataVars
<1>2. \A f \in Flow : Dispatch[f] \in Worker
  BY FarmAssumption
<1>3. \A f \in Flow : Offered(f) = 0 /\ Dropped(f) = 0 /\ ~ Cleans(Dispatch[f])
  BY <1>1 DEF Offered, Dropped, Decides, Cleans
<1>4. /\ offered' = [f \in Flow |-> offered[f]] /\ dropped' = [f \in Flow |-> dropped[f]]
      /\ offeredThen' = NoOctets /\ droppedThen' = NoOctets
  BY <1>1, <1>3 DEF Account, AccountInv, AccountTypes
<1>5. UNCHANGED <<offered, dropped>>
  BY <1>4 DEF AccountInv, AccountTypes
<1>6. AccountTypes'
  <2>1. \A f \in Flow : offeredThen'[f] = 0 /\ droppedThen'[f] = 0
    BY <1>4 DEF NoOctets
  <2>2. offeredThen' \in [Flow -> Nat] /\ droppedThen' \in [Flow -> Nat]
    BY <1>4 DEF NoOctets
  <2>3. QED
    BY <1>5, <2>1, <2>2 DEF AccountInv, AccountTypes
<1>7. \A w \in Worker : ~ Unreset(w) /\ ~ Unreset(w)' /\ ~ Seen(w)'
  BY <1>1 DEF Unreset, Seen
<1>8. ResultsTrue'
  BY <1>1, <1>2, <1>7 DEF ResultsTrue, Reported
<1>9. EntriesTrue' /\ CountersWithin'
  BY <1>1, <1>5 DEF AccountInv, EntriesTrue, CountersWithin, lookupFlow
<1>10. LoneExact' /\ NothingSince'
  BY <1>1, <1>2, <1>5, <1>7 DEF AccountInv, LoneExact, NothingSince, Charge
<1>11. EntriesSwept'
  BY <1>1, <1>2, <1>7 DEF EntriesSwept, Reported
<1>12. QED
  BY <1>6, <1>8, <1>9, <1>10, <1>11 DEF AccountInv

(* The steps that leave tables, filters and results alone. *)
LEMMA AccountIdle ==
  ASSUME AccountInv, Account, Idle, UNCHANGED <<table, count, threshold, results>>,
         \A w \in Worker : (Seen(w)' <=> Seen(w)) /\ (Unreset(w)' <=> Unreset(w)),
         (\E w \in Worker : Seen(w)) => Limit' = Limit
  PROVE  AccountInv'
BY AccountsIdle, AccountUnchanged DEF AccountInv

(* Every step of a worker ... *)
LEMMA AccountWorker ==
  ASSUME AccountInv, Below, DataInv, Account, NEW w \in Worker, WorkerStep(w)
  PROVE  AccountInv'
<1>1. CASE TakeTask(w) \/ EndOfStream(w) \/ LockSelf(w) \/ Lookup(w) \/ UnlockSelf(w)
  <2>1. UNCHANGED <<table, count, threshold, results, anPc, anIdx, t_threshold, old_t_threshold>>
    BY <1>1 DEF TakeTask, EndOfStream, LockSelf, Lookup, UnlockSelf, dataVars, analyzerVars, tvars
  <2>2. \A v \in Worker : ~ Decides(v)
    BY <1>1 DEF TakeTask, EndOfStream, LockSelf, Lookup, UnlockSelf, Decides, Below, ControlInv,
                ControlTypes
  <2>3. Idle
    BY <2>1, <2>2 DEF Idle, Cleans
  <2>4. QED
    BY <2>1, <2>3, AccountIdle DEF Seen, Unreset, Limit
<1>2. CASE Update(w) \/ Filter(w) \/ Insert(w)
  BY <1>2, AccountUpdate, AccountFilter, AccountInsert
<1>3. QED
  BY <1>1, <1>2 DEF WorkerStep

(* ... of the analyzer ... *)
LEMMA AccountAnalyzer ==
  ASSUME AccountInv, Below, DataInv, Account,
         LoopTest \/ TimeUp \/ SignalReceived \/ WaitInterrupted \/ Analysis
  PROVE  AccountInv'
<1>1. CASE LoopTest \/ TimeUp \/ SignalReceived \/ WaitInterrupted
  <2>1. /\ anPc \in {"loop", "wait"} /\ anPc' \in {"ended", "wait", "lock", "loop"}
        /\ UNCHANGED <<wPc, table, count, threshold, results>>
    BY <1>1 DEF LoopTest, TimeUp, SignalReceived, WaitInterrupted, farmVars, workerVars, dataVars
  <2>2. QED
    BY <2>1, AccountIdle DEF Idle, Decides, Cleans, Seen, Unreset
<1>2. CASE LockNext
  <2>1. /\ anPc = "lock" /\ NextIndexOr("clean")
        /\ UNCHANGED <<wPc, table, count, threshold, results>>
    BY <1>2 DEF LockNext, workerVars, dataVars
  <2>2. \A w \in Worker : ~ (w < 1)
    BY DEF Worker
  <2>3. \A w \in Worker : ~ Seen(w) /\ ~ Seen(w)' /\ ~ Unreset(w) /\ ~ Unreset(w)'
    BY <2>1, <2>2 DEF NextIndexOr, Seen, Unreset
  <2>4. Idle
    BY <2>1 DEF Idle, Decides, Cleans
  <2>5. QED
    BY <2>1, <2>3, <2>4, AccountIdle
<1>3. CASE Adapt
  <2>1. /\ anPc = "adapt" /\ anPc' = "refilter" /\ old_t_threshold' = t_threshold
        /\ UNCHANGED <<wPc, table, count, threshold, results, anIdx>>
    BY <1>3 DEF Adapt, Interval, update_thresholds, farmVars, workerVars, dataVars
  <2>2. anIdx = 1 /\ \A w \in Worker : 1 <= w
    BY <2>1 DEF Worker, Below, ControlInv, IndexReset
  <2>3. QED
    BY <2>1, <2>2, AccountIdle DEF Idle, Decides, Cleans, Seen, Unreset, Limit
<1>4. CASE UnlockNext \/ WriteReport
  <2>1. /\ anPc \in {"unlock", "export"} /\ anPc' \in {"unlock", "export", "flush"}
        /\ UNCHANGED <<wPc, table, count, threshold, results, old_t_threshold>>
    BY <1>4 DEF UnlockNext, WriteReport, NextIndexOr, farmVars, workerVars, dataVars, tvars
  <2>2. QED
    BY <2>1, AccountIdle DEF Idle, Decides, Cleans, Seen, Unreset, Limit
<1>5. CASE CleanNext \/ RefilterNext \/ ExportResults
  BY <1>5, AccountClean, AccountRefilter, AccountExport
<1>6. QED
  BY <1>1, <1>2, <1>3, <1>4, <1>5 DEF Analysis

(* ... and of the farm keeps the invariant. *)
LEMMA AccountStep ==
  ASSUME AccountInv, Below, DataInv, [AccountNext]_accountVars
  PROVE  AccountInv'
<1>1. CASE Account /\ UNCHANGED <<wPc, table, count, threshold, results, anPc, anIdx, t_threshold,
                                 old_t_threshold>>
  <2>1. Idle
    BY <1>1 DEF Idle, Decides, Cleans
  <2>2. QED
    BY <1>1, <2>1, AccountIdle DEF Seen, Unreset, Limit
<1>2. CASE Main /\ Account
  <2>1. CASE Go
    <3>1. /\ anPc \notin {"clean", "adapt", "refilter", "unlock", "export", "flush"}
          /\ anPc' = "loop"
          /\ UNCHANGED <<wPc, table, count, threshold, results>>
      BY <2>1 DEF Go, farmVars, workerVars, dataVars, Below, ControlInv, NotStarted
    <3>2. QED
      BY <1>2, <3>1, AccountIdle DEF Idle, Decides, Cleans, Seen, Unreset
  <2>2. CASE RunFarm
    <3>1. /\ \A w \in Worker : wPc'[w] = "idle"
          /\ UNCHANGED <<table, count, threshold, results, anPc, anIdx>>
          /\ UNCHANGED <<t_threshold, old_t_threshold>>
      BY <2>2 DEF RunFarm, dataVars, analyzerVars, tvars
    <3>2. QED
      BY <1>2, <3>1, AccountIdle DEF Idle, Decides, Cleans, Seen, Unreset, Limit
  <2>3. CASE FarmEnds \/ StopAnalyzer \/ JoinAnalyzer \/ CloseExporter \/ CleanUp \/ Exit
    BY <1>1, <1>2, <2>3 DEF FarmEnds, StopAnalyzer, JoinAnalyzer, CloseExporter, CleanUp, Exit,
                            farmVars, workerVars, dataVars, analyzerVars, tvars
  <2>4. QED
    BY <1>2, <2>1, <2>2, <2>3 DEF Main
<1>3. CASE (RunFails \/ PcapError \/ Send \/ EndOfCapture \/ RaiseSignal) /\ Account
  BY <1>1, <1>3 DEF RunFails, PcapError, Send, EndOfCapture, RaiseSignal, farmVars, workerVars,
                    dataVars, analyzerVars, tvars
<1>4. ASSUME NEW f \in Flow, NEW octets \in Octets, Capture(f, octets), Account
      PROVE  AccountInv'
  BY <1>1, <1>4 DEF Capture, workerVars, dataVars, analyzerVars, tvars
<1>5. ASSUME NEW w \in Worker, WorkerStep(w), Account
      PROVE  AccountInv'
  BY <1>5, AccountWorker
<1>6. CASE (LoopTest \/ TimeUp \/ SignalReceived \/ WaitInterrupted \/ Analysis) /\ Account
  BY <1>6, AccountAnalyzer
<1>7. CASE Gone /\ Account
  BY <1>1, <1>7 DEF Gone, vars, farmVars, workerVars, dataVars, analyzerVars, tvars
<1>8. CASE UNCHANGED accountVars
  BY <1>8, AccountUnchanged DEF accountVars, vars, farmVars, dataVars, analyzerVars, tvars, Seen,
                                Unreset, Limit
<1>9. QED
  BY <1>2, <1>3, <1>4, <1>5, <1>6, <1>7, <1>8 DEF AccountNext, Next

(* The accounts only watch the farm. *)
LEMMA AccountsWatch == AccountSpec => Spec
<1>1. AccountInit => Init
  BY DEF AccountInit
<1>2. [AccountNext]_accountVars => [Next]_vars
  BY DEF AccountNext, accountVars
<1>3. QED
  BY <1>1, <1>2, PTL DEF AccountSpec, Spec

(* So it holds always. *)
LEMMA AccountInvariance == AccountSpec => [](AccountInv /\ Below /\ DataInv)
<1>1. AccountInv /\ Below /\ DataInv /\ [AccountNext]_accountVars => AccountInv'
  BY AccountStep
<1>2. QED
  BY <1>1, AccountInitInv, AccountsWatch, FarmInvariance, PTL DEF AccountSpec

(* The octets of a report lose at most wraps of what was counted. *)
LEMMA CountedOctets ==
  ASSUME AccountInv, NEW f \in Flow
  PROVE  /\ Counted(f) \in Nat /\ Counted(f) <= offeredThen[f]
         /\ Residue(Counted(f)) <= Counted(f)
         /\ Counted(f) < OctetMod => Residue(Counted(f)) = Counted(f)
<1>1. Counted(f) \in Nat /\ Counted(f) <= offeredThen[f]
  BY DEF AccountInv, AccountTypes, Counted
<1>2. QED
  BY <1>1, WrapOnce DEF Residue

(* What is written to the file is true of the packets: the flows reported  *)
(* are those of which more octets than the threshold were counted in the   *)
(* interval, with the octets that were, whatever the workers were doing    *)
(* when the analyzer came to each of their tables.                         *)
THEOREM ReportsTruth == AccountSpec => []ReportsTrue
<1>1. AccountInv => ReportsTrue
  <2> SUFFICES ASSUME AccountInv, anPc \in {"export", "flush"}
               PROVE  /\ \A f \in Flow : Reported(f) <=> Counted(f) % OctetMod > old_t_threshold
                      /\ \A r \in results : /\ r.fd.dOctets = Counted(r.fid) % OctetMod
                                             /\ r.fd.dOctets <= offeredThen[r.fid]
                      /\ \A r, s \in results : r.fid = s.fid => r = s
    BY DEF ReportsTrue
  <2>1. Limit = old_t_threshold /\ \A w \in Worker : Seen(w)
    BY DEF Limit, Seen
  <2>2. \A f \in Flow : Dispatch[f] \in Worker
    BY FarmAssumption
  <2>3. \A f \in Flow : Reported(f) <=> Residue(Counted(f)) > old_t_threshold
    BY <2>1, <2>2 DEF AccountInv, ResultsTrue
  <2>4. ASSUME NEW r \in results
        PROVE  r.fd.dOctets = Residue(Counted(r.fid)) /\ r.fd.dOctets <= offeredThen[r.fid]
    <3>1. r.fid \in Flow /\ r.fd.dOctets = Residue(Counted(r.fid))
      BY DEF AccountInv, ResultsTrue
    <3>2. /\ Residue(Counted(r.fid)) <= Counted(r.fid) /\ Counted(r.fid) <= offeredThen[r.fid]
          /\ Counted(r.fid) \in Nat
      BY <3>1, CountedOctets
    <3>3. offeredThen[r.fid] \in Nat /\ Residue(Counted(r.fid)) \in Nat
      <4>1. Residue(Counted(r.fid)) \in 0..(OctetMod - 1)
        BY <3>2, Wrapped DEF Residue
      <4>2. QED
        BY <3>1, <4>1, TableAssumption DEF AccountInv, AccountTypes
    <3>4. QED
      BY <3>1, <3>2, <3>3
  <2>5. \A r, s \in results : r.fid = s.fid => r = s
    BY DEF AccountInv, ResultsTrue
  <2>6. QED
    BY <2>3, <2>4, <2>5 DEF Residue
<1>2. QED
  BY <1>1, AccountInvariance, PTL

(* A heavy flow that shares no bucket gets through the filter in time to   *)
(* be reported, for every number of stages, workers and flows, and every   *)
(* interleaving.                                                           *)
THEOREM LoneHeavy == AccountSpec => []LoneHeavyReported
<1>1. AccountInv /\ DataInv => LoneHeavyReported
  <2> SUFFICES ASSUME AccountInv, DataInv, anPc = "adapt", NEW f \in Flow,
                      AloneAtWorker(f), Counted(f) < OctetMod,
                      offeredThen[f] > t_threshold + threshold[Dispatch[f]]
               PROVE  Reported(f)
    BY DEF LoneHeavyReported
  <2> DEFINE w == Dispatch[f]
  <2>1. w \in Worker /\ 1 \in Stage /\ Hash[1][f] \in Bucket
    BY FarmAssumption, FilterAssumption DEF Stage
  <2>2. Seen(w) /\ Unreset(w) /\ Limit = t_threshold
    BY DEF Seen, Unreset, Limit
  <2>3. droppedThen[f] = count[w][1][Hash[1][f]]
    BY <2>1, <2>2 DEF AccountInv, LoneExact, Charge
  <2>4. droppedThen[f] <= threshold[w]
    BY <2>1, <2>3 DEF AccountInv, CountersWithin
  <2>5. /\ offeredThen[f] \in Nat /\ droppedThen[f] \in Nat
        /\ t_threshold \in Nat /\ threshold[w] \in Nat
    BY <2>1, ThresholdAssumption
       DEF AccountInv, AccountTypes, DataInv, DataTypes, TInv, ThresholdTypeOK
  <2>6. Counted(f) > t_threshold
    BY <2>4, <2>5 DEF Counted
  <2>7. Residue(Counted(f)) = Counted(f)
    BY CountedOctets
  <2>8. QED
    BY <2>2, <2>6, <2>7 DEF AccountInv, ResultsTrue
<1>2. QED
  BY <1>1, AccountInvariance, PTL

(* What an analysis leaves in the tables of all workers are the flows it   *)
(* reports, which stay shielded, and new ones, all with traffic.           *)
THEOREM Preserved == AccountSpec => []EntriesPreserved
<1>1. AccountInv => EntriesPreserved
  <2>1. SUFFICES ASSUME AccountInv, anPc = "adapt", NEW f \in Flow,
                        lookupFlow(table[Dispatch[f]], f)
                 PROVE  LET d == table[Dispatch[f]][f]
                        IN  /\ d.dOctets = 0 /\ Counted(f) % OctetMod > 0
                            /\ Reported(f) \/ d.cycles = 1
    BY DEF AccountInv, EntriesSwept, EntriesPreserved
  <2>2. Unreset(Dispatch[f])
    BY <2>1 DEF Unreset
  <2>3. QED
    BY <2>1, <2>2 DEF AccountInv, EntriesSwept, Residue
<1>2. QED
  BY <1>1, AccountInvariance, PTL

(* No flow is reported for traffic it did not have: more octets than the   *)
(* threshold printed over the report passed through its worker in the      *)
(* interval.                                                               *)
THEOREM NoFalseReport ==
  AccountSpec => [](anPc \in {"export", "flush"} =>
                      \A r \in results : offeredThen[r.fid] > old_t_threshold)
<1>1. AccountInv /\ DataInv /\ ReportsTrue =>
        (anPc \in {"export", "flush"} => \A r \in results : offeredThen[r.fid] > old_t_threshold)
  <2> SUFFICES ASSUME AccountInv, DataInv, ReportsTrue, anPc \in {"export", "flush"},
                      NEW r \in results
               PROVE  offeredThen[r.fid] > old_t_threshold
    OBVIOUS
  <2>1. r.fid \in Flow /\ Reported(r.fid)
    BY DEF AccountInv, ResultsTrue, Reported
  <2>2. Residue(Counted(r.fid)) > old_t_threshold
    BY <2>1 DEF ReportsTrue, Residue
  <2>3. /\ Residue(Counted(r.fid)) <= Counted(r.fid) /\ Counted(r.fid) <= offeredThen[r.fid]
        /\ Counted(r.fid) \in Nat
    BY <2>1, CountedOctets
  <2>4. Residue(Counted(r.fid)) \in Nat
    <3>1. Residue(Counted(r.fid)) \in 0..(OctetMod - 1)
      BY <2>3, Wrapped DEF Residue
    <3>2. QED
      BY <3>1, TableAssumption
  <2>5. offeredThen[r.fid] \in Nat /\ old_t_threshold \in Nat
    BY <2>1, ThresholdAssumption DEF AccountInv, AccountTypes, DataInv, TInv, ThresholdTypeOK
  <2>6. QED
    BY <2>2, <2>3, <2>4, <2>5
<1>2. QED
  BY <1>1, AccountInvariance, ReportsTruth, PTL

(* Only insertFlow makes an entry, and for the flow of the packet in hand. *)
LEMMA EntryMade ==
  ASSUME Below, DataInv, Next, NEW f \in Flow, Dispatch[f] \in Worker,
         ~ lookupFlow(table[Dispatch[f]], f), lookupFlow(table'[Dispatch[f]], f)
  PROVE  Insert(Dispatch[f]) /\ wTask[Dispatch[f]].fid = f
<1> DEFINE w == Dispatch[f]
<1>1. table \in [Worker -> Tables]
  BY DEF DataInv, DataTypes
<1>2. CASE UNCHANGED table
  BY <1>2 DEF lookupFlow
<1>3. CASE Main \/ RunFails \/ PcapError \/ Send \/ EndOfCapture \/ RaiseSignal
  BY <1>2, <1>3 DEF Main, Go, RunFarm, FarmEnds, StopAnalyzer, JoinAnalyzer, CloseExporter,
       CleanUp, Exit, RunFails, PcapError, Send, EndOfCapture, RaiseSignal, farmVars, dataVars
<1>4. ASSUME NEW g \in Flow, NEW octets \in Octets, Capture(g, octets)
      PROVE  Insert(w) /\ wTask[w].fid = f
  BY <1>2, <1>4 DEF Capture, dataVars
<1>5. ASSUME NEW v \in Worker, WorkerStep(v)
      PROVE  Insert(w) /\ wTask[w].fid = f
  <2>1. CASE Update(v)
    <3>1. lookupFlow(table[v], wTask[v].fid)
      BY <2>1 DEF Update, DataInv, ShieldingStable
    <3>2. CASE v = w
      <4>1. table'[w] = updateTable(table[w], wTask[w].fid, wTask[w].dOctets)
        BY <1>1, <2>1, <3>2 DEF Update
      <4>2. wTask[w].fid # f
        BY <3>1, <3>2
      <4>3. table'[w][f] = table[w][f]
        BY <1>1, <4>1, <4>2 DEF updateTable, Tables
      <4>4. QED
        BY <4>3 DEF lookupFlow
    <3>3. CASE v # w
      BY <1>1, <2>1, <3>3 DEF Update
    <3>4. QED
      BY <3>2, <3>3
  <2>2. CASE Insert(v)
    <3>1. CASE v = w
      <4>1. table'[w] = insertFlow(table[w], wTask[w].fid, wTask[w].dOctets)
        BY <1>1, <2>2, <3>1 DEF Insert
      <4>2. wTask[w].fid # f => table'[w][f] = table[w][f]
        BY <1>1, <4>1 DEF insertFlow, Tables
      <4>3. QED
        BY <2>2, <3>1, <4>2 DEF lookupFlow
    <3>2. CASE v # w
      BY <1>1, <2>2, <3>2 DEF Insert
    <3>3. QED
      BY <3>1, <3>2
  <2>3. CASE ~ Update(v) /\ ~ Insert(v)
    BY <1>2, <1>5, <2>3 DEF WorkerStep, TakeTask, EndOfStream, LockSelf, Lookup, Filter,
         UnlockSelf, dataVars
  <2>4. QED
    BY <2>1, <2>2, <2>3
<1>6. CASE LoopTest \/ TimeUp \/ SignalReceived \/ WaitInterrupted
  BY <1>2, <1>6 DEF LoopTest, TimeUp, SignalReceived, WaitInterrupted, farmVars, dataVars
<1>7. CASE LockNext \/ Adapt \/ RefilterNext \/ UnlockNext \/ WriteReport \/ ExportResults
  BY <1>2, <1>7 DEF LockNext, Adapt, RefilterNext, UnlockNext, WriteReport, ExportResults, farmVars,
                    dataVars
<1>8. CASE CleanNext
  <2>1. anIdx \in Worker
    BY DEF Below, ControlInv, ControlTypes
  <2>2. table'[anIdx] = Cleaned(table[anIdx], old_r_threshold, t_threshold)
    BY <1>1, <1>8, <2>1 DEF CleanNext
  <2>3. w # anIdx => table'[w] = table[w]
    BY <1>1, <1>8, <2>1 DEF CleanNext
  <2>4. CASE w = anIdx
    BY <1>1, <2>1, <2>2, <2>4, CleanedEntry
  <2>5. QED
    BY <2>3, <2>4
<1>9. CASE Gone
  BY <1>2, <1>9 DEF Gone, vars, farmVars, dataVars
<1>10. QED
  BY <1>3, <1>4, <1>5, <1>6, <1>7, <1>8, <1>9 DEF Next, Analysis

(* Who has a place in a table has paid for it: a flow that shares no       *)
(* bucket is stored only with the packet that brings its octets of the     *)
(* interval above the threshold of its filter, and never on what is left   *)
(* of an interval that is over.                                            *)
THEOREM PlacesEarned ==
  AccountSpec =>
    [][\A f \in Flow :
         /\ AloneAtWorker(f)
         /\ ~ lookupFlow(table[Dispatch[f]], f) /\ lookupFlow(table'[Dispatch[f]], f)
         => offered'[f] > threshold[Dispatch[f]]]_accountVars
<1> DEFINE Earned ==
      \A f \in Flow :
        /\ AloneAtWorker(f)
        /\ ~ lookupFlow(table[Dispatch[f]], f) /\ lookupFlow(table'[Dispatch[f]], f)
        => offered'[f] > threshold[Dispatch[f]]
<1>1. AccountInv /\ Below /\ DataInv /\ DecisionsStand /\ [AccountNext]_accountVars
        => [Earned]_accountVars
  <2> SUFFICES ASSUME AccountInv, Below, DataInv, DecisionsStand, Next, Account,
                      NEW f \in Flow, AloneAtWorker(f),
                      ~ lookupFlow(table[Dispatch[f]], f), lookupFlow(table'[Dispatch[f]], f)
               PROVE  offered'[f] > threshold[Dispatch[f]]
    BY DEF AccountNext
  <2> DEFINE w == Dispatch[f]
  <2>1. w \in Worker
    BY FarmAssumption
  <2>2. Insert(w) /\ wTask[w].fid = f
    BY <2>1, EntryMade
  <2>3. /\ ~ Unreset(w) /\ wPc[w] = "insert" /\ wTask[w].dOctets \in Nat
        /\ Passes(count[w], threshold[w], f, wTask[w].dOctets)
    BY <2>1, <2>2, TaskInHand, CriticalIsReset
       DEF Insert, critical, DecisionsStand, VerdictStable
  <2>4. count[w][1][Hash[1][f]] + wTask[w].dOctets > threshold[w]
    BY <2>3, FilterAssumption DEF Passes, check, Stage
  <2>5. count[w][1][Hash[1][f]] = dropped[f]
    BY <2>3, FilterAssumption DEF AccountInv, LoneExact, Charge, Stage
  <2>6. offered'[f] = offered[f] + wTask[w].dOctets
    <3>1. /\ offered' = [offered EXCEPT ![wTask[w].fid] = @ + wTask[w].dOctets]
      BY <2>1, <2>2, AccountsDecided DEF AccountInv, Insert, analyzerVars
    <3>2. QED
      BY <2>2, <3>1 DEF AccountInv, AccountTypes
  <2>7. /\ offered[f] \in Nat /\ dropped[f] \in Nat /\ dropped[f] <= offered[f]
        /\ threshold[w] \in Nat
    BY <2>1 DEF AccountInv, AccountTypes, DataInv, DataTypes
  <2>8. QED
    BY <2>3, <2>4, <2>5, <2>6, <2>7
<1>2. QED
  BY <1>1, AccountInvariance, AccountsWatch, Decisions, PTL DEF AccountSpec
=============================================================================
