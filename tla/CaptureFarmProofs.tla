-------------------------- MODULE CaptureFarmProofs --------------------------
(***************************************************************************)
(* What holds of the farm for every number of workers and flows, every     *)
(* capacity of the queues, and every interleaving.                         *)
(***************************************************************************)
EXTENDS CaptureFarm, MultistageFilterProofs, FlowTableProofs, ThresholdsProofs, TLAPS

(* The types of the control state. *)
ControlTypes ==
  /\ wPc \in [Worker -> {"off", "idle", "lock", "ended"} \cup critical]
  /\ lock \in [Worker -> {"free", "worker", "analyzer"}]
  /\ anPc \in {"off", "loop", "wait", "lock", "clean", "adapt", "refilter",
               "unlock", "export", "flush", "ended"}
  /\ anIdx \in Worker

(* Between its loops the analyzer's index is at the first worker, so that  *)
(* no loop starts in the middle.                                           *)
IndexReset == anPc \notin {"lock", "clean", "refilter", "unlock"} => anIdx = 1

(* No thread runs before main has started it. *)
NotStarted ==
  /\ mainPc = "start" => anPc = "off"
  /\ mainPc \in {"start", "run"} => emPc = "off" /\ \A w \in Worker : wPc[w] = "off"

ControlInv == ControlTypes /\ IndexReset /\ NotStarted /\ LocksHeld

LEMMA ControlInit == Init => ControlInv
BY FarmAssumption
   DEF Init, ControlInv, ControlTypes, IndexReset, NotStarted, LocksHeld, Worker, critical

LEMMA ControlWorker ==
  ASSUME ControlInv, NEW w \in Worker, WorkerStep(w)
  PROVE  ControlInv'
<1> USE DEF ControlInv, ControlTypes, IndexReset, NotStarted, LocksHeld, critical,
            mainVars, emitterVars, analyzerVars
<1>1. CASE TakeTask(w)
  BY <1>1 DEF TakeTask
<1>2. CASE EndOfStream(w)
  BY <1>2 DEF EndOfStream
<1>3. CASE LockSelf(w)
  BY <1>3 DEF LockSelf
<1>4. CASE Lookup(w)
  BY <1>4 DEF Lookup
<1>5. CASE Update(w)
  BY <1>5 DEF Update
<1>6. CASE Filter(w)
  BY <1>6 DEF Filter
<1>7. CASE Insert(w)
  BY <1>7 DEF Insert
<1>8. CASE UnlockSelf(w)
  BY <1>8 DEF UnlockSelf
<1>9. QED
  BY <1>1, <1>2, <1>3, <1>4, <1>5, <1>6, <1>7, <1>8 DEF WorkerStep

LEMMA ControlAnalysis ==
  ASSUME ControlInv, Analysis
  PROVE  ControlInv'
<1> USE DEF ControlInv, ControlTypes, IndexReset, NotStarted, LocksHeld, critical,
            mainVars, emitterVars, workerVars
<1>1. CASE LockNext
  BY <1>1, FarmAssumption DEF LockNext, NextIndexOr, Worker
<1>2. CASE CleanNext
  BY <1>2, FarmAssumption DEF CleanNext, NextIndexOr, Worker
<1>3. CASE Adapt
  BY <1>3 DEF Adapt, farmVars
<1>4. CASE RefilterNext
  BY <1>4, FarmAssumption DEF RefilterNext, NextIndexOr, Worker
<1>5. CASE UnlockNext
  BY <1>5, FarmAssumption DEF UnlockNext, NextIndexOr, Worker
<1>6. CASE WriteReport \/ ExportResults
  BY <1>6 DEF WriteReport, ExportResults, farmVars
<1>7. QED
  BY <1>1, <1>2, <1>3, <1>4, <1>5, <1>6 DEF Analysis

(* Most steps of main, of the emitter and of the analyzer between its      *)
(* loops leave locks and workers alone.                                    *)
LEMMA ControlUnchanged ==
  ASSUME ControlInv, UNCHANGED <<wPc, lock, anPc, anIdx>>,
         \/ UNCHANGED <<mainPc, emPc>>
         \/ UNCHANGED mainPc /\ emPc # "off"
         \/ mainPc' \notin {"start", "run"}
  PROVE  ControlInv'
BY DEF ControlInv, ControlTypes, IndexReset, NotStarted, LocksHeld

LEMMA ControlMain ==
  ASSUME ControlInv, Main
  PROVE  ControlInv'
<1>1. CASE Go
  BY <1>1 DEF Go, ControlInv, ControlTypes, IndexReset, NotStarted, LocksHeld, farmVars, mainVars,
              emitterVars, workerVars
<1>2. CASE RunFarm
  BY <1>2 DEF RunFarm, ControlInv, ControlTypes, IndexReset, NotStarted, LocksHeld, critical,
              mainVars, emitterVars, analyzerVars
<1>3. CASE FarmEnds \/ StopAnalyzer \/ JoinAnalyzer \/ CloseExporter \/ CleanUp \/ Exit
  BY <1>3, ControlUnchanged
     DEF FarmEnds, StopAnalyzer, JoinAnalyzer, CloseExporter, CleanUp, Exit,
         farmVars, mainVars, emitterVars, workerVars, analyzerVars
<1>4. QED
  BY <1>1, <1>2, <1>3 DEF Main

LEMMA ControlStep == ControlInv /\ [Next]_vars => ControlInv'
<1> SUFFICES ASSUME ControlInv, [Next]_vars PROVE ControlInv'
  OBVIOUS
<1>1. CASE Main
  BY <1>1, ControlMain
<1>2. CASE RunFails \/ PcapError
  BY <1>2, ControlUnchanged
     DEF RunFails, PcapError, farmVars, mainVars, emitterVars, workerVars, analyzerVars
<1>3. ASSUME NEW f \in Flow, NEW octets \in Octets, Capture(f, octets)
      PROVE  ControlInv'
  BY <1>3, ControlUnchanged DEF Capture, mainVars, workerVars, analyzerVars
<1>4. CASE Send \/ EndOfCapture
  BY <1>4, ControlUnchanged DEF Send, EndOfCapture, mainVars, workerVars, analyzerVars
<1>5. ASSUME NEW w \in Worker, WorkerStep(w)
      PROVE  ControlInv'
  BY <1>5, ControlWorker
<1>6. CASE LoopTest
  BY <1>6 DEF LoopTest, farmVars, mainVars, emitterVars, workerVars, ControlInv, ControlTypes,
              IndexReset, NotStarted, LocksHeld
<1>7. CASE TimeUp \/ SignalReceived
  <2>1. /\ anPc = "wait" /\ anPc' = "lock"
        /\ UNCHANGED <<mainPc, emPc, wPc, lock, anIdx>>
    BY <1>7 DEF TimeUp, SignalReceived, farmVars, mainVars, emitterVars, workerVars
  <2>2. \A w \in Worker : 1 <= w
    BY FarmAssumption DEF Worker
  <2>3. QED
    BY <2>1, <2>2 DEF ControlInv, ControlTypes, IndexReset, NotStarted, LocksHeld, Worker
<1>8. CASE WaitInterrupted
  BY <1>8 DEF WaitInterrupted, farmVars, emitterVars, workerVars, ControlInv, ControlTypes,
              IndexReset, NotStarted, LocksHeld
<1>9. CASE Analysis
  BY <1>9, ControlAnalysis
<1>10. CASE RaiseSignal
  BY <1>10, ControlUnchanged DEF RaiseSignal, farmVars, mainVars, emitterVars, workerVars
<1>11. CASE Gone \/ UNCHANGED vars
  BY <1>11, ControlUnchanged
     DEF Gone, vars, farmVars, mainVars, emitterVars, workerVars, analyzerVars
<1>12. QED
  BY <1>1, <1>2, <1>3, <1>4, <1>5, <1>6, <1>7, <1>8, <1>9, <1>10, <1>11 DEF Next

(* A worker's mutex is held by its worker just inside svc's critical       *)
(* section and by the analyzer from its locking to its unlocking, for      *)
(* every number of workers: nobody works on data another one holds.        *)
THEOREM Locks == Spec => []LocksHeld
<1>1. Spec => []ControlInv
  BY ControlInit, ControlStep, PTL DEF Spec
<1>2. QED
  BY <1>1, PTL DEF ControlInv

-----------------------------------------------------------------------------
(* Types *)

(* A thread that is past the receipt of a task and before its end has one. *)
TasksHeld ==
  /\ emPc = "send" => emTask \in Task
  /\ \A w \in Worker : wTask[w] \in Task <=> wPc[w] \in {"lock"} \cup critical

(* The parts of FarmTypeOK, by what writes them. *)
ThreadTypes ==
  /\ proc \in {"up", "exited", "aborted"}
  /\ mainPc \in {"start", "run", "wait", "stop", "join", "close", "cleanup", "exit"}
  /\ emPc \in {"off", "loop", "send", "ended"}
  /\ breakloop \in {"unset", "set", "last"}
  /\ closing \in BOOLEAN /\ m_stoprequested \in BOOLEAN
  /\ exporterOpen \in BOOLEAN /\ deleted \in BOOLEAN
  /\ sigPending \in BOOLEAN
  /\ intervals \in Nat
  /\ unhurried \in BOOLEAN

TaskTypes ==
  /\ emTask \in Task \cup {NoTask}
  /\ queue \in [Worker -> Seq(Task)]
  /\ wTask \in [Worker -> Task \cup {NoTask}]
  /\ captured \in [Worker -> Nat]
  /\ execTask \in [Worker -> Nat]

DataTypes ==
  /\ table \in [Worker -> Tables]
  /\ count \in [Worker -> Counters]
  /\ threshold \in [Worker -> Nat]
  /\ results \subseteq [worker : Worker, fid : Flow, fd : Descriptor]
  /\ IsFiniteSet(results)
  /\ unseen \in [Worker -> Nat]

ThreadInv == ThreadTypes /\ TaskTypes /\ TasksHeld

LEMMA NoTaskIsNone == NoTask \notin Task
BY DEF NoTask, Task

LEMMA ThreadInit == Init => ThreadInv
<1> SUFFICES ASSUME Init PROVE ThreadInv
  OBVIOUS
<1>1. ThreadTypes
  BY DEF Init, ThreadTypes
<1>2. TaskTypes
  BY DEF Init, TaskTypes
<1>3. TasksHeld
  BY NoTaskIsNone DEF Init, TasksHeld, critical
<1>4. QED
  BY <1>1, <1>2, <1>3 DEF ThreadInv

LEMMA ThreadUnchanged ==
  ASSUME ThreadInv, ControlTypes, UNCHANGED <<proc, mainVars, farmVars, analyzerVars>>
  PROVE  ThreadInv'
BY DEF ThreadInv, ThreadTypes, TaskTypes, TasksHeld, mainVars, farmVars, emitterVars,
       workerVars, analyzerVars

LEMMA ThreadMain ==
  ASSUME ThreadInv, ControlInv, Main
  PROVE  ThreadInv'
<1> USE DEF ThreadInv, mainVars, farmVars, emitterVars, workerVars, analyzerVars
<1>1. ThreadTypes'
  BY DEF Main, Go, RunFarm, FarmEnds, StopAnalyzer, JoinAnalyzer, CloseExporter, CleanUp, Exit,
         ThreadTypes
<1>2. TaskTypes'
  BY DEF Main, Go, RunFarm, FarmEnds, StopAnalyzer, JoinAnalyzer, CloseExporter, CleanUp, Exit,
         TaskTypes
<1>3. TasksHeld'
  <2>1. CASE RunFarm
    BY <2>1 DEF RunFarm, TasksHeld, ControlInv, NotStarted, critical
  <2>2. CASE ~ RunFarm
    BY <2>2 DEF Main, Go, FarmEnds, StopAnalyzer, JoinAnalyzer, CloseExporter, CleanUp, Exit,
                TasksHeld
  <2>3. QED
    BY <2>1, <2>2
<1>4. QED
  BY <1>1, <1>2, <1>3

LEMMA ThreadCapture ==
  ASSUME ThreadInv, NEW f \in Flow, NEW octets \in Octets, Capture(f, octets)
  PROVE  ThreadInv'
<1>1. [fid |-> f, dOctets |-> octets] \in Task
  BY DEF Task
<1>2. Dispatch[f] \in Worker
  BY FarmAssumption
<1>3. ThreadTypes'
  BY DEF Capture, ThreadInv, ThreadTypes, mainVars, analyzerVars
<1>4. TaskTypes'
  BY <1>1, <1>2 DEF Capture, ThreadInv, TaskTypes, workerVars
<1>5. TasksHeld'
  BY <1>1 DEF Capture, ThreadInv, TasksHeld, workerVars
<1>6. QED
  BY <1>3, <1>4, <1>5 DEF ThreadInv

LEMMA ThreadSend ==
  ASSUME ThreadInv, Send
  PROVE  ThreadInv'
<1>1. emTask \in Task
  BY DEF Send, ThreadInv, TasksHeld
<1>2. Dispatch[emTask.fid] \in Worker
  BY <1>1, FarmAssumption DEF Task
<1>3. QED
  BY <1>1, <1>2 DEF Send, ThreadInv, ThreadTypes, TaskTypes, TasksHeld, mainVars, workerVars,
                    analyzerVars

LEMMA ThreadWorker ==
  ASSUME ThreadInv, ControlInv, NEW w \in Worker, WorkerStep(w)
  PROVE  ThreadInv'
<1> USE DEF ThreadInv, mainVars, emitterVars, analyzerVars, ControlInv, ControlTypes
<1>1. ThreadTypes'
  BY DEF WorkerStep, TakeTask, EndOfStream, LockSelf, Lookup, Update, Filter, Insert, UnlockSelf,
         ThreadTypes
<1>2. CASE TakeTask(w)
  <2>1. queue[w] \in Seq(Task) /\ queue[w] # << >>
    BY <1>2 DEF TakeTask, TaskTypes
  <2>2. Head(queue[w]) \in Task /\ Tail(queue[w]) \in Seq(Task)
    BY <2>1
  <2>3. QED
    BY <1>1, <1>2, <2>2 DEF TakeTask, TaskTypes, TasksHeld, critical
<1>3. CASE UnlockSelf(w)
  BY <1>1, <1>3, NoTaskIsNone DEF UnlockSelf, TaskTypes, TasksHeld, critical
<1>4. CASE EndOfStream(w) \/ LockSelf(w) \/ Lookup(w) \/ Update(w) \/ Filter(w) \/ Insert(w)
  <2>1. TaskTypes'
    BY <1>4 DEF EndOfStream, LockSelf, Lookup, Update, Filter, Insert, TaskTypes
  <2>2. TasksHeld'
    BY <1>4 DEF EndOfStream, LockSelf, Lookup, Update, Filter, Insert, TasksHeld, critical
  <2>3. QED
    BY <1>1, <2>1, <2>2
<1>5. QED
  BY <1>2, <1>3, <1>4 DEF WorkerStep

LEMMA ThreadAnalyzer ==
  ASSUME ThreadInv, LoopTest \/ TimeUp \/ SignalReceived \/ WaitInterrupted \/ Analysis
  PROVE  ThreadInv'
<1> USE DEF mainVars, farmVars, emitterVars, workerVars, LoopTest, TimeUp, SignalReceived,
            WaitInterrupted, Analysis, LockNext, CleanNext, Adapt, RefilterNext, UnlockNext,
            WriteReport, ExportResults
<1>1. ThreadTypes'
  <2>1. CASE LoopTest \/ TimeUp \/ SignalReceived \/ WaitInterrupted
    BY <2>1 DEF ThreadInv, ThreadTypes
  <2>2. CASE LockNext \/ CleanNext \/ Adapt
    BY <2>2 DEF ThreadInv, ThreadTypes
  <2>3. CASE RefilterNext \/ UnlockNext
    BY <2>3 DEF ThreadInv, ThreadTypes
  <2>4. CASE WriteReport \/ ExportResults
    BY <2>4 DEF ThreadInv, ThreadTypes
  <2>5. QED
    BY <2>1, <2>2, <2>3, <2>4
<1>2. TaskTypes' /\ TasksHeld'
  BY DEF ThreadInv, TaskTypes, TasksHeld
<1>3. QED
  BY <1>1, <1>2 DEF ThreadInv

LEMMA ThreadStep == ControlInv /\ ThreadInv /\ [Next]_vars => ThreadInv'
<1> SUFFICES ASSUME ControlInv, ThreadInv, [Next]_vars PROVE ThreadInv'
  OBVIOUS
<1>1. CASE Main
  BY <1>1, ThreadMain
<1>2. CASE RunFails \/ PcapError
  BY <1>2 DEF RunFails, PcapError, ThreadInv, ThreadTypes, TaskTypes, TasksHeld,
              mainVars, farmVars, emitterVars, workerVars, analyzerVars
<1>3. ASSUME NEW f \in Flow, NEW octets \in Octets, Capture(f, octets)
      PROVE  ThreadInv'
  BY <1>3, ThreadCapture
<1>4. CASE Send
  BY <1>4, ThreadSend
<1>5. CASE EndOfCapture
  BY <1>5 DEF EndOfCapture, ThreadInv, ThreadTypes, TaskTypes, TasksHeld,
              mainVars, workerVars, analyzerVars
<1>6. ASSUME NEW w \in Worker, WorkerStep(w)
      PROVE  ThreadInv'
  BY <1>6, ThreadWorker
<1>7. CASE LoopTest \/ TimeUp \/ SignalReceived \/ WaitInterrupted \/ Analysis
  BY <1>7, ThreadAnalyzer
<1>8. CASE RaiseSignal
  BY <1>8 DEF RaiseSignal, ThreadInv, ThreadTypes, TaskTypes, TasksHeld,
              mainVars, farmVars, emitterVars, workerVars
<1>9. CASE Gone \/ UNCHANGED vars
  BY <1>9, ThreadUnchanged DEF Gone, vars, ControlInv
<1>10. QED
  BY <1>1, <1>2, <1>3, <1>4, <1>5, <1>6, <1>7, <1>8, <1>9 DEF Next

-----------------------------------------------------------------------------
(* Dispatch *)

TaskOf(w) == {t \in Task : Dispatch[t.fid] = w}

(* A worker gets tasks of the flows dispatched to it only. *)
Routed ==
  \A w \in Worker : /\ queue[w] \in Seq(TaskOf(w))
                    /\ wTask[w] \in Task => wTask[w] \in TaskOf(w)

LEMMA RoutedInit == Init => Routed
BY NoTaskIsNone DEF Init, Routed

LEMMA RoutedStep == ThreadInv /\ Routed /\ [Next]_vars => Routed'
<1> SUFFICES ASSUME ThreadInv, Routed, [Next]_vars PROVE Routed'
  OBVIOUS
<1> USE DEF ThreadInv
<1>1. CASE UNCHANGED <<queue, wTask>>
  BY <1>1 DEF Routed
<1>2. CASE Send
  <2>1. emTask \in Task
    BY <1>2 DEF Send, TasksHeld
  <2>2. emTask \in TaskOf(Dispatch[emTask.fid])
    BY <2>1 DEF TaskOf
  <2>3. UNCHANGED wTask
    BY <1>2 DEF Send, workerVars
  <2>4. ASSUME NEW w \in Worker
        PROVE  queue'[w] \in Seq(TaskOf(w))
    BY <1>2, <2>2 DEF Send, Routed, TaskTypes
  <2>5. QED
    BY <2>3, <2>4 DEF Routed
<1>3. ASSUME NEW w \in Worker, TakeTask(w)
      PROVE  Routed'
  <2>1. queue[w] \in Seq(TaskOf(w)) /\ queue[w] # << >>
    BY <1>3 DEF TakeTask, Routed
  <2>2. Head(queue[w]) \in TaskOf(w) /\ Tail(queue[w]) \in Seq(TaskOf(w))
    BY <2>1
  <2>3. QED
    BY <1>3, <2>2 DEF TakeTask, Routed, TaskTypes
<1>4. ASSUME NEW w \in Worker, UnlockSelf(w)
      PROVE  Routed'
  BY <1>4, NoTaskIsNone DEF UnlockSelf, Routed, TaskTypes
<1>5. ASSUME NEW w \in Worker, WorkerStep(w)
      PROVE  Routed'
  <2>1. CASE EndOfStream(w) \/ LockSelf(w) \/ Lookup(w) \/ Update(w) \/ Filter(w) \/ Insert(w)
    BY <1>1, <2>1 DEF EndOfStream, LockSelf, Lookup, Update, Filter, Insert
  <2>2. QED
    BY <1>3, <1>4, <1>5, <2>1 DEF WorkerStep
<1>6. CASE Main \/ RunFails \/ PcapError \/ EndOfCapture \/ RaiseSignal
  BY <1>1, <1>6 DEF Main, Go, RunFarm, FarmEnds, StopAnalyzer, JoinAnalyzer, CloseExporter,
                    CleanUp, Exit, RunFails, PcapError, EndOfCapture, RaiseSignal,
                    farmVars, workerVars
<1>7. ASSUME NEW f \in Flow, NEW octets \in Octets, Capture(f, octets)
      PROVE  Routed'
  BY <1>1, <1>7 DEF Capture, workerVars
<1>8. CASE LoopTest \/ TimeUp \/ SignalReceived \/ WaitInterrupted \/ Analysis
  BY <1>1, <1>8 DEF LoopTest, TimeUp, SignalReceived, WaitInterrupted, Analysis, LockNext,
                    CleanNext, Adapt, RefilterNext, UnlockNext, WriteReport, ExportResults,
                    farmVars, workerVars
<1>9. CASE Gone \/ UNCHANGED vars
  BY <1>1, <1>9 DEF Gone, vars, farmVars, workerVars
<1>10. QED
  BY <1>2, <1>5, <1>6, <1>7, <1>8, <1>9 DEF Next

-----------------------------------------------------------------------------
(* Data *)

DataInv == DataTypes /\ ShieldingStable /\ FlowAffinity /\ TInv

(* What the layers above say of a step. *)
Below == ControlInv /\ ThreadInv /\ Routed

LEMMA DataInit == Init => DataInv
<1> SUFFICES ASSUME Init PROVE DataInv
  OBVIOUS
<1>1. TInv
  BY ThresholdInitInv DEF Init
<1>2. InitialThreshold(FirstThreshold) \in Nat
  BY FilterAssumption, ThresholdAssumption DEF InitialThreshold
<1>3. ZeroCounters \in Counters
  BY DEF ZeroCounters, Counters
<1>4. DataTypes
  BY <1>2, <1>3, EmptyTableTyped, FS_EmptySet DEF Init, DataTypes
<1>5. ShieldingStable
  BY DEF Init, ShieldingStable
<1>6. FlowAffinity
  BY EmptyTableTyped DEF Init, FlowAffinity
<1>7. QED
  BY <1>1, <1>4, <1>5, <1>6 DEF DataInv

(* Steps that change neither tables nor filters. *)
LEMMA DataUnchanged ==
  ASSUME DataInv, Below, UNCHANGED <<table, count, threshold, results, tvars>>,
         unseen' \in [Worker -> Nat],
         \A w \in Worker : \/ wPc'[w] = wPc[w] /\ wTask'[w] = wTask[w]
                           \/ wPc'[w] \notin {"update", "filter", "insert"}
  PROVE  DataInv'
<1>1. TInv'
  BY DEF DataInv, TInv, tvars, ThresholdTypeOK, ThresholdBounds, EarlyRemovalBound
<1>2. DataTypes'
  BY DEF DataInv, DataTypes
<1>3. ShieldingStable'
  BY DEF DataInv, ShieldingStable, lookupFlow
<1>4. FlowAffinity'
  BY DEF DataInv, FlowAffinity, lookupFlow
<1>5. QED
  BY <1>1, <1>2, <1>3, <1>4 DEF DataInv

(* The task a worker in its critical section works on. *)
LEMMA TaskInHand ==
  ASSUME Below, NEW w \in Worker, wPc[w] \in critical
  PROVE  /\ wTask[w].fid \in Flow /\ Dispatch[wTask[w].fid] = w
         /\ wTask[w].dOctets \in 0..(OctetMod - 1) /\ wTask[w].dOctets \in Nat
<1>1. wTask[w] \in TaskOf(w)
  BY DEF Below, ThreadInv, TasksHeld, Routed
<1>2. wTask[w].fid \in Flow /\ Dispatch[wTask[w].fid] = w /\ wTask[w].dOctets \in Octets
  BY <1>1 DEF TaskOf, Task
<1>3. wTask[w].dOctets \in 0..(OctetMod - 1)
  BY <1>2, FarmAssumption, Zenon
<1>4. QED
  BY <1>2, <1>3, TableAssumption

(* A worker leaves its critical section with a new table. *)
LEMMA DataStored ==
  ASSUME DataInv, Below, NEW w \in Worker, NEW new \in Tables,
         \A g \in Flow : lookupFlow(new, g) => Dispatch[g] = w,
         table' = [table EXCEPT ![w] = new],
         wPc' = [wPc EXCEPT ![w] = "unlock"],
         UNCHANGED <<wTask, count, threshold, unseen, results, tvars>>
  PROVE  DataInv'
<1>1. TInv'
  BY DEF DataInv, TInv, tvars, ThresholdTypeOK, ThresholdBounds, EarlyRemovalBound
<1>2. DataTypes'
  BY DEF DataInv, DataTypes
<1>3. \A v \in Worker : v # w => table'[v] = table[v] /\ wPc'[v] = wPc[v]
  BY DEF DataInv, DataTypes, Below, ControlInv, ControlTypes
<1>4. table'[w] = new /\ wPc'[w] = "unlock"
  BY DEF DataInv, DataTypes, Below, ControlInv, ControlTypes
<1>5. ShieldingStable'
  BY <1>3, <1>4 DEF DataInv, ShieldingStable, lookupFlow
<1>6. FlowAffinity'
  BY <1>3, <1>4 DEF DataInv, FlowAffinity, lookupFlow
<1>7. QED
  BY <1>1, <1>2, <1>5, <1>6 DEF DataInv

LEMMA DataUpdate ==
  ASSUME DataInv, Below, NEW w \in Worker, Update(w)
  PROVE  DataInv'
<1> DEFINE new == updateTable(table[w], wTask[w].fid, wTask[w].dOctets)
<1>1. table[w] \in Tables /\ lookupFlow(table[w], wTask[w].fid)
  BY DEF DataInv, DataTypes, ShieldingStable, Update
<1>2. new \in Tables /\ \A g \in Flow : lookupFlow(new, g) <=> lookupFlow(table[w], g)
  BY <1>1, TaskInHand, UpdateTyped DEF Update, critical
<1>3. \A g \in Flow : lookupFlow(new, g) => Dispatch[g] = w
  BY <1>2 DEF DataInv, FlowAffinity
<1>4. /\ table' = [table EXCEPT ![w] = new]
      /\ wPc' = [wPc EXCEPT ![w] = "unlock"]
      /\ UNCHANGED <<wTask, count, threshold, unseen, results, tvars>>
  BY DEF Update, analyzerVars
<1> HIDE DEF new
<1>5. QED
  BY <1>2, <1>3, <1>4, DataStored

LEMMA DataInsert ==
  ASSUME DataInv, Below, NEW w \in Worker, Insert(w)
  PROVE  DataInv'
<1> DEFINE f == wTask[w].fid
           new == insertFlow(table[w], f, wTask[w].dOctets)
<1>1. table[w] \in Tables /\ f \in Flow /\ Dispatch[f] = w
  BY TaskInHand DEF DataInv, DataTypes, Insert, critical
<1>2. new \in Tables /\ \A g \in Flow : lookupFlow(new, g) <=> g = f \/ lookupFlow(table[w], g)
  BY <1>1, TaskInHand, InsertTyped DEF Insert, critical
<1>3. \A g \in Flow : lookupFlow(new, g) => Dispatch[g] = w
  BY <1>1, <1>2 DEF DataInv, FlowAffinity
<1>4. /\ table' = [table EXCEPT ![w] = new]
      /\ wPc' = [wPc EXCEPT ![w] = "unlock"]
      /\ UNCHANGED <<wTask, count, threshold, unseen, results, tvars>>
  BY DEF Insert, analyzerVars
<1> HIDE DEF new
<1>5. QED
  BY <1>2, <1>3, <1>4, DataStored

LEMMA DataFilter ==
  ASSUME DataInv, Below, NEW w \in Worker, Filter(w)
  PROVE  DataInv'
<1> DEFINE f == wTask[w].fid
           octets == wTask[w].dOctets
           new == Charged(count[w], threshold[w], f, octets)
<1>1. f \in Flow /\ octets \in Nat
  BY TaskInHand DEF Filter, critical
<1>2. count[w] \in Counters /\ threshold[w] \in Nat
  BY DEF DataInv, DataTypes
<1>3. new \in Counters
  <2> HIDE DEF f, octets
  <2>1. QED
    BY <1>1, <1>2, ChargedTyped
<1>4. /\ count' = count \/ count' = [count EXCEPT ![w] = new]
      /\ wPc' \in {[wPc EXCEPT ![w] = "insert"], [wPc EXCEPT ![w] = "unlock"]}
      /\ UNCHANGED <<wTask, table, threshold, unseen, results, tvars>>
      /\ wPc[w] = "filter"
  <2>1. CASE Passes(count[w], threshold[w], f, octets)
    BY <2>1, <1>2 DEF Filter, analyzerVars, DataInv, DataTypes
  <2>2. CASE ~ Passes(count[w], threshold[w], f, octets)
    BY <2>2 DEF Filter, analyzerVars
  <2>3. QED
    BY <2>1, <2>2
<1> HIDE DEF f, octets, new
<1>5. TInv'
  BY <1>4 DEF DataInv, TInv, tvars, ThresholdTypeOK, ThresholdBounds, EarlyRemovalBound
<1>6. DataTypes'
  <2>1. count' \in [Worker -> Counters]
    BY <1>3, <1>4 DEF DataInv, DataTypes
  <2>2. QED
    BY <1>4, <2>1 DEF DataInv, DataTypes
<1>7. \A v \in Worker : wPc'[v] = wPc[v] \/ (v = w /\ wPc'[v] \in {"insert", "unlock"})
  BY <1>4 DEF Below, ControlInv, ControlTypes
<1>8. ShieldingStable'
  BY <1>4, <1>7 DEF DataInv, ShieldingStable, lookupFlow
<1>9. FlowAffinity'
  BY <1>4 DEF DataInv, FlowAffinity, lookupFlow
<1>10. QED
  BY <1>5, <1>6, <1>8, <1>9 DEF DataInv

LEMMA DataWorker ==
  ASSUME DataInv, Below, NEW w \in Worker, WorkerStep(w)
  PROVE  DataInv'
<1> USE DEF Below, ControlInv, ControlTypes
<1>1. unseen \in [Worker -> Nat] /\ wTask \in [Worker -> Task \cup {NoTask}]
  BY DEF DataInv, DataTypes, ThreadInv, TaskTypes
<1>2. CASE TakeTask(w) \/ EndOfStream(w) \/ LockSelf(w)
  <2>1. \A v \in Worker : \/ wPc'[v] = wPc[v] /\ wTask'[v] = wTask[v]
                          \/ wPc'[v] \notin {"update", "filter", "insert"}
    BY <1>1, <1>2 DEF TakeTask, EndOfStream, LockSelf
  <2>2. UNCHANGED <<dataVars, results, tvars>>
    BY <1>2 DEF TakeTask, EndOfStream, LockSelf, analyzerVars
  <2>3. QED
    BY <1>1, <2>1, <2>2, DataUnchanged DEF dataVars
<1>3. CASE Lookup(w)
  <2>1. UNCHANGED <<dataVars, wTask, results, tvars>>
    BY <1>3 DEF Lookup, analyzerVars
  <2>2. TInv' /\ DataTypes'
    BY <2>1 DEF DataInv, DataTypes, TInv, tvars, dataVars, ThresholdTypeOK, ThresholdBounds,
                EarlyRemovalBound
  <2>3. ShieldingStable'
    BY <1>3, <2>1 DEF Lookup, DataInv, ShieldingStable, dataVars, lookupFlow
  <2>4. FlowAffinity'
    BY <2>1 DEF DataInv, FlowAffinity, dataVars, lookupFlow
  <2>5. QED
    BY <2>2, <2>3, <2>4 DEF DataInv
<1>4. CASE Update(w) \/ Filter(w) \/ Insert(w)
  BY <1>4, DataUpdate, DataFilter, DataInsert
<1>5. CASE UnlockSelf(w)
  <2>1. \A v \in Worker : \/ wPc'[v] = wPc[v] /\ wTask'[v] = wTask[v]
                          \/ wPc'[v] \notin {"update", "filter", "insert"}
    BY <1>1, <1>5 DEF UnlockSelf
  <2>2. unseen' \in [Worker -> Nat] /\ UNCHANGED <<table, count, threshold, results, tvars>>
    BY <1>1, <1>5 DEF UnlockSelf, analyzerVars
  <2>3. QED
    BY <2>1, <2>2, DataUnchanged
<1>6. QED
  BY <1>2, <1>3, <1>4, <1>5 DEF WorkerStep

(* The analyzer at the table of a worker, who is then outside svc's        *)
(* critical section.                                                       *)
LEMMA DataClean ==
  ASSUME DataInv, Below, CleanNext
  PROVE  DataInv'
<1> DEFINE r == old_r_threshold
           t == t_threshold
           new == Cleaned(table[anIdx], r, t)
           report == Collected(table[anIdx], r, t)
           named == [c \in report |-> [worker |-> anIdx, fid |-> c.fid, fd |-> c.fd]]
<1>1. anIdx \in Worker /\ anPc = "clean" /\ table \in [Worker -> Tables]
  BY DEF CleanNext, Below, ControlInv, ControlTypes, DataInv, DataTypes
<1>2. /\ new \in Tables
      /\ \A g \in Flow : lookupFlow(new, g) => lookupFlow(table[anIdx], g)
  BY <1>1, CleanedTyped
<1>3. report \subseteq [fid : Flow, fd : Descriptor] /\ IsFiniteSet(report)
  BY <1>1, FarmAssumption, CollectedTyped
<1>4. /\ table' = [table EXCEPT ![anIdx] = new]
      /\ results' = results \cup {named[c] : c \in report}
      /\ unseen' = [unseen EXCEPT ![anIdx] = 0]
      /\ UNCHANGED <<wPc, wTask, count, threshold, tvars>>
  BY DEF CleanNext, workerVars
<1> HIDE DEF new, report
<1>5. TInv'
  BY <1>4 DEF DataInv, TInv, tvars, ThresholdTypeOK, ThresholdBounds, EarlyRemovalBound
<1>6. /\ results' \subseteq [worker : Worker, fid : Flow, fd : Descriptor]
      /\ IsFiniteSet(results')
  <2> DEFINE added == {named[c] : c \in report}
  <2>1. IsFiniteSet(added)
    <3>1. named \in Surjection(report, added)
      BY Zenon DEF Surjection
    <3>2. QED
      BY <1>3, <3>1, FS_Surjection
  <2>2. added \subseteq [worker : Worker, fid : Flow, fd : Descriptor]
    BY <1>1, <1>3
  <2> HIDE DEF added
  <2>3. results' = results \cup added
    BY <1>4 DEF added
  <2>4. QED
    BY <2>1, <2>2, <2>3, FS_Union DEF DataInv, DataTypes
<1>7. DataTypes'
  BY <1>1, <1>2, <1>4, <1>6 DEF DataInv, DataTypes
<1>8. table'[anIdx] = new /\ \A v \in Worker : v # anIdx => table'[v] = table[v]
  BY <1>1, <1>4
<1>9. ShieldingStable'
  <2>1. wPc[anIdx] \notin critical
    BY <1>1 DEF Below, ControlInv, LocksHeld
  <2>2. QED
    BY <1>4, <1>8, <2>1 DEF DataInv, ShieldingStable, critical, lookupFlow
<1>10. FlowAffinity'
  BY <1>1, <1>2, <1>8 DEF DataInv, FlowAffinity, lookupFlow
<1>11. QED
  BY <1>5, <1>7, <1>9, <1>10 DEF DataInv

LEMMA DataAdapt ==
  ASSUME DataInv, Below, Adapt
  PROVE  DataInv'
<1>1. Cardinality(results) \in Nat
  BY FS_CardinalityType DEF DataInv, DataTypes
<1>2. TInv'
  BY <1>1, IntervalStep DEF DataInv, Adapt
<1>3. UNCHANGED <<wPc, wTask, dataVars, results>>
  BY DEF Adapt, farmVars, workerVars
<1>4. QED
  BY <1>2, <1>3 DEF DataInv, DataTypes, ShieldingStable, FlowAffinity, dataVars, lookupFlow

LEMMA DataRefilter ==
  ASSUME DataInv, Below, RefilterNext
  PROVE  DataInv'
<1>1. UpdatedThreshold(t_threshold) \in Nat
  BY DEF UpdatedThreshold
<1>2. ZeroCounters \in Counters
  BY DEF ZeroCounters, Counters
<1>3. UNCHANGED <<wPc, wTask, table, unseen, results, tvars>>
  BY DEF RefilterNext, workerVars
<1>4. threshold' \in [Worker -> Nat] /\ count' \in [Worker -> Counters]
  BY <1>1, <1>2 DEF RefilterNext, DataInv, DataTypes
<1>5. TInv'
  BY <1>3 DEF DataInv, TInv, tvars, ThresholdTypeOK, ThresholdBounds, EarlyRemovalBound
<1>6. QED
  BY <1>3, <1>4, <1>5 DEF DataInv, DataTypes, ShieldingStable, FlowAffinity, lookupFlow

LEMMA DataStep == Below /\ DataInv /\ [Next]_vars => DataInv'
<1> SUFFICES ASSUME Below, DataInv, [Next]_vars PROVE DataInv'
  OBVIOUS
<1>1. /\ unseen \in [Worker -> Nat]
      /\ wPc \in [Worker -> {"off", "idle", "lock", "ended"} \cup critical]
  BY DEF DataInv, DataTypes, Below, ControlInv, ControlTypes
<1>2. CASE UNCHANGED <<wPc, wTask, dataVars, results, tvars>>
  BY <1>1, <1>2, DataUnchanged DEF dataVars
<1>3. CASE Main \/ RunFails \/ PcapError
  <2>1. CASE RunFarm
    <3>1. \A w \in Worker : wPc'[w] \notin {"update", "filter", "insert"}
      BY <2>1 DEF RunFarm
    <3>2. UNCHANGED <<dataVars, results, tvars>>
      BY <2>1 DEF RunFarm, analyzerVars
    <3>3. QED
      BY <1>1, <3>1, <3>2, DataUnchanged DEF dataVars
  <2>2. CASE ~ RunFarm
    BY <1>2, <1>3, <2>2 DEF Main, Go, FarmEnds, StopAnalyzer, JoinAnalyzer, CloseExporter, CleanUp,
                            Exit, RunFails, PcapError, farmVars, workerVars, analyzerVars
  <2>3. QED
    BY <2>1, <2>2
<1>4. ASSUME NEW f \in Flow, NEW octets \in Octets, Capture(f, octets)
      PROVE  DataInv'
  BY <1>2, <1>4 DEF Capture, workerVars, analyzerVars
<1>5. CASE Send \/ EndOfCapture
  BY <1>2, <1>5 DEF Send, EndOfCapture, workerVars, analyzerVars
<1>6. ASSUME NEW w \in Worker, WorkerStep(w)
      PROVE  DataInv'
  BY <1>6, DataWorker
<1>7. CASE LoopTest \/ TimeUp \/ WaitInterrupted \/ RaiseSignal \/ WriteReport
  BY <1>2, <1>7 DEF LoopTest, TimeUp, WaitInterrupted, RaiseSignal, WriteReport, farmVars,
                    workerVars
<1>8. CASE SignalReceived \/ LockNext \/ UnlockNext
  BY <1>2, <1>8 DEF SignalReceived, LockNext, UnlockNext, workerVars
<1>9. CASE CleanNext \/ Adapt \/ RefilterNext
  BY <1>9, DataClean, DataAdapt, DataRefilter
<1>10. CASE ExportResults
  <2>1. UNCHANGED <<wPc, wTask, dataVars, tvars>> /\ results' = {}
    BY <1>10 DEF ExportResults, farmVars, workerVars
  <2>2. TInv' /\ ShieldingStable' /\ FlowAffinity'
    BY <2>1 DEF DataInv, TInv, tvars, ThresholdTypeOK, ThresholdBounds, EarlyRemovalBound,
                ShieldingStable, FlowAffinity, dataVars, lookupFlow
  <2>3. DataTypes'
    BY <2>1, FS_EmptySet DEF DataInv, DataTypes, dataVars
  <2>4. QED
    BY <2>2, <2>3 DEF DataInv
<1>11. CASE Gone \/ UNCHANGED vars
  BY <1>2, <1>11 DEF Gone, vars, farmVars, workerVars, analyzerVars
<1>12. QED
  BY <1>3, <1>4, <1>5, <1>6, <1>7, <1>8, <1>9, <1>10, <1>11 DEF Next, Analysis

LEMMA FarmInvariance == Spec => [](Below /\ DataInv)
<1>1. Init => Below /\ DataInv
  BY ControlInit, ThreadInit, RoutedInit, DataInit DEF Below
<1>2. Below /\ DataInv /\ [Next]_vars => Below' /\ DataInv'
  BY ControlStep, ThreadStep, RoutedStep, DataStep DEF Below
<1>3. QED
  BY <1>1, <1>2, PTL DEF Spec

(* The reports: the stream holds one only between its writing and its      *)
(* flushing, the analysis of a signal is the last, and main closes the     *)
(* file behind an analyzer that has ended.                                 *)
Filed ==
  LET last == IF closing /\ anPc \in {"loop", "ended"} THEN 1 ELSE 0
  IN  /\ buffer = IF anPc = "flush" THEN << intervals >> ELSE << >>
      /\ file = [k \in 1..(intervals + last) |-> k - 1]
      /\ closing => anPc \notin {"off", "wait"} /\ (anPc \in {"loop", "ended"} => m_stoprequested)
      /\ mainPc \in {"close", "cleanup", "exit"} => anPc = "ended"

LEMMA FiledInit == Init => Filed
BY DEF Init, Filed

LEMMA FiledUnchanged ==
  ASSUME Filed, UNCHANGED <<mainPc, outputVars, analyzerVars>>
  PROVE  Filed'
BY DEF Filed, outputVars, analyzerVars

(* One more number at the end of the list of all before it. *)
LEMMA NextNumber ==
  ASSUME NEW n \in Nat
  PROVE  [k \in 1..n |-> k - 1] \o << n >> = [k \in 1..(n + 1) |-> k - 1]
<1> DEFINE s == [k \in 1..n |-> k - 1]
           t == [k \in 1..(n + 1) |-> k - 1]
<1>1. s \in Seq(Nat) /\ Len(s) = n /\ t \in Seq(Nat) /\ Len(t) = n + 1
  OBVIOUS
<1>2. s \o << n >> \in Seq(Nat) /\ Len(s \o << n >>) = n + 1
  BY <1>1
<1>3. ASSUME NEW k \in 1..(n + 1) PROVE (s \o << n >>)[k] = t[k]
  BY <1>1
<1> QED BY <1>1, <1>2, <1>3

LEMMA FiledAnalyzer ==
  ASSUME Filed, Below, LoopTest \/ TimeUp \/ SignalReceived \/ WaitInterrupted \/ Analysis
  PROVE  Filed'
<1>1. intervals \in Nat /\ closing \in BOOLEAN
  BY DEF Below, ThreadInv, ThreadTypes
<1> USE DEF Filed, mainVars, outputVars
<1>2. CASE LoopTest \/ TimeUp \/ SignalReceived \/ WaitInterrupted
  BY <1>2 DEF LoopTest, TimeUp, SignalReceived, WaitInterrupted
<1>3. CASE LockNext \/ CleanNext \/ Adapt \/ RefilterNext \/ UnlockNext
  BY <1>3 DEF LockNext, CleanNext, Adapt, RefilterNext, UnlockNext, NextIndexOr
<1>4. CASE WriteReport
  BY <1>4 DEF WriteReport
<1>5. CASE ExportResults
  <2>1. /\ file' = [k \in 1..intervals |-> k - 1] \o << intervals >>
        /\ buffer' = << >> /\ anPc' = "loop" /\ closing' = closing
        /\ intervals' = IF closing THEN intervals ELSE intervals + 1
        /\ closing => m_stoprequested'
        /\ mainPc' = mainPc /\ anPc = "flush"
    BY <1>1, <1>5 DEF ExportResults
  <2>2. file' = [k \in 1..(intervals + 1) |-> k - 1]
    BY <1>1, <2>1, NextNumber
  <2> QED BY <1>1, <2>1, <2>2
<1> QED BY <1>2, <1>3, <1>4, <1>5 DEF Analysis

LEMMA FiledStep == Below /\ Filed /\ [Next]_vars => Filed'
<1> SUFFICES ASSUME Below, Filed, [Next]_vars PROVE Filed'
  OBVIOUS
<1>1. intervals \in Nat /\ NotStarted /\ closing \in BOOLEAN
  BY DEF Below, ThreadInv, ThreadTypes, ControlInv
<1>2. CASE Go
  BY <1>1, <1>2 DEF Go, Filed, outputVars, NotStarted
<1>3. CASE StopAnalyzer
  BY <1>3 DEF StopAnalyzer, Filed, outputVars
<1>4. CASE CloseExporter
  <2>1. anPc = "ended" /\ buffer = << >> /\ file \in Seq(Nat)
    BY <1>1, <1>4 DEF CloseExporter, Filed
  <2>2. file' = file /\ buffer' = buffer
    BY <1>4, <2>1 DEF CloseExporter
  <2> QED BY <1>4, <2>1, <2>2 DEF CloseExporter, Filed, analyzerVars
<1>5. CASE RunFarm \/ FarmEnds \/ JoinAnalyzer \/ CleanUp \/ Exit
  BY <1>5 DEF RunFarm, FarmEnds, JoinAnalyzer, CleanUp, Exit, mainVars, outputVars, analyzerVars,
              Filed
<1>6. CASE RunFails \/ PcapError \/ Send \/ EndOfCapture
  BY <1>6, FiledUnchanged DEF RunFails, PcapError, Send, EndOfCapture, mainVars
<1>7. ASSUME NEW f \in Flow, NEW octets \in Octets, Capture(f, octets)
      PROVE  Filed'
  BY <1>7, FiledUnchanged DEF Capture, mainVars
<1>8. ASSUME NEW w \in Worker, WorkerStep(w)
      PROVE  Filed'
  BY <1>8, FiledUnchanged DEF WorkerStep, TakeTask, EndOfStream, LockSelf, Lookup, Update, Filter,
                              Insert, UnlockSelf, mainVars
<1>9. CASE LoopTest \/ TimeUp \/ SignalReceived \/ WaitInterrupted \/ Analysis
  BY <1>9, FiledAnalyzer
<1>10. CASE RaiseSignal
  BY <1>10 DEF RaiseSignal, Filed, mainVars, outputVars
<1>11. CASE Gone \/ UNCHANGED vars
  BY <1>11, FiledUnchanged DEF Gone, vars, mainVars
<1> QED
  BY <1>2, <1>3, <1>4, <1>5, <1>6, <1>7, <1>8, <1>9, <1>10, <1>11 DEF Next, Main

LEMMA FiledInvariance == Spec => []Filed
BY FiledInit, FiledStep, FarmInvariance, PTL DEF Spec

(* The report of every analysis that is over is in the file, once, in      *)
(* order, and whole, however the process ends.                             *)
THEOREM ReportsSafe == Spec => []ReportsKept
<1>1. Filed => ReportsKept
  BY DEF Filed, ReportsKept
<1> QED BY <1>1, FiledInvariance, PTL

(* Every step of every thread keeps the types: the octets of a descriptor  *)
(* stay within 32 bits, the analyzer's index within the workers, and the   *)
(* thresholds within their first value.                                    *)
THEOREM FarmTypes == Spec => []FarmTypeOK
<1>1. Below /\ DataInv /\ Filed => FarmTypeOK
  <2> SUFFICES ASSUME Below, DataInv, Filed PROVE FarmTypeOK
    OBVIOUS
  <2>1. buffer \in Seq(Nat) /\ file \in Seq(Nat)
    BY DEF Below, ThreadInv, ThreadTypes, Filed
  <2>2. QED
    BY <2>1 DEF Below, ControlInv, ControlTypes, ThreadInv, ThreadTypes, TaskTypes, DataInv,
                DataTypes, TInv, FarmTypeOK
<1>2. QED
  BY <1>1, FarmInvariance, FiledInvariance, PTL

(* Only filter() makes a verdict, and the analyzer has no lock to reset a  *)
(* filter on whose verdict a worker is about to act.                       *)
LEMMA VerdictStep == Below /\ VerdictStable /\ [Next]_vars => VerdictStable'
<1> SUFFICES ASSUME Below, VerdictStable, [Next]_vars PROVE VerdictStable'
  OBVIOUS
<1>1. /\ wPc \in [Worker -> {"off", "idle", "lock", "ended"} \cup critical]
      /\ anIdx \in Worker /\ LocksHeld /\ wTask \in [Worker -> Task \cup {NoTask}]
  BY DEF Below, ControlInv, ControlTypes, ThreadInv, TaskTypes, ThreadTypes
<1>2. CASE /\ UNCHANGED <<count, threshold>>
           /\ \A w \in Worker : wPc'[w] = "insert" => wPc[w] = "insert" /\ wTask'[w] = wTask[w]
  BY <1>2 DEF VerdictStable, Passes, check
<1>3. CASE Main \/ RunFails \/ PcapError \/ Send \/ EndOfCapture \/ RaiseSignal
  BY <1>2, <1>3 DEF Main, Go, RunFarm, FarmEnds, StopAnalyzer, JoinAnalyzer, CloseExporter,
       CleanUp, Exit, RunFails, PcapError, Send, EndOfCapture, RaiseSignal, farmVars, dataVars,
       workerVars
<1>4. ASSUME NEW f \in Flow, NEW octets \in Octets, Capture(f, octets)
      PROVE  VerdictStable'
  BY <1>2, <1>4 DEF Capture, dataVars, workerVars
<1>5. ASSUME NEW w \in Worker, WorkerStep(w)
      PROVE  VerdictStable'
  <2>1. CASE Filter(w)
    <3>1. ASSUME NEW v \in Worker, wPc'[v] = "insert"
          PROVE  /\ Passes(count[v], threshold[v], wTask[v].fid, wTask[v].dOctets)
                 /\ count'[v] = count[v]
      <4>1. CASE v = w
        BY <1>1, <2>1, <3>1, <4>1 DEF Filter
      <4>2. CASE v # w
        BY <1>1, <2>1, <3>1, <4>2 DEF Filter, VerdictStable
      <4>3. QED
        BY <4>1, <4>2
    <3>2. UNCHANGED <<threshold, wTask>>
      BY <2>1 DEF Filter
    <3>3. QED
      BY <3>1, <3>2 DEF VerdictStable, Passes, check
  <2>2. CASE ~ Filter(w)
    <3>1. /\ wPc'[w] # "insert" /\ UNCHANGED <<count, threshold>>
          /\ \A v \in Worker \ {w} : wPc'[v] = wPc[v] /\ wTask'[v] = wTask[v]
      BY <1>1, <1>5, <2>2
         DEF WorkerStep, TakeTask, EndOfStream, LockSelf, Lookup, Update, Insert, UnlockSelf,
             dataVars
    <3>2. QED
      BY <1>2, <3>1
  <2>3. QED
    BY <2>1, <2>2
<1>6. CASE LoopTest \/ TimeUp \/ SignalReceived \/ WaitInterrupted
  BY <1>2, <1>6 DEF LoopTest, TimeUp, SignalReceived, WaitInterrupted, farmVars, dataVars,
                    workerVars
<1>7. CASE LockNext \/ CleanNext \/ Adapt \/ UnlockNext \/ WriteReport \/ ExportResults
  BY <1>2, <1>7 DEF LockNext, CleanNext, Adapt, UnlockNext, WriteReport, ExportResults, farmVars,
                    dataVars, workerVars
<1>8. CASE RefilterNext
  <2>1. wPc[anIdx] # "insert" /\ UNCHANGED <<wPc, wTask>>
    BY <1>1, <1>8 DEF RefilterNext, workerVars, LocksHeld, critical
  <2>2. \A w \in Worker : w # anIdx => count'[w] = count[w] /\ threshold'[w] = threshold[w]
    BY <1>8 DEF RefilterNext
  <2>3. QED
    BY <2>1, <2>2 DEF VerdictStable, Passes, check
<1>9. CASE Gone \/ UNCHANGED vars
  BY <1>2, <1>9 DEF Gone, vars, farmVars, dataVars, workerVars
<1>10. QED
  BY <1>3, <1>4, <1>5, <1>6, <1>7, <1>8, <1>9 DEF Next, Analysis

(* What svc found out about a flow in lookupFlow and from the filter still *)
(* holds when it updates or inserts the flow: the analyzer can neither     *)
(* clean the table nor reset the filter in between.                        *)
THEOREM Decisions == Spec => []DecisionsStand
<1>1. Init => VerdictStable
  BY DEF Init, VerdictStable
<1>2. Below /\ DataInv /\ VerdictStable => DecisionsStand
  BY DEF DataInv, DecisionsStand
<1>3. QED
  BY <1>1, <1>2, VerdictStep, FarmInvariance, PTL DEF Spec

(* dispatchPolicy makes each flow the business of one worker: it is in no  *)
(* other table, whatever the analyzer and the other workers do.            *)
THEOREM Affinity == Spec => []FlowAffinity
<1>1. Below /\ DataInv => FlowAffinity
  BY DEF DataInv
<1>2. QED
  BY <1>1, FarmInvariance, PTL

-----------------------------------------------------------------------------
(* Filters *)

FiltersInv ==
  /\ FiltersAgree
  /\ anPc = "refilter" =>
       \A w \in Worker : w < anIdx => threshold[w] = UpdatedThreshold(t_threshold)

LEMMA FiltersStep == Below /\ DataInv /\ FiltersInv /\ [Next]_vars => FiltersInv'
<1> SUFFICES ASSUME Below, DataInv, FiltersInv, [Next]_vars PROVE FiltersInv'
  OBVIOUS
<1> USE DEF FiltersInv, FiltersAgree
<1>1. CASE UNCHANGED <<threshold, t_threshold>> /\ anPc # "refilter" /\ anPc' # "refilter"
  BY <1>1
<1>2. CASE UNCHANGED <<threshold, t_threshold, anPc, anIdx>>
  BY <1>2
<1>3. CASE Main \/ RunFails \/ PcapError \/ Send \/ EndOfCapture \/ RaiseSignal
  BY <1>1, <1>2, <1>3 DEF Main, Go, RunFarm, FarmEnds, StopAnalyzer, JoinAnalyzer, CloseExporter,
       CleanUp, Exit, RunFails, PcapError, Send, EndOfCapture, RaiseSignal, farmVars, dataVars,
       tvars, analyzerVars, Below, ControlInv, NotStarted
<1>4. ASSUME NEW f \in Flow, NEW octets \in Octets, Capture(f, octets)
      PROVE  FiltersInv'
  BY <1>2, <1>4 DEF Capture, dataVars, tvars, analyzerVars
<1>5. ASSUME NEW w \in Worker, WorkerStep(w)
      PROVE  FiltersInv'
  BY <1>2, <1>5 DEF WorkerStep, TakeTask, EndOfStream, LockSelf, Lookup, Update, Filter, Insert,
       UnlockSelf, dataVars, tvars, analyzerVars
<1>6. CASE LoopTest \/ TimeUp \/ SignalReceived \/ WaitInterrupted
  BY <1>1, <1>6 DEF LoopTest, TimeUp, SignalReceived, WaitInterrupted, farmVars, dataVars, tvars
<1>7. CASE LockNext \/ CleanNext \/ UnlockNext \/ WriteReport \/ ExportResults
  BY <1>1, <1>7 DEF LockNext, CleanNext, UnlockNext, WriteReport, ExportResults, NextIndexOr,
                    farmVars, dataVars, tvars
<1>8. CASE Adapt
  <2>1. \A w \in Worker : 1 <= w
    BY FarmAssumption DEF Worker
  <2>2. anIdx' = 1 /\ anPc' = "refilter"
    BY <1>8 DEF Adapt, Below, ControlInv, IndexReset
  <2>3. QED
    BY <2>1, <2>2 DEF Worker
<1>9. CASE RefilterNext
  <2>1. /\ \A w \in Worker : w < anIdx => threshold'[w] = UpdatedThreshold(t_threshold)
        /\ threshold'[anIdx] = UpdatedThreshold(t_threshold)
        /\ t_threshold' = t_threshold /\ anIdx \in Worker
    BY <1>9 DEF RefilterNext, DataInv, DataTypes, Below, ControlInv, ControlTypes, Worker, tvars
  <2>2. CASE anIdx < NumWorkers
    <3>1. anIdx' = anIdx + 1 /\ anPc' = "refilter"
      BY <1>9, <2>2 DEF RefilterNext, NextIndexOr
    <3>2. QED
      BY <2>1, <3>1, FarmAssumption DEF Worker, UpdatedThreshold
  <2>3. CASE ~ (anIdx < NumWorkers)
    <3>1. anPc' = "unlock"
      BY <1>9, <2>3 DEF RefilterNext, NextIndexOr
    <3>2. \A w \in Worker : threshold'[w] = UpdatedThreshold(t_threshold)
      BY <2>1, <2>3, FarmAssumption DEF Worker
    <3>3. QED
      BY <3>1, <3>2
  <2>4. QED
    BY <2>2, <2>3
<1>10. CASE Gone \/ UNCHANGED vars
  BY <1>2, <1>10 DEF Gone, vars, farmVars, dataVars, tvars, analyzerVars
<1>11. QED
  BY <1>3, <1>4, <1>5, <1>6, <1>7, <1>8, <1>9, <1>10 DEF Next, Analysis

(* All workers filter with the same threshold whenever a worker can be in  *)
(* svc: the analyzer hands a new one to all of them under all locks.       *)
THEOREM FilterAgreement == Spec => []FiltersAgree
<1>1. Init => FiltersInv
  BY DEF Init, FiltersInv, FiltersAgree
<1>2. QED
  BY <1>1, FiltersStep, FarmInvariance, PTL DEF Spec, FiltersInv

-----------------------------------------------------------------------------
(* Packets *)

(* The two terms of NothingLost for the packets in somebody's hands. *)
Held(w) == IF wTask[w] # NoTask THEN 1 ELSE 0
Sent(w) == IF emPc = "send" /\ Dispatch[emTask.fid] = w THEN 1 ELSE 0

LEMMA CountedInit == Init => NothingLost
BY DEF Init, NothingLost

LEMMA CountedStep == ControlInv /\ ThreadInv /\ NothingLost /\ [Next]_vars => NothingLost'
<1> SUFFICES ASSUME ControlInv, ThreadInv, NothingLost, [Next]_vars PROVE NothingLost'
  OBVIOUS
<1> DEFINE Total(w) == execTask[w] + Len(queue[w]) + Held(w) + Sent(w)
<1>0. /\ \A w \in Worker : captured[w] = Total(w)
      /\ (\A w \in Worker : captured'[w] = Total(w)') => NothingLost'
  BY DEF NothingLost, Held, Sent
<1>1. \A w \in Worker : /\ queue[w] \in Seq(Task) /\ Len(queue[w]) \in Nat
                        /\ captured[w] \in Nat /\ execTask[w] \in Nat
                        /\ Held(w) \in {0, 1} /\ Sent(w) \in {0, 1}
  BY DEF ThreadInv, TaskTypes, Held, Sent
<1>2. CASE UNCHANGED <<captured, execTask, queue, wTask, emPc, emTask>>
  BY <1>2 DEF NothingLost
<1>3. CASE /\ UNCHANGED <<captured, execTask, queue, wTask>>
           /\ emPc # "send" /\ emPc' # "send"
  BY <1>3 DEF NothingLost
<1>4. ASSUME NEW f \in Flow, NEW octets \in Octets, Capture(f, octets)
      PROVE  NothingLost'
  <2>1. /\ emPc = "loop" /\ emPc' = "send" /\ emTask'.fid = f
        /\ captured' = [captured EXCEPT ![Dispatch[f]] = @ + 1]
        /\ UNCHANGED <<execTask, queue, wTask>>
    BY <1>4 DEF Capture, workerVars
  <2>2. \A w \in Worker : captured'[w] = captured[w] + Sent(w)' /\ Sent(w) = 0 /\ Held(w)' = Held(w)
    BY <1>1, <2>1 DEF ThreadInv, TaskTypes, Sent, Held
  <2>3. \A w \in Worker : Sent(w)' \in {0, 1}
    BY DEF Sent
  <2>4. QED
    BY <1>0, <1>1, <2>1, <2>2, <2>3
<1>5. CASE Send
  <2> DEFINE victim == Dispatch[emTask.fid]
  <2>1. /\ emPc = "send" /\ emPc' = "loop"
        /\ queue' = [queue EXCEPT ![victim] = Append(@, emTask)]
        /\ UNCHANGED <<captured, execTask, wTask>>
    BY <1>5 DEF Send, workerVars
  <2>2. emTask \in Task
    BY <2>1 DEF ThreadInv, TasksHeld
  <2>3. ASSUME NEW w \in Worker
        PROVE  Len(queue'[w]) = Len(queue[w]) + Sent(w)
    <3>1. CASE w = victim
      <4>1. queue'[w] = Append(queue[w], emTask) /\ Sent(w) = 1
        BY <2>1, <3>1 DEF ThreadInv, TaskTypes, Sent
      <4>2. QED
        BY <1>1, <2>2, <4>1
    <3>2. CASE w # victim
      BY <1>1, <2>1, <3>2 DEF ThreadInv, TaskTypes, Sent
    <3>3. QED
      BY <3>1, <3>2
  <2>4. \A w \in Worker : Sent(w)' = 0 /\ Held(w)' = Held(w)
    BY <2>1 DEF Sent, Held
  <2>5. ASSUME NEW w \in Worker
        PROVE  captured'[w] = Total(w)'
    <3>1. /\ captured[w] = Total(w) /\ Len(queue'[w]) = Len(queue[w]) + Sent(w)
          /\ Sent(w)' = 0 /\ Held(w)' = Held(w)
      BY <1>0, <2>3, <2>4
    <3>2. captured'[w] = captured[w] /\ execTask'[w] = execTask[w]
      BY <2>1
    <3>3. /\ captured[w] \in Nat /\ execTask[w] \in Nat /\ Len(queue[w]) \in Nat
          /\ Held(w) \in {0, 1} /\ Sent(w) \in {0, 1}
      BY <1>1
    <3>4. QED
      BY <3>1, <3>2, <3>3
  <2>6. QED
    BY <1>0, <2>5
<1>6. ASSUME NEW w \in Worker, TakeTask(w)
      PROVE  NothingLost'
  <2>1. /\ queue[w] # << >> /\ wTask[w] = NoTask
        /\ queue' = [queue EXCEPT ![w] = Tail(@)]
        /\ wTask' = [wTask EXCEPT ![w] = Head(queue[w])]
        /\ UNCHANGED <<captured, execTask, emPc, emTask>>
    BY <1>6 DEF TakeTask, ThreadInv, TaskTypes, TasksHeld, critical, emitterVars
  <2>2. Head(queue[w]) \in Task /\ Len(Tail(queue[w])) = Len(queue[w]) - 1
    BY <1>1, <2>1
  <2>3. Head(queue[w]) # NoTask
    BY <2>2, NoTaskIsNone
  <2>4. ASSUME NEW v \in Worker
        PROVE  Len(queue'[v]) + Held(v)' = Len(queue[v]) + Held(v)
    <3>1. CASE v = w
      <4>1. queue'[v] = Tail(queue[w]) /\ Held(v) = 0 /\ Held(v)' = 1
        BY <2>1, <2>3, <3>1 DEF ThreadInv, TaskTypes, Held
      <4>2. QED
        BY <1>1, <2>2, <3>1, <4>1
    <3>2. CASE v # w
      BY <2>1, <3>2 DEF ThreadInv, TaskTypes, Held
    <3>3. QED
      BY <3>1, <3>2
  <2>5. \A v \in Worker : Len(queue'[v]) \in Nat /\ Held(v)' \in {0, 1} /\ Sent(v)' = Sent(v)
    BY <1>1, <2>1, <2>2 DEF ThreadInv, TaskTypes, Held, Sent
  <2>6. QED
    BY <1>0, <1>1, <2>1, <2>4, <2>5
<1>7. ASSUME NEW w \in Worker, UnlockSelf(w)
      PROVE  NothingLost'
  <2>1. /\ wTask[w] # NoTask
        /\ wTask' = [wTask EXCEPT ![w] = NoTask]
        /\ execTask' = [execTask EXCEPT ![w] = @ + 1]
        /\ UNCHANGED <<captured, queue, emPc, emTask>>
    BY <1>7, NoTaskIsNone DEF UnlockSelf, ThreadInv, TasksHeld, critical, emitterVars
  <2>2. \A v \in Worker : execTask'[v] + Held(v)' = execTask[v] + Held(v)
    BY <1>1, <2>1 DEF ThreadInv, TaskTypes, Held
  <2>3. \A v \in Worker : execTask'[v] \in Nat /\ Held(v)' \in {0, 1} /\ Sent(v)' = Sent(v)
    BY <1>1, <2>1 DEF ThreadInv, TaskTypes, Held, Sent
  <2>4. QED
    BY <1>0, <1>1, <2>1, <2>2, <2>3
<1>8. ASSUME NEW w \in Worker, WorkerStep(w)
      PROVE  NothingLost'
  <2>1. CASE EndOfStream(w) \/ LockSelf(w) \/ Lookup(w) \/ Update(w) \/ Filter(w) \/ Insert(w)
    BY <1>2, <2>1 DEF EndOfStream, LockSelf, Lookup, Update, Filter, Insert, emitterVars
  <2>2. QED
    BY <1>6, <1>7, <1>8, <2>1 DEF WorkerStep
<1>9. CASE Main \/ RunFails \/ PcapError \/ EndOfCapture \/ RaiseSignal
  <2>1. CASE RunFarm \/ EndOfCapture
    BY <1>3, <2>1 DEF RunFarm, EndOfCapture, workerVars, ControlInv, NotStarted
  <2>2. CASE ~ (RunFarm \/ EndOfCapture)
    BY <1>2, <1>9, <2>2 DEF Main, Go, FarmEnds, StopAnalyzer, JoinAnalyzer, CloseExporter, CleanUp,
         Exit, RunFails, PcapError, RaiseSignal, farmVars, emitterVars, workerVars
  <2>3. QED
    BY <2>1, <2>2
<1>10. CASE LoopTest \/ TimeUp \/ SignalReceived \/ WaitInterrupted \/ Analysis
  BY <1>2, <1>10
     DEF LoopTest, TimeUp, SignalReceived, WaitInterrupted, Analysis, LockNext, CleanNext, Adapt,
         RefilterNext, UnlockNext, WriteReport, ExportResults, farmVars, emitterVars, workerVars
<1>11. CASE Gone \/ UNCHANGED vars
  BY <1>2, <1>11 DEF Gone, vars, farmVars, emitterVars, workerVars
<1>12. QED
  BY <1>4, <1>5, <1>8, <1>9, <1>10, <1>11 DEF Next

(* No packet that pcap handed over is lost or counted twice, whatever the  *)
(* capacity of the queues and however the farm is interrupted.             *)
THEOREM PacketsKept == Spec => []NothingLost
<1>1. ControlInv /\ ThreadInv /\ NothingLost /\ [Next]_vars => NothingLost'
  BY CountedStep
<1>2. Below => ControlInv /\ ThreadInv
  BY DEF Below
<1>3. QED
  BY <1>1, <1>2, CountedInit, FarmInvariance, PTL DEF Spec

-----------------------------------------------------------------------------
(* The end *)

afterFarm == {"stop", "join", "close", "cleanup", "exit"}

(* A worker has ended only behind an emitter that has ended and with       *)
(* nothing left to do; main is past the farm only when all have ended.     *)
Ended ==
  /\ \A w \in Worker : wPc[w] = "ended" => emPc = "ended" /\ queue[w] = << >>
  /\ mainPc \in afterFarm => \A w \in Worker : wPc[w] = "ended"

(* What main has done to the analyzer and the exporter by where it is.     *)
Phases ==
  /\ exporterOpen <=> mainPc \in {"run", "wait", "stop", "join", "close"}
  /\ deleted <=> mainPc = "exit"
  /\ mainPc \in {"close", "cleanup", "exit"} => anPc = "ended"

(* An analyzer that stop() found waiting, once it is past the cleaning of  *)
(* a worker, leaves nothing unseen there: no worker is left to add to it,  *)
(* and no further wait begins.                                             *)
Covered ==
  unhurried =>
    /\ mainPc \in afterFarm \ {"stop"} /\ m_stoprequested
    /\ anPc # "off"
    /\ anPc = "clean" => \A w \in Worker : w < anIdx => unseen[w] = 0
    /\ anPc \notin {"wait", "lock", "clean"} => \A w \in Worker : unseen[w] = 0

EndInv == Ended /\ Phases /\ Covered

LEMMA EndInit == Init => EndInv
BY DEF Init, EndInv, Ended, Phases, Covered, afterFarm

LEMMA EndUnchanged ==
  ASSUME EndInv, UNCHANGED <<mainVars, emPc, queue, wPc, anPc, anIdx, m_stoprequested, unseen>>
  PROVE  EndInv'
BY DEF EndInv, Ended, Phases, Covered, mainVars

LEMMA EndMain ==
  ASSUME EndInv, Below, Main
  PROVE  EndInv'
<1> USE DEF EndInv, Ended, Phases, Covered, afterFarm, Below, ControlInv, NotStarted,
            farmVars, emitterVars, workerVars, dataVars, analyzerVars
<1>1. CASE Go
  BY <1>1 DEF Go
<1>2. CASE RunFarm
  BY <1>2 DEF RunFarm
<1>3. CASE FarmEnds
  BY <1>3 DEF FarmEnds
<1>4. CASE StopAnalyzer
  BY <1>4 DEF StopAnalyzer
<1>5. CASE JoinAnalyzer
  BY <1>5 DEF JoinAnalyzer
<1>6. CASE CloseExporter \/ CleanUp \/ Exit
  BY <1>6 DEF CloseExporter, CleanUp, Exit, mainVars
<1>7. QED
  BY <1>1, <1>2, <1>3, <1>4, <1>5, <1>6 DEF Main

LEMMA EndWorker ==
  ASSUME EndInv, Below, NEW w \in Worker, WorkerStep(w)
  PROVE  EndInv'
<1>1. wPc \in [Worker -> {"off", "idle", "lock", "ended"} \cup critical]
  BY DEF Below, ControlInv, ControlTypes
<1>2. /\ wPc[w] # "ended" /\ mainPc \notin afterFarm /\ ~ unhurried
      /\ UNCHANGED <<mainVars, emPc, analyzerVars>>
  BY DEF EndInv, Ended, Covered, afterFarm, WorkerStep, TakeTask, EndOfStream, LockSelf, Lookup,
         Update, Filter, Insert, UnlockSelf, emitterVars
<1>3. CASE EndOfStream(w)
  BY <1>1, <1>2, <1>3 DEF EndOfStream, EndInv, Ended, Phases, Covered, mainVars, analyzerVars
<1>4. CASE ~ EndOfStream(w)
  <2>1. /\ wPc'[w] # "ended"
        /\ \A v \in Worker : v # w => wPc'[v] = wPc[v] /\ queue'[v] = queue[v]
    BY <1>1, <1>4 DEF WorkerStep, TakeTask, LockSelf, Lookup, Update, Filter, Insert, UnlockSelf,
                      Below, ThreadInv, TaskTypes
  <2>2. QED
    BY <1>2, <2>1 DEF EndInv, Ended, Phases, Covered, mainVars, analyzerVars
<1>5. QED
  BY <1>3, <1>4

LEMMA EndAnalyzer ==
  ASSUME EndInv, Below, DataInv, LoopTest \/ TimeUp \/ SignalReceived \/ WaitInterrupted \/ Analysis
  PROVE  EndInv'
<1>1. Ended'
  BY DEF LoopTest, TimeUp, SignalReceived, WaitInterrupted, Analysis, LockNext, CleanNext, Adapt,
         RefilterNext, UnlockNext, WriteReport, ExportResults, EndInv, Ended, mainVars, farmVars,
         emitterVars, workerVars
<1>2. anPc # "ended" /\ UNCHANGED <<mainPc, exporterOpen, deleted>>
  BY DEF LoopTest, TimeUp, SignalReceived, WaitInterrupted, Analysis, LockNext, CleanNext, Adapt,
         RefilterNext, UnlockNext, WriteReport, ExportResults, mainVars
<1>3. Phases'
  BY <1>2 DEF EndInv, Phases
<1>4. Covered'
  <2> USE DEF EndInv, Covered, mainVars, farmVars, dataVars, afterFarm
  <2>1. CASE LoopTest
    BY <2>1 DEF LoopTest
  <2>2. CASE TimeUp \/ SignalReceived
    BY <2>2 DEF TimeUp, SignalReceived
  <2>3. CASE WaitInterrupted
    BY <2>3 DEF WaitInterrupted
  <2>4. CASE LockNext
    <3>1. ASSUME anIdx' = 1
          PROVE  \A w \in Worker : ~ (w < anIdx')
      BY <3>1, FarmAssumption DEF Worker
    <3>2. QED
      BY <2>4, <3>1 DEF LockNext, NextIndexOr
  <2>5. CASE CleanNext
    <3>1. /\ unseen' = [unseen EXCEPT ![anIdx] = 0] /\ NextIndexOr("adapt")
          /\ anPc = "clean" /\ UNCHANGED <<mainPc, unhurried, m_stoprequested>>
      BY <2>5 DEF CleanNext
    <3>2. anIdx \in Worker /\ unseen \in [Worker -> Nat]
      BY DEF Below, ControlInv, ControlTypes, DataInv, DataTypes
    <3>3. QED
      BY <3>1, <3>2, FarmAssumption DEF NextIndexOr, Worker
  <2>6. CASE Adapt \/ RefilterNext \/ UnlockNext
    BY <2>6 DEF Adapt, RefilterNext, UnlockNext, NextIndexOr
  <2>7. CASE WriteReport \/ ExportResults
    BY <2>7 DEF WriteReport, ExportResults
  <2>8. QED
    BY <2>1, <2>2, <2>3, <2>4, <2>5, <2>6, <2>7 DEF Analysis
<1>5. QED
  BY <1>1, <1>3, <1>4 DEF EndInv

LEMMA EndStep == Below /\ DataInv /\ EndInv /\ [Next]_vars => EndInv'
<1> SUFFICES ASSUME Below, DataInv, EndInv, [Next]_vars PROVE EndInv'
  OBVIOUS
<1>1. CASE Main
  BY <1>1, EndMain
<1>2. CASE RunFails \/ PcapError \/ RaiseSignal
  BY <1>2, EndUnchanged DEF RunFails, PcapError, RaiseSignal, mainVars, farmVars, emitterVars,
                            workerVars, dataVars, analyzerVars
<1>3. ASSUME NEW f \in Flow, NEW octets \in Octets, Capture(f, octets)
      PROVE  EndInv'
  BY <1>3 DEF Capture, EndInv, Ended, Phases, Covered, mainVars, workerVars, dataVars, analyzerVars
<1>4. CASE Send \/ EndOfCapture
  <2>1. /\ \A w \in Worker : wPc[w] # "ended"
        /\ UNCHANGED <<mainVars, wPc, unseen, analyzerVars>>
    BY <1>4 DEF Send, EndOfCapture, EndInv, Ended, workerVars, dataVars
  <2>2. QED
    BY <2>1 DEF EndInv, Ended, Phases, Covered, mainVars, workerVars, analyzerVars
<1>5. ASSUME NEW w \in Worker, WorkerStep(w)
      PROVE  EndInv'
  BY <1>5, EndWorker
<1>6. CASE LoopTest \/ TimeUp \/ SignalReceived \/ WaitInterrupted \/ Analysis
  BY <1>6, EndAnalyzer
<1>7. CASE Gone \/ UNCHANGED vars
  BY <1>7, EndUnchanged DEF Gone, vars, farmVars, emitterVars, workerVars, dataVars, analyzerVars
<1>8. QED
  BY <1>1, <1>2, <1>3, <1>4, <1>5, <1>6, <1>7 DEF Next

LEMMA EndInvariance == Spec => []EndInv
BY EndInit, EndStep, FarmInvariance, PTL DEF Spec

(* When run_and_wait_end() returns, every packet captured has been through *)
(* its worker, also after pcap_breakloop.                                  *)
THEOREM Drained == Spec => []FarmDrains
<1>1. Below /\ NothingLost /\ EndInv => FarmDrains
  <2> SUFFICES ASSUME Below, NothingLost, EndInv, mainPc \in afterFarm
               PROVE  captured = execTask
    BY DEF FarmDrains, afterFarm
  <2>1. /\ captured \in [Worker -> Nat] /\ execTask \in [Worker -> Nat]
        /\ wTask \in [Worker -> Task \cup {NoTask}]
    BY DEF Below, ThreadInv, TaskTypes
  <2>2. ASSUME NEW w \in Worker
        PROVE  captured[w] = execTask[w]
    <3>1. wPc[w] = "ended" /\ emPc = "ended" /\ queue[w] = << >>
      BY DEF EndInv, Ended
    <3>2. wTask[w] = NoTask
      BY <2>1, <3>1 DEF Below, ThreadInv, TasksHeld, critical
    <3>3. Len(queue[w]) = 0
      BY <3>1
    <3>4. QED
      BY <2>1, <3>1, <3>2, <3>3 DEF NothingLost
  <2>3. QED
    BY <2>1, <2>2
<1>2. QED
  BY <1>1, FarmInvariance, PacketsKept, EndInvariance, PTL

(* The exporter is open whenever results are exported, and nobody runs     *)
(* when main deletes the workers, the analyzer and the exporter.           *)
THEOREM OrderlyEnd == Spec => []NoUseAfterEnd
<1>1. Below /\ EndInv => NoUseAfterEnd
  <2> SUFFICES ASSUME Below, EndInv PROVE NoUseAfterEnd
    OBVIOUS
  <2>1. anPc \in {"export", "flush"} => mainPc \notin {"start", "close", "cleanup", "exit"}
    BY DEF EndInv, Phases, Below, ControlInv, NotStarted
  <2>2. mainPc \in {"start", "run", "wait", "stop", "join", "close", "cleanup", "exit"}
    BY DEF Below, ThreadInv, ThreadTypes
  <2>3. anPc \in {"export", "flush"} => exporterOpen
    BY <2>1, <2>2 DEF EndInv, Phases
  <2>4. deleted => anPc = "ended" /\ \A w \in Worker : wPc[w] = "ended"
    BY DEF EndInv, Phases, Ended, afterFarm
  <2>5. QED
    BY <2>3, <2>4 DEF NoUseAfterEnd
<1>2. QED
  BY <1>1, FarmInvariance, EndInvariance, PTL

(* stop() on a waiting analyzer still gets a complete analysis of the last *)
(* interval, if nothing interrupts the wait.                               *)
THEOREM LastIntervalSeen == Spec => []FinalCoverage
<1>1. EndInv => FinalCoverage
  BY DEF EndInv, Phases, Covered, FinalCoverage
<1>2. QED
  BY <1>1, EndInvariance, PTL

-----------------------------------------------------------------------------
(* The thresholds of the farm move in an analysis only, by its number of   *)
(* results.                                                                *)
LEMMA AdaptationStep ==
  ASSUME Below, DataInv, [Next]_vars
  PROVE  UNCHANGED tvars \/ (Cardinality(results) \in Nat /\ Interval(Cardinality(results)))
<1>1. CASE Main \/ RunFails \/ PcapError
  BY <1>1 DEF Main, Go, RunFarm, FarmEnds, StopAnalyzer, JoinAnalyzer, CloseExporter, CleanUp, Exit,
              RunFails, PcapError
<1>2. CASE (\E f \in Flow, octets \in Octets : Capture(f, octets)) \/ Send \/ EndOfCapture
  BY <1>2 DEF Capture, Send, EndOfCapture
<1>3. ASSUME NEW w \in Worker, WorkerStep(w)
      PROVE  UNCHANGED tvars
  BY <1>3
     DEF WorkerStep, TakeTask, EndOfStream, LockSelf, Lookup, Update, Filter, Insert, UnlockSelf
<1>4. CASE LoopTest \/ TimeUp \/ SignalReceived \/ WaitInterrupted \/ RaiseSignal
  BY <1>4 DEF LoopTest, TimeUp, SignalReceived, WaitInterrupted, RaiseSignal
<1>5. CASE LockNext \/ CleanNext \/ RefilterNext \/ UnlockNext \/ WriteReport \/ ExportResults
  BY <1>5 DEF LockNext, CleanNext, RefilterNext, UnlockNext, WriteReport, ExportResults
<1>6. CASE Adapt
  <2>1. Cardinality(results) \in Nat
    BY FS_CardinalityType DEF DataInv, DataTypes
  <2>2. QED
    BY <1>6, <2>1 DEF Adapt
<1>7. CASE Gone \/ UNCHANGED vars
  BY <1>7 DEF Gone, vars
<1>8. QED
  BY <1>1, <1>2, <1>3, <1>4, <1>5, <1>6, <1>7 DEF Next, Analysis

(* The farm's analyzer adapts as Thresholds says, with whatever number of  *)
(* results the workers' tables give it, so that what is proved of the      *)
(* component is true of the farm.                                          *)
THEOREM FarmAdapts == ResultSizes = Nat => (Spec => ThresholdSpec)
<1> SUFFICES ASSUME ResultSizes = Nat PROVE Spec => ThresholdSpec
  OBVIOUS
<1>1. Init => ThresholdInit
  BY DEF Init
<1>2. Below /\ DataInv /\ [Next]_vars => [ThresholdNext]_tvars
  BY AdaptationStep DEF ThresholdNext
<1>3. QED
  BY <1>1, <1>2, FarmInvariance, PTL DEF Spec, ThresholdSpec

(* In the farm, for every traffic and whatever ResultSizes is, the         *)
(* thresholds stay in range, fall only after three quiet analyses, and     *)
(* never fall under pressure.                                              *)
THEOREM FarmThresholds ==
  Spec => []ThresholdsInRange /\ DecreasePaced /\ PressureNeverLowers
<1> DEFINE Paced == t_threshold' < t_threshold => quiet >= 3
           KeptUp == Pressure(entriesUsedAVG(e1', e2', e3')) => t_threshold' >= t_threshold
<1>1. DataInv => ThresholdsInRange
  BY DEF DataInv, TInv, ThresholdsInRange
<1>2. Below /\ DataInv /\ [Next]_vars => [Paced]_tvars /\ [KeptUp]_tvars
  <2> SUFFICES ASSUME Below, DataInv, Cardinality(results) \in Nat, Interval(Cardinality(results))
               PROVE  Paced /\ KeptUp
    BY AdaptationStep
  <2> DEFINE n == Cardinality(results)
  <2>1. n \in Nat /\ Interval(n) /\ TInv
    BY DEF DataInv
  <2> HIDE DEF n
  <2>2. t_threshold' < t_threshold => quiet = 3
    BY <2>1, IntervalStep
  <2>3. e1' = n /\ e2' = e1 /\ e3' = e2
    BY <2>1 DEF Interval
  <2>4. Pressure(entriesUsedAVG(n, e1, e2)) => t_threshold <= t_threshold'
    BY <2>1, IntervalStep
  <2>5. TInv'
    BY <2>1, IntervalStep
  <2>6. t_threshold \in Nat /\ t_threshold' \in Nat
    BY <2>1, <2>5, ThresholdAssumption DEF TInv, ThresholdTypeOK
  <2>7. QED
    BY <2>2, <2>3, <2>4, <2>6
<1>3. QED
  BY <1>1, <1>2, FarmInvariance, PTL DEF Spec, DecreasePaced, PressureNeverLowers
=============================================================================
