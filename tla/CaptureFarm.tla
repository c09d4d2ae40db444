---------------------------- MODULE CaptureFarm ----------------------------
(***************************************************************************)
(* The running program: the emitter and the workers of the farm, the       *)
(* analyzer thread and main, in the Linux build (__USE_LINUX).             *)
(*                                                                         *)
(* The emitter turns captured packets into tasks and sends each to the     *)
(* worker its flow is dispatched to.  A worker holds its own lock while it *)
(* looks the flow up and updates the table or asks the filter.  The        *)
(* analyzer, when the interval is over or on SIGINT/SIGTERM, takes the     *)
(* locks of all workers, cleans their tables, adapts the thresholds,       *)
(* resets their filters, releases the locks and exports the results.       *)
(*                                                                         *)
(* The data are those of FlowTable, MultistageFilter and Thresholds.       *)
(* External: FastFlow's queues and end of stream, libpcap, POSIX signals   *)
(* and mutexes, modelled from how the code uses them.                      *)
(***************************************************************************)
EXTENDS Thresholds, FlowTable, MultistageFilter, Sequences, FiniteSets

CONSTANTS
  NumWorkers,           \* nWorkers
  Dispatch,             \* the worker dispatchPolicy chooses for a flow
  Octets,               \* lengths of packets
  QueueCap,             \* capacity of a FastFlow queue
  MaxPackets,           \* bound: packets captured for each worker
  MaxIntervals          \* bound: analyses of a timer, the last one aside

Worker == 1..NumWorkers

ASSUME FarmAssumption ==
  /\ IsFiniteSet(Flow)
  /\ NumWorkers \in Nat \ {0}
  /\ Dispatch \in [Flow -> Worker]
  /\ Octets \subseteq 0..(OctetMod - 1)
  /\ QueueCap \in Nat \ {0}
  /\ MaxPackets \in [Worker -> Nat]
  /\ MaxIntervals \in Nat

Task == [fid : Flow, dOctets : Octets]
NoTask == [fid |-> "none"]

VARIABLES
  proc,                 \* the process: "up", "exited" or "aborted"
  mainPc,               \* where main() is
  emPc, emTask,         \* the emitter thread, and the task it is sending
  breakloop,            \* pcap's flag, set by pcap_breakloop
  queue,                \* FastFlow's queue to each worker
  wPc, wTask,           \* each worker thread, and the task in svc
  lock,                 \* holder of each worker's mutex
  table,                \* each worker's hash table
  count, threshold,     \* each worker's multistage filter
  anPc, anIdx,          \* the analyzer thread, and the index of its loops
  results,              \* the results of the analysis under way
  closing,              \* it is the analysis of SIGINT/SIGTERM
  m_stoprequested,
  exporterOpen,         \* the output file is open
  deleted,              \* main has deleted workers, analyzer and exporter
  sigPending,           \* SIGINT or SIGTERM is pending, blocked everywhere
  intervals,            \* analyses of a timer so far
  captured,             \* packets of each worker's flows (history)
  execTask,             \* packets each worker is done with
  unseen,               \* those of them no analysis has seen (history)
  buffer,               \* numbers of the reports in the exporter's stream
  file,                 \* numbers of those in the output file
  unhurried             \* main asked a waiting analyzer to stop, and
                        \* nothing has interrupted that wait (history)

outputVars == <<buffer, file>>
mainVars == <<mainPc, exporterOpen, deleted, unhurried, outputVars>>
emitterVars == <<emPc, emTask, breakloop, captured>>
workerVars == <<wPc, wTask, execTask>>
dataVars == <<table, count, threshold, unseen>>
analyzerVars == <<anPc, anIdx, results, closing, m_stoprequested, sigPending, intervals>>
farmVars == <<emitterVars, queue, workerVars, lock, dataVars>>
vars == <<proc, mainVars, farmVars, analyzerVars, tvars>>

critical == {"lookup", "update", "filter", "insert", "unlock"}

FarmTypeOK ==
  /\ proc \in {"up", "exited", "aborted"}
  /\ mainPc \in {"start", "run", "wait", "stop", "join", "close", "cleanup", "exit"}
  /\ emPc \in {"off", "loop", "send", "ended"}
  /\ emTask \in Task \cup {NoTask}
  /\ breakloop \in {"unset", "set", "last"}
  /\ queue \in [Worker -> Seq(Task)]
  /\ wPc \in [Worker -> {"off", "idle", "lock", "ended"} \cup critical]
  /\ wTask \in [Worker -> Task \cup {NoTask}]
  /\ lock \in [Worker -> {"free", "worker", "analyzer"}]
  /\ table \in [Worker -> Tables]
  /\ count \in [Worker -> Counters]
  /\ threshold \in [Worker -> Nat]
  /\ anPc \in {"off", "loop", "wait", "lock", "clean", "adapt", "refilter",
               "unlock", "export", "flush", "ended"}
  /\ anIdx \in Worker
  /\ results \subseteq [worker : Worker, fid : Flow, fd : Descriptor]
  /\ closing \in BOOLEAN /\ m_stoprequested \in BOOLEAN
  /\ exporterOpen \in BOOLEAN /\ deleted \in BOOLEAN
  /\ sigPending \in BOOLEAN
  /\ intervals \in Nat
  /\ captured \in [Worker -> Nat]
  /\ execTask \in [Worker -> Nat] /\ unseen \in [Worker -> Nat]
  /\ buffer \in Seq(Nat) /\ file \in Seq(Nat)
  /\ unhurried \in BOOLEAN
  /\ ThresholdTypeOK

Init ==
  /\ proc = "up" /\ mainPc = "start"
  /\ emPc = "off" /\ emTask = NoTask /\ breakloop = "unset"
  /\ queue = [w \in Worker |-> << >>]
  /\ wPc = [w \in Worker |-> "off"] /\ wTask = [w \in Worker |-> NoTask]
  /\ lock = [w \in Worker |-> "free"]
  /\ table = [w \in Worker |-> EmptyTable]
  /\ count = [w \in Worker |-> ZeroCounters]
  /\ threshold = [w \in Worker |-> InitialThreshold(FirstThreshold)]
  /\ anPc = "off" /\ anIdx = 1 /\ results = {}
  /\ closing = FALSE /\ m_stoprequested = FALSE
  /\ exporterOpen = FALSE /\ deleted = FALSE
  /\ sigPending = FALSE
  /\ intervals = 0 /\ captured = [w \in Worker |-> 0]
  /\ execTask = [w \in Worker |-> 0] /\ unseen = [w \in Worker |-> 0]
  /\ buffer = << >> /\ file = << >>
  /\ unhurried = FALSE
  /\ ThresholdInit

-----------------------------------------------------------------------------
(* main()                                                                  *)

(* Analyzer::go: open the exporter, start the thread.                      *)
Go ==
  /\ proc = "up" /\ mainPc = "start"
  /\ mainPc' = "run"
  /\ exporterOpen' = TRUE
  /\ anPc' = "loop"
  /\ UNCHANGED <<proc, deleted, unhurried, outputVars, farmVars, tvars,
                 anIdx, results, closing, m_stoprequested, sigPending, intervals>>

(* farm.run_and_wait_end() starts the threads of the farm ...              *)
RunFarm ==
  /\ proc = "up" /\ mainPc = "run"
  /\ mainPc' = "wait"
  /\ emPc' = "loop"
  /\ wPc' = [w \in Worker |-> "idle"]
  /\ UNCHANGED <<proc, exporterOpen, deleted, unhurried, outputVars, emTask, breakloop, captured,
                 queue, wTask, execTask, lock, dataVars, analyzerVars, tvars>>

(* ... or fails to, and main exits under the running analyzer.             *)
RunFails ==
  /\ proc = "up" /\ mainPc = "run"
  /\ proc' = "exited"
  /\ UNCHANGED <<mainVars, farmVars, analyzerVars, tvars>>

(* Slip: the end of the emitter is taken for the end of the farm. *)
FarmEndsEarly ==
  /\ proc = "up" /\ mainPc = "wait"
  /\ emPc = "ended"
  /\ mainPc' = "stop"
  /\ UNCHANGED <<proc, exporterOpen, deleted, unhurried, outputVars, farmVars, analyzerVars,
                 tvars>>

(* ... and returns when all of them have ended.                            *)
FarmEnds ==
  /\ proc = "up" /\ mainPc = "wait"
  /\ emPc = "ended" /\ \A w \in Worker : wPc[w] = "ended"
  /\ mainPc' = "stop"
  /\ UNCHANGED <<proc, exporterOpen, deleted, unhurried, outputVars, farmVars, analyzerVars,
                 tvars>>

(* Analyzer::stop asks the thread to stop ...                              *)
StopAnalyzer ==
  /\ proc = "up" /\ mainPc = "stop"
  /\ mainPc' = "join"
  /\ m_stoprequested' = TRUE
  /\ unhurried' = (anPc = "wait")
  /\ UNCHANGED <<proc, exporterOpen, deleted, outputVars, farmVars, tvars,
                 anPc, anIdx, results, closing, sigPending, intervals>>

(* Slip: pthread_join forgotten. *)
JoinNotAnalyzer ==
  /\ proc = "up" /\ mainPc = "join"
  /\ mainPc' = "close"
  /\ UNCHANGED <<proc, exporterOpen, deleted, unhurried, outputVars, farmVars, analyzerVars,
                 tvars>>

(* ... waits for it to end ...                                             *)
JoinAnalyzer ==
  /\ proc = "up" /\ mainPc = "join"
  /\ anPc = "ended"
  /\ mainPc' = "close"
  /\ UNCHANGED <<proc, exporterOpen, deleted, unhurried, outputVars, farmVars, analyzerVars,
                 tvars>>

(* ... and closes the exporter.                                            *)
CloseExporter ==
  /\ proc = "up" /\ mainPc = "close"
  /\ mainPc' = "cleanup"
  /\ exporterOpen' = FALSE
  /\ file' = file \o buffer /\ buffer' = << >>
  /\ UNCHANGED <<proc, deleted, unhurried, farmVars, analyzerVars, tvars>>

(* cleanUp: delete the workers, the analyzer and the exporter.             *)
CleanUp ==
  /\ proc = "up" /\ mainPc = "cleanup"
  /\ mainPc' = "exit"
  /\ deleted' = TRUE
  /\ UNCHANGED <<proc, exporterOpen, unhurried, outputVars, farmVars, analyzerVars, tvars>>

Exit ==
  /\ proc = "up" /\ mainPc = "exit"
  /\ proc' = "exited"
  /\ UNCHANGED <<mainVars, farmVars, analyzerVars, tvars>>

-----------------------------------------------------------------------------
(* The emitter                                                             *)

(* pcap_loop hands a packet to handler(), which makes a task of it and     *)
(* chooses the worker.  After pcap_breakloop one more packet may come.     *)
Capture(f, octets) ==
  /\ proc = "up" /\ emPc = "loop"
  /\ breakloop # "last" /\ captured[Dispatch[f]] < MaxPackets[Dispatch[f]]
  /\ emPc' = "send"
  /\ emTask' = [fid |-> f, dOctets |-> octets]
  /\ captured' = [captured EXCEPT ![Dispatch[f]] = @ + 1]
  /\ breakloop' = IF breakloop = "set" THEN "last" ELSE breakloop
  /\ UNCHANGED <<proc, mainVars, queue, workerVars, lock, dataVars, analyzerVars, tvars>>

(* Slip: set_victim forgotten, so that the victim is always the first. *)
SendToFirst ==
  /\ proc = "up" /\ emPc = "send"
  /\ Len(queue[1]) < QueueCap
  /\ queue' = [queue EXCEPT ![1] = Append(@, emTask)]
  /\ emPc' = "loop"
  /\ emTask' = NoTask
  /\ UNCHANGED <<proc, mainVars, breakloop, captured, workerVars, lock, dataVars,
                     analyzerVars, tvars>>

(* ff_send_out to the victim, once its queue has room.                     *)
Send ==
  LET victim == Dispatch[emTask.fid]
  IN  /\ proc = "up" /\ emPc = "send"
      /\ Len(queue[victim]) < QueueCap
      /\ queue' = [queue EXCEPT ![victim] = Append(@, emTask)]
      /\ emPc' = "loop"
      /\ emTask' = NoTask
      /\ UNCHANGED <<proc, mainVars, breakloop, captured, workerVars, lock, dataVars,
                     analyzerVars, tvars>>

(* pcap_loop returns 0 at the end of a file or after cnt packets, or -2    *)
(* after pcap_breakloop.  Either way svc returns NULL: end of stream.      *)
EndOfCapture ==
  /\ proc = "up" /\ emPc = "loop"
  /\ emPc' = "ended"
  /\ UNCHANGED <<proc, mainVars, emTask, breakloop, captured, queue, workerVars, lock,
                 dataVars, analyzerVars, tvars>>

(* The case of pcap_breakloop, which pcap_loop is sure to notice.          *)
BreakLoop == breakloop # "unset" /\ EndOfCapture

(* pcap_loop returns -1: svc throws, and nothing catches it.               *)
PcapError ==
  /\ proc = "up" /\ emPc = "loop"
  /\ proc' = "aborted"
  /\ UNCHANGED <<mainVars, farmVars, analyzerVars, tvars>>

-----------------------------------------------------------------------------
(* A worker: Worker::svc, one task at a time                               *)

(* Slip: the task stays in the queue. *)
TakeTaskTwice(w) ==
  /\ proc = "up" /\ wPc[w] = "idle"
  /\ queue[w] # << >>
  /\ wTask' = [wTask EXCEPT ![w] = Head(queue[w])]
  /\ wPc' = [wPc EXCEPT ![w] = "lock"]
  /\ UNCHANGED <<proc, mainVars, emitterVars, queue, execTask, lock, dataVars, analyzerVars,
                 tvars>>

TakeTask(w) ==
  /\ proc = "up" /\ wPc[w] = "idle"
  /\ queue[w] # << >>
  /\ wTask' = [wTask EXCEPT ![w] = Head(queue[w])]
  /\ queue' = [queue EXCEPT ![w] = Tail(@)]
  /\ wPc' = [wPc EXCEPT ![w] = "lock"]
  /\ UNCHANGED <<proc, mainVars, emitterVars, execTask, lock, dataVars, analyzerVars, tvars>>

(* FastFlow ends a worker when it has drained a queue that will get no     *)
(* more tasks.                                                             *)
EndOfStream(w) ==
  /\ proc = "up" /\ wPc[w] = "idle"
  /\ emPc = "ended" /\ queue[w] = << >>
  /\ wPc' = [wPc EXCEPT ![w] = "ended"]
  /\ UNCHANGED <<proc, mainVars, emitterVars, queue, wTask, execTask, lock, dataVars,
                 analyzerVars, tvars>>

(* Slip: the lock is not taken. *)
LockSelfNot(w) ==
  /\ proc = "up" /\ wPc[w] = "lock"
  /\ wPc' = [wPc EXCEPT ![w] = "lookup"]
  /\ UNCHANGED <<proc, mainVars, emitterVars, queue, wTask, execTask, lock, dataVars,
                 analyzerVars, tvars>>

LockSelf(w) ==
  /\ proc = "up" /\ wPc[w] = "lock"
  /\ lock[w] = "free"
  /\ lock' = [lock EXCEPT ![w] = "worker"]
  /\ wPc' = [wPc EXCEPT ![w] = "lookup"]
  /\ UNCHANGED <<proc, mainVars, emitterVars, queue, wTask, execTask, dataVars,
                 analyzerVars, tvars>>

(* Shielding: a stored flow does not reach the filter.                     *)
Lookup(w) ==
  /\ proc = "up" /\ wPc[w] = "lookup"
  /\ wPc' = [wPc EXCEPT ![w] = IF lookupFlow(table[w], wTask[w].fid) THEN "update" ELSE "filter"]
  /\ UNCHANGED <<proc, mainVars, emitterVars, queue, wTask, execTask, lock, dataVars,
                 analyzerVars, tvars>>

Update(w) ==
  /\ proc = "up" /\ wPc[w] = "update"
  /\ table' = [table EXCEPT ![w] = updateTable(@, wTask[w].fid, wTask[w].dOctets)]
  /\ wPc' = [wPc EXCEPT ![w] = "unlock"]
  /\ UNCHANGED <<proc, mainVars, emitterVars, queue, wTask, execTask, lock, count, threshold,
                 unseen, analyzerVars, tvars>>

Filter(w) ==
  LET f == wTask[w].fid
      octets == wTask[w].dOctets
      pass == Passes(count[w], threshold[w], f, octets)
  IN  /\ proc = "up" /\ wPc[w] = "filter"
      /\ count' = [count EXCEPT ![w] = IF pass THEN @ ELSE Charged(@, threshold[w], f, octets)]
      /\ wPc' = [wPc EXCEPT ![w] = IF pass THEN "insert" ELSE "unlock"]
      /\ UNCHANGED <<proc, mainVars, emitterVars, queue, wTask, execTask, lock, table,
                     threshold, unseen, analyzerVars, tvars>>

Insert(w) ==
  /\ proc = "up" /\ wPc[w] = "insert"
  /\ table' = [table EXCEPT ![w] = insertFlow(@, wTask[w].fid, wTask[w].dOctets)]
  /\ wPc' = [wPc EXCEPT ![w] = "unlock"]
  /\ UNCHANGED <<proc, mainVars, emitterVars, queue, wTask, execTask, lock, count, threshold,
                 unseen, analyzerVars, tvars>>

UnlockSelf(w) ==
  /\ proc = "up" /\ wPc[w] = "unlock"
  /\ lock' = [lock EXCEPT ![w] = "free"]
  /\ wPc' = [wPc EXCEPT ![w] = "idle"]
  /\ wTask' = [wTask EXCEPT ![w] = NoTask]
  /\ execTask' = [execTask EXCEPT ![w] = @ + 1]
  /\ unseen' = [unseen EXCEPT ![w] = @ + 1]
  /\ UNCHANGED <<proc, mainVars, emitterVars, queue, table, count, threshold, analyzerVars,
                 tvars>>

-----------------------------------------------------------------------------
(* The analyzer: do_work and what it calls                                 *)

(* The test of the loop.                                                   *)
LoopTest ==
  /\ proc = "up" /\ anPc = "loop"
  /\ anPc' = IF m_stoprequested THEN "ended" ELSE "wait"
  /\ UNCHANGED <<proc, mainVars, farmVars, anIdx, results, closing, m_stoprequested,
                 sigPending, intervals, tvars>>

(* sigtimedwait returns EAGAIN: the interval is over.                      *)
TimeUp ==
  /\ proc = "up" /\ anPc = "wait" /\ ~ sigPending
  /\ intervals < MaxIntervals \/ m_stoprequested
  /\ anPc' = "lock"
  /\ UNCHANGED <<proc, mainVars, farmVars, anIdx, results, closing, m_stoprequested,
                 sigPending, intervals, tvars>>

(* Slip: stopCapture() forgotten. *)
SignalWithoutBreak ==
  /\ proc = "up" /\ anPc = "wait" /\ sigPending
  /\ sigPending' = FALSE
  /\ closing' = TRUE
  /\ anPc' = "lock"
  /\ UNCHANGED <<proc, mainVars, farmVars, anIdx, results, m_stoprequested, intervals, tvars>>

(* It returns SIGINT or SIGTERM: stopCapture(), then the last analysis.    *)
SignalReceived ==
  /\ proc = "up" /\ anPc = "wait" /\ sigPending
  /\ sigPending' = FALSE
  /\ breakloop' = IF breakloop = "unset" THEN "set" ELSE breakloop
  /\ closing' = TRUE
  /\ anPc' = "lock"
  /\ UNCHANGED <<proc, mainVars, emPc, emTask, captured, queue, workerVars, lock, dataVars,
                 anIdx, results, m_stoprequested, intervals, tvars>>

(* It returns any other error: `continue', and a new wait if not stopped.  *)
WaitInterrupted ==
  /\ proc = "up" /\ anPc = "wait" /\ ~ sigPending
  /\ anPc' = "loop"
  /\ unhurried' = FALSE
  /\ UNCHANGED <<proc, mainPc, exporterOpen, deleted, outputVars, farmVars, anIdx, results, closing,
                 m_stoprequested, sigPending, intervals, tvars>>

(* The loops over the workers: the next index, or the next loop.           *)
NextIndexOr(pc) ==
  IF anIdx < NumWorkers THEN anIdx' = anIdx + 1 /\ UNCHANGED anPc
  ELSE anIdx' = 1 /\ anPc' = pc

(* Slip: the workers are locked one at a time, each only while the         *)
(* analyzer is at it, as the commented-out do_analysis did.                *)
LockFirstOnly ==
  /\ proc = "up" /\ anPc = "lock"
  /\ lock[anIdx] = "free"
  /\ lock' = [lock EXCEPT ![anIdx] = "analyzer"]
  /\ anPc' = "clean" /\ UNCHANGED anIdx
  /\ UNCHANGED <<proc, mainVars, emitterVars, queue, workerVars, dataVars, results, closing,
                 m_stoprequested, sigPending, intervals, tvars>>

LockNext ==
  /\ proc = "up" /\ anPc = "lock"
  /\ lock[anIdx] = "free"
  /\ lock' = [lock EXCEPT ![anIdx] = "analyzer"]
  /\ NextIndexOr("clean")
  /\ UNCHANGED <<proc, mainVars, emitterVars, queue, workerVars, dataVars, results, closing,
                 m_stoprequested, sigPending, intervals, tvars>>

(* checkCleanHashTable on the next worker, with old_t_threshold set to the *)
(* present t_threshold just before.                                        *)
CleanNext ==
  /\ proc = "up" /\ anPc = "clean"
  /\ table' = [table EXCEPT ![anIdx] = Cleaned(@, old_r_threshold, t_threshold)]
  /\ results' = results \cup
       {[worker |-> anIdx, fid |-> r.fid, fd |-> r.fd] :
          r \in Collected(table[anIdx], old_r_threshold, t_threshold)}
  /\ unseen' = [unseen EXCEPT ![anIdx] = 0]
  /\ NextIndexOr("adapt")
  /\ UNCHANGED <<proc, mainVars, emitterVars, queue, workerVars, lock, count, threshold,
                 closing, m_stoprequested, sigPending, intervals, tvars>>

(* The statistics and update_thresholds.                                   *)
Adapt ==
  /\ proc = "up" /\ anPc = "adapt"
  /\ Interval(Cardinality(results))
  /\ anPc' = "refilter"
  /\ UNCHANGED <<proc, mainVars, farmVars, anIdx, results, closing, m_stoprequested,
                 sigPending, intervals>>

(* Slip: the loop stops after the first worker. *)
RefilterFirst ==
  /\ proc = "up" /\ anPc = "refilter"
  /\ threshold' = [threshold EXCEPT ![anIdx] = UpdatedThreshold(t_threshold)]
  /\ count' = [count EXCEPT ![anIdx] = ZeroCounters]
  /\ anPc' = "unlock" /\ UNCHANGED anIdx
  /\ UNCHANGED <<proc, mainVars, emitterVars, queue, workerVars, lock, table, unseen,
                 results, closing, m_stoprequested, sigPending, intervals, tvars>>

(* update_filter_threshold and clean_filter on the next worker.            *)
RefilterNext ==
  /\ proc = "up" /\ anPc = "refilter"
  /\ threshold' = [threshold EXCEPT ![anIdx] = UpdatedThreshold(t_threshold)]
  /\ count' = [count EXCEPT ![anIdx] = ZeroCounters]
  /\ NextIndexOr("unlock")
  /\ UNCHANGED <<proc, mainVars, emitterVars, queue, workerVars, lock, table, unseen,
                 results, closing, m_stoprequested, sigPending, intervals, tvars>>

(* Slip: the last worker is not unlocked. *)
UnlockButLast ==
  /\ proc = "up" /\ anPc = "unlock"
  /\ lock' = [lock EXCEPT ![anIdx] = IF anIdx < NumWorkers THEN "free" ELSE @]
  /\ NextIndexOr("export")
  /\ UNCHANGED <<proc, mainVars, emitterVars, queue, workerVars, dataVars, results, closing,
                 m_stoprequested, sigPending, intervals, tvars>>

UnlockNext ==
  /\ proc = "up" /\ anPc = "unlock"
  /\ lock' = [lock EXCEPT ![anIdx] = "free"]
  /\ NextIndexOr("export")
  /\ UNCHANGED <<proc, mainVars, emitterVars, queue, workerVars, dataVars, results, closing,
                 m_stoprequested, sigPending, intervals, tvars>>

(* output_results: exportFlow writes the report to the stream ...          *)
WriteReport ==
  /\ proc = "up" /\ anPc = "export"
  /\ buffer' = Append(buffer, intervals)
  /\ anPc' = "flush"
  /\ UNCHANGED <<proc, mainPc, exporterOpen, deleted, unhurried, file, farmVars, anIdx,
                 results, closing, m_stoprequested, sigPending, intervals, tvars>>

(* Slip: the stream is left to flush itself. *)
ExportUnflushed ==
  /\ proc = "up" /\ anPc = "flush"
  /\ results' = {}
  /\ intervals' = IF closing THEN intervals ELSE intervals + 1
  /\ m_stoprequested' = (m_stoprequested \/ closing)
  /\ anPc' = "loop"
  /\ UNCHANGED <<proc, mainVars, farmVars, anIdx, closing, sigPending, tvars>>

(* ... and flushes it; then what follows the call of the analysis in the   *)
(* case of do_work it was called from.                                     *)
ExportResults ==
  /\ proc = "up" /\ anPc = "flush"
  /\ file' = file \o buffer /\ buffer' = << >>
  /\ results' = {}
  /\ intervals' = IF closing THEN intervals ELSE intervals + 1
  /\ m_stoprequested' = (m_stoprequested \/ closing)
  /\ anPc' = "loop"
  /\ UNCHANGED <<proc, mainPc, exporterOpen, deleted, unhurried, farmVars, anIdx, closing,
                 sigPending, tvars>>

-----------------------------------------------------------------------------
(* SIGINT or SIGTERM for the process: main blocked both before it created  *)
(* any thread, and svc_init blocks them again, so the signal stays pending *)
(* until the analyzer waits for it.                                        *)
RaiseSignal ==
  /\ proc = "up" /\ ~ sigPending
  /\ sigPending' = TRUE
  /\ UNCHANGED <<proc, mainVars, farmVars, anPc, anIdx, results, closing, m_stoprequested,
                 intervals, tvars>>

(* The process is gone; nothing more happens.                              *)
Gone == proc # "up" /\ UNCHANGED vars

Main ==
  \/ Go \/ RunFarm \/ FarmEnds \/ StopAnalyzer \/ JoinAnalyzer \/ CloseExporter
  \/ CleanUp \/ Exit

WorkerStep(w) ==
  \/ TakeTask(w) \/ EndOfStream(w) \/ LockSelf(w) \/ Lookup(w) \/ Update(w)
  \/ Filter(w) \/ Insert(w) \/ UnlockSelf(w)

Analysis ==
  \/ LockNext \/ CleanNext \/ Adapt \/ RefilterNext \/ UnlockNext \/ WriteReport
  \/ ExportResults

Next ==
  \/ Main \/ RunFails
  \/ \E f \in Flow, octets \in Octets : Capture(f, octets)
  \/ Send \/ EndOfCapture \/ PcapError
  \/ \E w \in Worker : WorkerStep(w)
  \/ LoopTest \/ TimeUp \/ SignalReceived \/ WaitInterrupted \/ Analysis
  \/ RaiseSignal \/ Gone

Spec == Init /\ [][Next]_vars

(* Every thread keeps running, pcap_loop notices pcap_breakloop, and       *)
(* sigtimedwait returns.  The lock of a busy worker must be won against    *)
(* that worker, hence the strong fairness.  Nothing is assumed of the      *)
(* network, of errors, or of signals.                                      *)
Fairness ==
  /\ WF_vars(Main)
  /\ WF_vars(Send) /\ WF_vars(BreakLoop)
  /\ \A w \in Worker : WF_vars(WorkerStep(w)) /\ SF_vars(LockSelf(w))
  /\ WF_vars(LoopTest) /\ WF_vars(TimeUp) /\ WF_vars(SignalReceived)
  /\ WF_vars(Analysis) /\ SF_vars(LockNext)

FairSpec == Spec /\ Fairness

-----------------------------------------------------------------------------
(* Who holds a worker's lock is where the code says it is; in particular   *)
(* the analyzer holds every lock while it touches tables, filters and      *)
(* thresholds, and no worker is then inside svc's critical section.        *)
LocksHeld ==
  \A w \in Worker :
    /\ (lock[w] = "worker") <=> (wPc[w] \in critical)
    /\ (lock[w] = "analyzer") <=>
         \/ anPc = "lock" /\ w < anIdx
         \/ anPc \in {"clean", "adapt", "refilter"}
         \/ anPc = "unlock" /\ w >= anIdx

(* Between the lookup of a flow and the update or the insertion that       *)
(* depends on it nothing changes the answer: updateTable never throws, and *)
(* insertFlow never leaks a descriptor on a flow that is there.            *)
ShieldingStable ==
  \A w \in Worker :
    /\ wPc[w] = "update" => lookupFlow(table[w], wTask[w].fid)
    /\ wPc[w] \in {"filter", "insert"} => ~ lookupFlow(table[w], wTask[w].fid)

(* Nor does the verdict of the filter change before the flow is stored on  *)
(* it: svc stores no flow that the filter, with the counters and threshold *)
(* of that moment, would drop.                                             *)
VerdictStable ==
  \A w \in Worker :
    wPc[w] = "insert" => Passes(count[w], threshold[w], wTask[w].fid, wTask[w].dOctets)

(* What svc has found out in two calls still holds in the third, while the *)
(* analyzer deletes entries, resets filters and changes their thresholds.  *)
DecisionsStand == ShieldingStable /\ VerdictStable

(* A flow is in the table of its own worker only, so that no other worker  *)
(* counts part of its octets and no report lists it twice.                 *)
FlowAffinity ==
  \A w \in Worker, f \in Flow : lookupFlow(table[w], f) => Dispatch[f] = w

(* All filters work with the same threshold except while the analyzer,     *)
(* who then holds all locks, is distributing a new one.                    *)
FiltersAgree ==
  anPc # "refilter" => \A v, w \in Worker : threshold[v] = threshold[w]

(* Every packet captured for a worker is in the emitter's hands, in the    *)
(* worker's queue, in the worker's hands, or done: none is lost or counted *)
(* twice, also while the queues are full.                                  *)
NothingLost ==
  \A w \in Worker :
    captured[w] = execTask[w] + Len(queue[w])
                  + (IF wTask[w] # NoTask THEN 1 ELSE 0)
                  + (IF emPc = "send" /\ Dispatch[emTask.fid] = w THEN 1 ELSE 0)

(* When run_and_wait_end returns, every captured packet has been through   *)
(* its worker, however the capture ended.                                  *)
FarmDrains ==
  mainPc \in {"stop", "join", "close", "cleanup", "exit"} => captured = execTask

(* The analyzer exports to an open file only, and main deletes workers,    *)
(* analyzer and exporter when no thread is left that uses them.            *)
NoUseAfterEnd ==
  /\ anPc \in {"export", "flush"} => exporterOpen
  /\ deleted => anPc = "ended" /\ \A w \in Worker : wPc[w] = "ended"

(* The report of every finished analysis is in the file, once and in order,*)
(* also when the process exits or aborts under the running analyzer.       *)
ReportsKept ==
  LET last == IF closing /\ anPc \in {"loop", "ended"} THEN 1 ELSE 0
  IN  file = [k \in 1..(intervals + last) |-> k - 1]

(* If stop() finds the analyzer in its wait and nothing interrupts it, the *)
(* analysis at the end of that wait sees every packet of the last          *)
(* interval.                                                               *)
FinalCoverage ==
  unhurried /\ mainPc \in {"close", "cleanup", "exit"} => \A w \in Worker : unseen[w] = 0

(* SIGINT or SIGTERM ends the process, whatever it interrupts: also one    *)
(* that is raised before the farm runs, during an analysis, or while the   *)
(* queues are full.                                                        *)
Shutdown == sigPending ~> proc # "up"

(* When the farm has ended, main gets through stop() and out: the analyzer *)
(* never keeps it waiting for ever.                                        *)
StopReturns == mainPc = "stop" ~> proc # "up"

(* Backpressure is temporary: the emitter gets rid of the packet it holds, *)
(* so that no cycle of full queues and held locks stops the capture.       *)
SendCompletes == emPc = "send" ~> (emPc # "send" \/ proc # "up")

-----------------------------------------------------------------------------
(* The help text on -c, `causes all the packets in the file to be          *)
(* processed when reading a pcap file': when main has come to its end      *)
(* without a signal, every packet has been seen by an analysis.            *)
AllPacketsAnalyzed ==
  mainPc = "exit" /\ ~ closing => \A w \in Worker : unseen[w] = 0
=============================================================================
