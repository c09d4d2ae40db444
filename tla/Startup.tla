------------------------------ MODULE Startup ------------------------------
(***************************************************************************)
(* The program from its first statement to the running farm: main blocks   *)
(* the signals, reads the options, computes sizes and threshold, and       *)
(* constructs emitter, workers and analyzer, whose go() opens the report   *)
(* file.  Any of these may end the process.                                *)
(*                                                                         *)
(* The command line is the outcome of the getopt loop, in which the last   *)
(* of repeated options wins; numeric options are not negative.  All stages *)
(* of all workers are built alike, so one hash function is kept.  External:*)
(* libpcap, of which the code uses a device, one installed filter and the  *)
(* type of the data link.                                                  *)
(***************************************************************************)
EXTENDS UniversalHash

CONSTANTS
  CommandLines,         \* options given, and the build they are given to
  ShortMod              \* unsigned short is a number below it, 2^16

Options ==
  [help : BOOLEAN,                  \* -h, or an unknown option
   i : {"none", "live", "file", "absent"},      \* interface
   b : {"none", "valid", "broken"},             \* bpfFilter
   w : Nat,                         \* parDegree
   s : Ratio,                       \* oversamplingFactor
   l : Nat,                         \* linkCapacity
   y : Ratio,                       \* percentageInterestingFlow
   q : Nat,                         \* sampleInterval
   z : Nat,                         \* numOfStages
   balanced : BOOLEAN]              \* built with _AVG_CASE_BALANCING

ASSUME StartupAssumption ==
  /\ CommandLines \subseteq Options
  /\ ShortMod \in Nat \ {0}

VARIABLES
  process,              \* "up", "exited", or "aborted" by assert or throw
  at,                   \* where main is
  opt,                  \* the command line
  nWorkers, hashTablesSize,
  wThreshold,           \* firstThreshold as Worker gets it
  offline,              \* the device is a file
  bpf,                  \* the filter installed in the device
  numWorkers,           \* Emitter's copy of nWorkers
  built,                \* workers constructed
  workerTable,          \* tableSize of each of them
  coefficient,          \* `a' of one of their hash functions
  flowMemSize, t_threshold,       \* the analyzer's
  report,               \* content of the report file
  undefined             \* a size comes from undefined behaviour (history)

sizes == <<nWorkers, hashTablesSize, wThreshold, undefined>>
emitter == <<offline, bpf, numWorkers>>
farm == <<built, workerTable, coefficient>>
analyzer == <<flowMemSize, t_threshold>>
startVars == <<process, at, opt, sizes, emitter, farm, analyzer, report>>

NoCoefficient == [b \in KeyByte |-> 0]

StartTypeOK ==
  /\ process \in {"up", "exited", "aborted"}
  /\ at \in {"signals", "args", "size", "assert", "threshold", "device", "ipfilter",
             "userfilter", "datalink", "workers", "analyzer", "go", "run"}
  /\ opt \in CommandLines
  /\ nWorkers \in Nat \ {0}
  /\ hashTablesSize \in Word /\ wThreshold \in Word
  /\ undefined \in BOOLEAN
  /\ offline \in BOOLEAN /\ bpf \in {"none", "ip", "user"}
  /\ numWorkers \in Nat \ {0}
  /\ built \in Nat
  /\ workerTable \in Word
  /\ coefficient \in [KeyByte -> Int32]
  /\ flowMemSize \in Word /\ t_threshold \in Word
  /\ report \in {"former", "new"}

StartInit ==
  /\ process = "up" /\ at = "signals"
  /\ opt \in CommandLines
  /\ nWorkers = 1 /\ hashTablesSize = 1201 % WordMod
  /\ wThreshold = 0 /\ undefined = FALSE
  /\ offline = FALSE /\ bpf = "none" /\ numWorkers = 1
  /\ built = 0 /\ workerTable = 0 /\ coefficient = NoCoefficient
  /\ flowMemSize = 0 /\ t_threshold = 0
  /\ report = "former"

(* A call fails: exit(-1), or an exception or assertion nothing catches.   *)
Exits == process' = "exited" /\ UNCHANGED at
Aborts == process' = "aborted" /\ UNCHANGED at
GoesTo(place) == process' = "up" /\ at' = place

-----------------------------------------------------------------------------
(* SIGINT, SIGTERM and SIGALRM are blocked, or main gives up.              *)
BlockSignals ==
  /\ process = "up" /\ at = "signals"
  /\ GoesTo("args") \/ Exits
  /\ UNCHANGED <<opt, sizes, emitter, farm, analyzer, report>>

(* argParsing.                                                             *)
ParseArgs ==
  /\ process = "up" /\ at = "args"
  /\ IF opt.help \/ opt.i = "none" \/ opt.l = 0
     THEN Exits /\ UNCHANGED nWorkers
     ELSE GoesTo("size") /\ nWorkers' = nWorkersFor(opt.w)
  /\ UNCHANGED <<opt, hashTablesSize, wThreshold, undefined, emitter, farm, analyzer, report>>

SizeTables ==
  /\ process = "up" /\ at = "size"
  /\ LET x == dimH(opt.y, opt.s)
     IN  \E dim \in ToUnsigned(x.num, x.den) :
           /\ hashTablesSize' \in nextPrime(dim)
           /\ undefined' = (~ Fits(x.num, x.den) \/ ~ DivisorFound(dim))
  /\ GoesTo("assert")
  /\ UNCHANGED <<opt, nWorkers, wThreshold, emitter, farm, analyzer, report>>

AssertSize ==
  /\ process = "up" /\ at = "assert"
  /\ IF LargeEnough(hashTablesSize, opt.y) THEN GoesTo("threshold") ELSE Aborts
  /\ UNCHANGED <<opt, sizes, emitter, farm, analyzer, report>>

ComputeThreshold ==
  /\ process = "up" /\ at = "threshold"
  /\ wThreshold' \in firstThreshold(opt.l, opt.y, opt.q)
  /\ GoesTo("device")
  /\ UNCHANGED <<opt, nWorkers, hashTablesSize, undefined, emitter, farm, analyzer, report>>

-----------------------------------------------------------------------------
(* The constructor of Emitter.                                             *)

(* A name that is no device is taken for a file; opening either may fail.  *)
OpenDevice ==
  /\ process = "up" /\ at = "device"
  /\ numWorkers' = nWorkers
  /\ offline' = (opt.i # "live")
  /\ (opt.i # "absent" /\ GoesTo("ipfilter")) \/ Exits
  /\ UNCHANGED <<opt, sizes, bpf, farm, analyzer, report>>

(* Slip: the filter is compiled and never installed. *)
CompileIPFilter ==
  /\ process = "up" /\ at = "ipfilter"
  /\ GoesTo("userfilter") \/ Exits
  /\ UNCHANGED <<opt, sizes, emitter, farm, analyzer, report>>

InstallIPFilter ==
  /\ process = "up" /\ at = "ipfilter"
  /\ \/ GoesTo("userfilter") /\ bpf' = "ip"
     \/ Exits /\ UNCHANGED bpf
  /\ UNCHANGED <<opt, sizes, offline, numWorkers, farm, analyzer, report>>

(* pcap_setfilter replaces the filter installed before.                    *)
InstallUserFilter ==
  /\ process = "up" /\ at = "userfilter"
  /\ \/ opt.b = "none" /\ GoesTo("datalink") /\ UNCHANGED bpf
     \/ opt.b = "valid" /\ GoesTo("datalink") /\ bpf' = "user"
     \/ opt.b # "none" /\ Exits /\ UNCHANGED bpf
  /\ UNCHANGED <<opt, sizes, offline, numWorkers, farm, analyzer, report>>

(* Only Ethernet is known.                                                 *)
FindDatalink ==
  /\ process = "up" /\ at = "datalink"
  /\ GoesTo("workers") \/ Exits
  /\ UNCHANGED <<opt, sizes, emitter, farm, analyzer, report>>

-----------------------------------------------------------------------------
(* workerSize of the average-case build, for a hashPart.                   *)
workerSize(part) ==
  LET x == workerDim(part, opt.s)
      defined == Fits(hashTablesSize + nWorkers, nWorkers) /\ Fits(x.num, x.den)
  IN  UNION {[size : nextPrime(dim), bad : {~ (defined /\ DivisorFound(dim))}] :
               dim \in ToUnsigned(x.num, x.den)}

tableSizes ==
  IF opt.balanced THEN UNION {workerSize(part) : part \in hashPart(hashTablesSize, nWorkers)}
  ELSE [size : {hashTablesSize}, bad : {FALSE}]

(* The loop that constructs the workers, each with its filter and table.   *)
(* MultistageFilter takes the number of stages as an unsigned short and    *)
(* throws on 0, as StageContainer does on an empty table.                  *)
BuildWorkers ==
  /\ process = "up" /\ at = "workers"
  /\ \E t \in tableSizes :
       /\ workerTable' = t.size
       /\ undefined' = (undefined \/ t.bad)
       /\ IF opt.z % ShortMod = 0 \/ t.size = 0
          THEN Aborts /\ UNCHANGED <<built, coefficient>>
          ELSE /\ GoesTo("analyzer")
               /\ built' = nWorkers
               /\ coefficient' \in [KeyByte -> Coefficients(t.size)]
  /\ UNCHANGED <<opt, nWorkers, hashTablesSize, wThreshold, emitter, analyzer, report>>

(* Slip: the exporter opens its file when it is constructed. *)
BuildAnalyzerAndOpen ==
  /\ process = "up" /\ at = "analyzer"
  /\ flowMemSize' = (IF opt.balanced THEN (workerTable * built) % WordMod ELSE workerTable)
  /\ t_threshold' = wThreshold
  /\ report' = "new"
  /\ GoesTo("go")
  /\ UNCHANGED <<opt, sizes, emitter, farm>>

(* Slip: the share of one worker taken for the memory of the farm. *)
BuildAnalyzerOneTable ==
  /\ process = "up" /\ at = "analyzer"
  /\ flowMemSize' = workerTable
  /\ t_threshold' = wThreshold
  /\ GoesTo("go")
  /\ UNCHANGED <<opt, sizes, emitter, farm, report>>

(* The constructors of FileExporter and Analyzer.                          *)
BuildAnalyzer ==
  /\ process = "up" /\ at = "analyzer"
  /\ flowMemSize' = (IF opt.balanced THEN (workerTable * built) % WordMod ELSE workerTable)
  /\ t_threshold' = wThreshold
  /\ GoesTo("go")
  /\ UNCHANGED <<opt, sizes, emitter, farm, report>>

(* go: FileExporter::open truncates the report file, or fails and throws.  *)
OpenReport ==
  /\ process = "up" /\ at = "go"
  /\ \/ GoesTo("run") /\ report' = "new"
     \/ Aborts /\ UNCHANGED report
  /\ UNCHANGED <<opt, sizes, emitter, farm, analyzer>>

StartNext ==
  \/ BlockSignals \/ ParseArgs \/ SizeTables \/ AssertSize \/ ComputeThreshold
  \/ OpenDevice \/ InstallIPFilter \/ InstallUserFilter \/ FindDatalink
  \/ BuildWorkers \/ BuildAnalyzer \/ OpenReport

-----------------------------------------------------------------------------
IsPrime(n) == n > 1 /\ \A d \in 2..(n - 1) : n % d # 0

(* `need prime number': the filters hash modulo a prime, whichever build   *)
(* sizes them, unless the size is undefined: the bound n/2 of the loops    *)
(* and their exception for 4 do no harm to a size that was searched for.   *)
SizePrime ==
  built > 0 /\ ~ undefined => IsPrime(hashTablesSize) /\ IsPrime(workerTable)

(* The assertion of main is one: with a positive share and oversampling    *)
(* factor it fails on nothing but an undefined size, or none that fits.    *)
AssertionSound ==
  process = "aborted" /\ at = "assert" /\ opt.s.num > 0 /\ opt.y.num > 0
    => undefined \/ hashTablesSize = 0

(* The tables of all workers together hold every interesting flow there    *)
(* can be (1/percentage), also in the build that splits the table, whose   *)
(* author asks `check if it could be a legal choice'.                      *)
MemoryCoversFlows ==
  at \in {"go", "run"} /\ ~ undefined /\ workerTable * built < WordMod
    => LargeEnough(flowMemSize, opt.y)

(* Filters, tables and analyzer work with the share of the link asked for, *)
(* rounded down, whenever it fits the unsigned int it is passed in.        *)
ThresholdAsAsked ==
  LET asked == opt.l * opt.y.num * opt.q
  IN  at \in {"go", "run"} /\ asked < WordMod * opt.y.den =>
        /\ t_threshold = wThreshold
        /\ t_threshold * opt.y.den <= asked
        /\ asked <= (t_threshold + 1) * opt.y.den

(* A start that fails leaves the report of the former run as it was: the   *)
(* file is truncated only when all that can fail before has succeeded.     *)
FormerReportKept == report = "new" => process = "up" /\ at = "run"
=============================================================================
