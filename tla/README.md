# FHFCapturing in TLA+

FHFCapturing finds heavy flows (flows that use more than a given share of a
link) in captured traffic. It follows Estan and Varghese: a multistage filter
with conservative update in front of a flow table with shielding, early removal,
preserved entries and adaptive thresholds, run in parallel by a FastFlow farm.
This directory specifies that program, model-checks it with TLC and proves parts
of it with TLAPS. Paths below are relative to the repository; the Linux build
(`-D __USE_LINUX`) is the one modelled.

## The system

| Part (code) | State | Operations | Interacts with |
|---|---|---|---|
| Emitter (`src/ParallelStages.cpp:33-288`) | pcap handle, its break flag, the load balancer's victim | `svc` (pcap_loop), `handler`, `dispatchPolicy`, `stopCapturing` | sends tasks to the workers' queues; `stopCapturing` is called by the analyzer's thread |
| Workers (`src/ParallelStages.cpp:325-445`) | a mutex, a filter, a hash table each | `svc`, `lockWorker`/`unlockWorker`, `update_filter_threshold`, `clean_filter` | own thread; the analyzer uses filter and table under the mutex |
| Multistage filter (`src/MultistageFilter.cpp`) | counters and threshold of each stage | `filter`, `conservativeUpdate`, `reset`, `updateThreshold` | called by worker and analyzer |
| Hash table (`src/HashTable.cpp`, `src/DataStructures.h`) | flow descriptors: octets, packets, cycles | `lookupFlow`, `updateTable`, `insertFlow` | called by the worker; walked and cleaned by the analyzer |
| Analyzer (`src/Analyzer.cpp`) | thresholds, statistics of three intervals, `m_stoprequested` | `go`, `stop`, `do_work`, `do_boundedAnalysis`, `checkCleanHashTable`, `update_thresholds`, `output_results` | own thread; waits for a timer or a signal; locks all workers; writes to the exporter |
| Exporter (`src/Exporter.cpp`) | the output file | `open`, `exportFlow`, `close` | called by main (open, close) and the analyzer |
| Command line (`src/FHFcapturing.cpp:98-162`) | the options, `nWorkers` | `argParsing` | read by main |
| main (`src/FHFcapturing.cpp:181-299`) | sizes and first threshold; owns everything | blocks signals, parses, sizes, builds the farm, `go`, `run_and_wait_end`, `stop`, deletes | |
| Opening the device (`src/ParallelStages.cpp:33-111`) | the pcap handle and its filter | the constructor of Emitter: open, two filters, data link | may end the process at every call |
| nextPrime (`src/utils.cpp:23-47`) | | `nextPrime` | sizes the tables |
| Hash functions (`src/UniversalHashFunction.cpp`) | modulus and random coefficients | `randomValues`, `Hash` | index the counters of a filter stage |
| Tests, printing (`src/Tests`, rest of `src/utils.cpp`) | | | not called by the program, or output only |

What is hard here:

* three kinds of threads share tables, filters and thresholds under one mutex per
  worker, and the analyzer takes all of them;
* backpressure from bounded queues while the analyzer holds the locks;
* the end: end of file, packet count, SIGINT/SIGTERM at any moment, a failing wait,
  a failing capture, against `stop()` and the deletion of everything;
* counters whose meaning depends on long histories: conservative updates of
  colliding flows, resets at the end of an interval, entries that survive several
  analyses on different grounds;
* thresholds that adapt through truncated floating-point products;
* a start of a dozen steps, each of which may fail, with sizes that go through
  floats, an uninitialised variable and conversions, and on which the safety of every
  array index depends later.

What makes each part correct: no counter over its threshold, no flow charged more
than was hashed to it, lone flows counted exactly (filter); octets of the interval
only, one second chance, exact reports (table); bounds, pace and direction of the
adaptation (thresholds); mutual exclusion through each analysis, no packet lost,
one worker per flow, an orderly end, no report lost, reports that are true of the
traffic and miss no lone heavy flow, nothing left in a table without a reason (farm); prime tables that are large
enough, the threshold asked for, indexes and workers that exist, flow ids that come from
headers (start and packet path).

## Modules

| Module | Models | State and actions |
|---|---|---|
| `DataStructures` | the type of flow identifiers | one constant, `Flow` |
| `MultistageFilter` | `MultistageFilter.cpp` as operators on the counters `count[stage][bucket]` | `check`, `Passes`, `Visited` (the short circuit of `&&`), `minVal`, `conservativeUpdate`, `Charged` (a dropped packet), `InitialThreshold`, `UpdatedThreshold` |
| `FilterInterval` | one filter over its life | `Forward`, `Drop`: `Worker::svc` on a flow that is not stored; `NewInterval`: what an analysis does to the worker |
| `FlowTable` | `HashTable.cpp` and `checkCleanHashTable` as operators on a table | `updateTable`, `insertFlow`, `Cleaned`, `Collected` |
| `TableInterval` | one table over its life | `Shield`, `Store`, `Analysis` |
| `Thresholds` | `update_thresholds` and the statistics of `do_boundedAnalysis` | `Interval(n)`: one analysis with `n` results, by `AdjustUp`, `AdjustDown` or `Wait` |
| `CaptureFarm` | all threads together | one action per step of main, emitter, worker, analyzer; extends the modules above, whose operators compute the data |
| `FlowMeter` | what the program promises as a meter, without workers, queues and locks | one table `entry` of all flows, one `report`; `Count`, `Store`, `Analyse`, `Adapt`, `Publish` |
| `FarmRefinement` | that the farm is a flow meter | the refinement mapping `entryBar`, `reportBar`, `phaseBar` and the property `ImplementsFlowMeter` |
| `FarmAccounts` | the farm with accounts of the traffic | `CaptureFarm`'s steps, each of which also keeps the history variables; what reports and tables say of the packets: `ReportsTrue`, `LoneHeavyReported`, `EntriesPreserved` |
| `Sizing` | `nextPrime` and the sizes and first threshold of main, as operators; a result is a set where the language leaves it open | `nextPrime`, `dimH`, `ToUnsigned`, `hashPart`, `workerDim`, `nWorkersFor`, `firstThreshold` |
| `UniversalHash` | the hash functions in wrapping int arithmetic | `Coefficients` (`randomValues`), `HashStep` (a round of the loop), `ToInt`, `Remainder` |
| `Startup` | main up to the running farm, the constructors it calls, and the report file | its actions are main's steps: `BlockSignals`, `ParseArgs`, `SizeTables`, `AssertSize`, `ComputeThreshold`, `OpenDevice`, `InstallIPFilter`, `InstallUserFilter`, `FindDatalink`, `BuildWorkers`, `BuildAnalyzer`, `OpenReport`; each goes on, exits or aborts |
| `PacketPath` | one packet at a time through what `Startup` built | `Handle` (filter, `handler`, `dispatchPolicy`), `HashByte`, `UseIndex` |
| `FarmPromisesProofs` | theorems about `FarmRefinement` and `FarmAccounts` | |
| the other `*Proofs` | theorems about the module they are named for | |
| `MC*` | instances for TLC | |

`CaptureFarm` keeps a program counter per thread (`mainPc`, `emPc`, `wPc[w]`,
`anPc`), the queues, the mutexes (`lock[w]`: free, worker or analyzer), and the
data. A worker's step under the lock is cut into lookup, update, filter and insert
so that the properties depend on the locks; the analyzer's loops over the workers
advance one worker at a time (`anIdx`). Signals are one pending flag: main blocks
SIGINT and SIGTERM before it creates a thread (`FHFcapturing.cpp:187-209`), so only
`sigtimedwait` takes them, and pending signals coalesce.

A report is its interval's number: `WriteReport` puts it in the stream and
`ExportResults` (like `CloseExporter`) flushes it to the file, so that the process may
end in between. (A stream may also write part of a long report early; it then ends in
the file cut off.)

`Startup` and `PacketPath` say why `CaptureFarm` may assume what it assumes of its
constants: `Startup` ends where `CaptureFarm` begins (`go` is the last action of one
and the first of the other), with at least one worker, a `Dispatch` to workers that
exist and a `Hash` into the buckets of the table (`AccessesInBounds`), and the first
threshold (`ThresholdAsAsked`). The theorem `HandOver` collects these (`FarmMayRun`).

The variables `charged`, `dropped`, `sent`, `pkts`, `quiet`, `captured`, `unseen`,
`unhurried`, `undefined`, `offered`, `offeredThen` and `droppedThen` (and `dropped`, in
`FarmAccounts` as in `FilterInterval`) are history variables; no action's guard reads them
except for the named bounds.

The accounts of `FarmAccounts` are by flow: the octets the flow's worker has decided on
since the analyzer last cleaned that worker's table, and those of them that the filter
dropped. When the analyzer cleans the table they are set aside for the report under way
(`offeredThen`, `droppedThen`) and start anew. An interval so has another end for each
worker, as in the code, where packets go on to be counted by the workers whose lock the
analyzer does not have yet.

External parts, modelled from their use: FastFlow (a bounded FIFO queue per worker,
`ff_send_out` waits for room, a worker ends when the emitter has ended and its queue
is empty, `run_and_wait_end` returns when all have), libpcap (`pcap_loop` ends with 0,
-1 or -2; after `pcap_breakloop` it may deliver one more packet), POSIX signals and
mutexes.

### Abstractions

* The hash functions are constants: any functions from flows to buckets. All
  theorems about the filter hold for every choice.
* All stages get the same threshold in the same loop, so it is one variable.
* `conservativeUpdate` takes the maximum as a double: exact below 2^53.
* Floats: `pow(usage/target, 3)` and `pow(usage*target, 0.5)` are compared as exact
  integer ratios, and truncation yields any `n` with `n <= x <= n+1`, which covers a
  rounding on either side of an integer. `r_mul * t` is `t \div 5`.
* `dOctets` wraps at `OctetMod` (2^32); `dPkts` and `cycles` do not.
* In `FilterInterval` any subset of the stored flows may survive an analysis; which
  one does is `FlowTable`'s matter and `CaptureFarm` puts the two together.
* In `CaptureFarm`, a packet is a flow and a length; `dispatchPolicy` is the constant
  `Dispatch`.
* Options are the outcome of the getopt loop; numbers are not negative. `-t`, `-c` and
  `-r` are given to libpcap only, and `-c` is `EndOfCapture`'s freedom in the farm.
* In `Sizing` a float is the exact ratio of what the options say, and its conversion to
  an integer truncates it, where an exact integer may also come out one less (a product
  rounded down). A ratio that is less than the precision of a float below an integer
  could be rounded up to it; that is left out, and does not happen to sizes below
  2^24 divided by the denominator of the option.
* An uninitialised result and a conversion out of range are any word
  (`undefined` remembers it), an int that overflows wraps.
* All stages and workers are built alike, so `Startup` keeps one hash function, with
  arbitrary coefficients of the range `randomValues` draws from.
* In `PacketPath` a flow id is a few bytes, some of which are ports; a frame is IPv4 or
  not, and has ports, none, or is a later fragment, behind whose IP header there is
  payload. `Seed` (boost's `hash_combine`) is any function.
* Statistics (`_COMPUTE_STATS`), debugging output and `Emitter::end`, which nothing
  reads, are left out.

## Runs

| Run | Shows | Bounds and why they are enough |
|---|---|---|
| `filter` | `CountersBounded`, `LoneFlowExact`, `PassJustified` | three stages with one collision of two flows in each, so that every flow meets counters above and below its own; sizes 0, 40, 60 against 100 give updates below, at and above the threshold; at most 120 octets dropped per flow and interval, so each flow can be driven to the threshold by itself or by others |
| `table` | `CountsExact`, `SecondChanceOnce`, `IdleRemoved`, `ReportExact` | two flows, a 3-bit octet counter so that wrapping happens within three packets, every combination of two early-removal and two table thresholds per analysis, entries that live through three analyses |
| `thresholds` | `ThresholdsInRange`, `DecreasePaced`, `PressureNeverLowers`, `AdaptsDown`, `AdaptsUp` | every history of empty, nearly full, full and overfull analyses; no bound on their number |
| `farm` | `LocksHeld`, `DecisionsStand`, `FlowAffinity`, `FiltersAgree`, `NothingLost`, `FarmDrains`, `NoUseAfterEnd`, `FinalCoverage`, `ReportsKept`, `ReportsTrue`, `LoneHeavyReported`, `EntriesPreserved` | two workers, one with one flow and one with two, queues of one task, one packet for the first worker and three for the second (one in `svc`, one queued and one that is refused room), one timed analysis before the closing one, lengths that are dropped, promising or heavy, octets that wrap at 8. The two flows of the second worker have buckets of their own and are treated alike, so that exchanging them with their buckets is a symmetry (`Alike`) of the specification and of every property |
| `farm_meter` | `ImplementsFlowMeter` | as `farm`, with one flow for each worker: a flow can be stored, judged and counted again around an analysis while the other worker's table is cleaned earlier or later |
| `startup` | `SizePrime`, `AssertionSound`, `MemoryCoversFlows`, `ThresholdAsAsked`, `FormerReportKept`, `AccessesInBounds`, `HeadersRead` | words of 5 bits (`WordMod` 32): int reaches 15, tables of up to 8 buckets are free of overflow and tables of 13, 19 and 29 are not; keys of two bytes of one bit (`KeySize`, `ByteMax`), the second a port, so that an index depends on an earlier round; an unsigned short of two bits, so that 4 stages are none; 41 command lines (`MCStartup`): all devices and filters, one to three workers, split tables or not, shares with defined and undefined sizes, numbers of stages, thresholds that divide evenly, do not, and do not fit |
| `farm_liveness` | `Shutdown`, `StopReturns`, `SendCompletes` | the instance of `farm_meter` with one length |

About the properties of `farm`: `LocksHeld` ties each mutex to the program counters
of both possible holders; `DecisionsStand` says that the answers of
`lookupFlow` and of the filter stay true until the worker has acted on them, so that the
`throw` in `updateTable` is unreachable and no flow is stored that its filter would drop by
then; `NothingLost` accounts for every captured packet; `FinalCoverage` says
when the last packets are sure to be analysed: if `stop()` finds the analyzer in its
wait, and no EINTR ends that wait; `ReportsKept` says that the file has the reports of
all finished analyses whenever the process ends, also by a failure of pcap or of the
farm. `ReportsTrue` compares the report that is written with the accounts: it lists the
flows of which more octets were counted than the threshold in its head says, and no
other, although the threshold has been adapted and the workers have gone on since.
`LoneHeavyReported` is the promise of the algorithm that no heavy flow is missed, for
flows that share no bucket: more octets than the thresholds of table and filter together
get a flow into the report of its interval. `EntriesPreserved` says which entries an
analysis leaves behind in all tables. In an instance of two analyses the threshold the
second one works with is still the first; that the properties survive its adaptation
is a matter of the proofs, which hold for any number of analyses.

About those of `startup`: `SizePrime` is the comment at `FHFcapturing.cpp:237`, and
holds although the loops of `nextPrime` stop at half the number and take 4 for a prime,
because a size that was searched for is larger than 4; `MemoryCoversFlows` answers the
question at `Analyzer.cpp:47`, which it does with yes; each is stated for sizes that no
undefined behaviour has a part in (`undefined`). `HeadersRead` states the ports only of
packets that have them: a later fragment's flow id holds bytes of its payload, so that
its octets are counted for a flow that is not its own.

Every property of these runs has a mutant of a modelled definition that TLC shows to
break it (the definitions commented `Slip:`).

Runs that are violated, because the code does other than the repository says:

| Run | Statement | What the code does |
|---|---|---|
| `filter_oversampling` | `Analyzer.cpp:58`: the filters' threshold is the table threshold times an oversampling factor | `updateThreshold` (`MultistageFilter.cpp:83`) has its conditional inverted and leaves 1 for every positive threshold, so that after the first analysis the filter hardly filters |
| `filter_min_plus_size` | `MultistageFilter.cpp:122,127`: the maximum of the update is the minimum of all counters plus the packet | `&&` stops calling `check` after the first refusal, so later stages do not take part in the minimum |
| `thresholds_down` | `Analyzer.cpp:317`: threshold * (usage/target)^adjustdown | `:332` multiplies usage by target |
| `startup_ipv4` | `ParallelStages.cpp:72`: accepts only ipv4 traffic | a device has one filter: the `pcap_setfilter` of the user's filter (`:91`) replaces the one of `ip` (`:78`), so with `-b` other packets reach `handler`, which reads an IPv4 header where there is none |
| `farm_last_packets` | `FHFcapturing.cpp:80-81`: all packets of a file are processed | if the capture ends while the analyzer is not in its wait, the loop test ends it without another analysis |

Divergences noticed and not given a run: `Analyzer.h:51` calls `r_threshold`
`t_threshold * r_mul`, but an increase does not recompute it (`ThresholdsInRange` is
what holds); `output_results` reports an `old_r_threshold` already overwritten by
`update_thresholds`; a survivor's `dOctets` start anew with the interval and its
`dPkts` do not (`CountsExact` is what holds); `conservativeUpdate` assigns the maximum
also to a counter that was above it, and so lowers it.

### Fairness

`thresholds` assumes that analyses go on, as `do_work` starts one every
`samplingInterval` seconds. `farm_liveness` assumes weak fairness of each thread's
steps (the operating system runs them, `sigtimedwait` returns, `pcap_loop` notices
`pcap_breakloop`), and strong fairness for taking a mutex for which two threads
compete; a worker releases its mutex after each task. Nothing is assumed of traffic,
of the end of a capture, of signals, or of errors.

Deadlock is checked in every run: the farm stops only in a process that is gone
(`Gone`); the process of `startup` likewise, or it goes on with packets for ever.

## Proofs

`MultistageFilterProofs` holds lemmas on the operators: typing of the updates,
`minVal` is the least of a finite non-empty set of counters, what `Charged` does to one
counter, and that a dropped packet charges the counters of its flow evenly when they were
even before.

`FilterIntervalProofs` proves `TypeOK`, `CountersBounded`, `LoneFlowExact`
and `PassJustified` for every set of flows, number of stages, hash
functions and packet lengths in `Nat`. The conjunction `IInv` is inductive. The
argument for the threshold: a packet is dropped because some stage refuses it, the
first such stage is among those visited, so `minVal` plus the packet is at most the
threshold, and no update ends above that maximum. A lone flow's counters
equal, in every stage, the octets dropped from it since the last reset; so does the
minimum over the stages visited, and the cap at the minimum plus the packet never
takes anything away.

`ThresholdsProofs` proves `ThresholdTypeOK`, `ThresholdsInRange`, `DecreasePaced` and `PressureNeverLowers` for every first threshold, table size and
set of result counts. The invariant adds `noVarIntervals <= quiet`. That an increase
does not lower the threshold needs the monotonicity of the cube and that the ratio
is above 1.

`FlowTableProofs` holds lemmas on the operators of the table: what updating,
inserting and cleaning store, that a report is finite, and that octets that wrap before an
addition or after it give the same counter (`WrapOnce`).

`TableIntervalProofs` proves `TypeOK`, `CountsExact`, `SecondChanceOnce`, `IdleRemoved`
and `ReportExact` for every set of flows, width of `dOctets`, packet lengths and
thresholds. `IInv` adds that the histories of a flow that is not stored are 0
(`Unstored`). An entry with a second chance has `cycles` above 0 and so passes the next
analysis as a heavy one only.

`StartupProofs` proves the type invariant and all seven properties of the `startup` run
for every set of command lines, width of words and shorts, size of keys, and hash
`Seed`. `IInv` says, by where main is, what each value computed so far is: the sizes
come from `nextPrime` of something large enough or are `undefined`, the threshold is
the one asked for, the emitter has main's number of workers, the filter is `ip` unless
the user gave one, the coefficients are below the table size. The lemmas carry it:
`NextPrimeResult` (a number above 4 without a divisor below its half has none: a
divisor from the half up leaves the quotient 2, which is itself one below the half), `Conversion` (a
ratio that fits loses at most 1), `HashStepBound` (an index below m plus a byte times a
coefficient below m is at most 256 * (m - 1), so that no sum leaves int in tables of up
to 2^23 buckets). For `MemoryCoversFlows` the shares of the workers, each rounded up,
add up to at least the undivided table. `HandOver` states what the start hands over to
the farm: where main calls `go`, there is at least one worker and the emitter has their
number, every flow id is dispatched to one of them, every filter has a stage, workers and
analyzer have the same threshold, and the memory the thresholds adapt to is not 0 (if the
product of its factors fits a word). It needs the further invariant `HandInv`: the number
of stages is not 0 once the workers stand, since the constructor of a filter throws on 0.

`CaptureFarmProofs` proves the type invariant and those nine safety properties of the
`farm` run that need no accounts, for every number of workers, set of flows, dispatch function, capacity and
bound. The inductive invariant is built in layers, each using those before it:

1. `ControlInv`: `LocksHeld`, with the analyzer's index back at 1 between its loops and
   nothing running before main starts it;
2. `ThreadInv`: types, and a worker has a task in hand just from `TakeTask` to
   `UnlockSelf`;
3. `Routed`: a worker's queue and hands hold tasks of its own flows only;
4. `DataInv`: types of the data, `ShieldingStable`, `FlowAffinity` and the invariant of
   the thresholds, which enters by its lemma `IntervalStep`. That the analyzer's
   cleaning keeps `ShieldingStable` is where the locks are used. `VerdictStable`, the
   other part of `DecisionsStand`, is inductive on `ControlInv` by itself;
5. `FiltersInv`: `FiltersAgree`, and during the loop the workers before the index have
   the new threshold already;
6. `NothingLost`, which is inductive on these;
7. `EndInv`: who has ended when, what main has done by where it is, and what a
   waiting analyzer found by `stop()` has covered so far. `FarmDrains`,
   `NoUseAfterEnd` and `FinalCoverage` follow;
8. `Filed`: how many reports the file holds and whether one is in the stream, by where
   the analyzer is. `ReportsKept` follows.

The assumptions are the named `ASSUME`s of the modules: at least one worker, a finite
set of flows, lengths below `OctetMod`.

It also proves that the farm implements `ThresholdSpec` (`FarmAdapts`): the analyzer's
`Adapt` is an `Interval` for the results it has collected, and every other step leaves
the thresholds alone (`AdaptationStep`). This one takes `ResultSizes = Nat`, which is no
restriction of the code but the set of all result counts (TLC's instances need a finite
one). `FarmThresholds` takes the safety properties of the thresholds over to the farm by the
same step lemma, for every `ResultSizes`.

`FarmPromisesProofs` proves that `CaptureFarm` implements `FlowMeter`
(`ImplementsFlowMeter`) for all constants. The entry of a flow is the one in the table
of its worker. A packet takes effect at `Update` or `Insert`, when its worker holds
its lock and so no analysis is between two tables (`CriticalIsQuiet`); an analysis
takes effect at its first `CleanNext`, after which tables the analyzer has not come
to are read through `Cleaned` and `Collected`, so that its further `CleanNext` steps are
stutters (`CleanedBar`, `ReportedBar`). Since tables share no flow (`FlowAffinity`), the
collections from the workers' tables are the collection from the one table
(`CollectedFromAll`).

It then proves the three properties of `FarmAccounts`. The inductive invariant
`AccountInv`, on top of the layers of the farm, says at every point of an analysis which
of the accounts the tables, the results and the counters agree with:

* `EntriesTrue`: the entry of a flow has the octets offered and not dropped since its
  worker's table was cleaned, modulo `OctetMod`, and a flow without entry has none;
* `ResultsTrue`: the results so far are those of the tables the analyzer has been at
  (`Seen`), by the accounts set aside and by the threshold that was in force
  (`Limit`: `t_threshold` up to `Adapt`, `old_t_threshold` after it);
* `CountersWithin` and `LoneExact`: a lone flow's counters hold what was dropped of it
  since the filter was reset, which is up to two accounts: between the cleaning of a
  table and the reset of its filter (`Unreset`) it is the account set aside, and
  `NothingSince` says that nothing was offered meanwhile, since the analyzer has the lock;
* `EntriesSwept`: what was kept in a cleaned table was reported or is new, and was
  sent to in the interval.

`LoneHeavyReported` follows: what was dropped of a lone flow is within the filter's
threshold, so more than the table's threshold was counted. `NoFalseReport` adds that a
flow in a report sent more octets than the threshold printed over it. `PlacesEarned` is
the converse for the tables: only `Insert` makes an entry (`EntryMade`), it does so on a
verdict that still stands (`VerdictStable`), and the counters of a lone flow hold nothing
but what was dropped of it, so that the octets offered of it exceed the threshold of its
filter. The history
variables only watch: `AccountSpec` takes the steps of `Spec`, by which the invariants of
`CaptureFarmProofs` carry over to it.

The assumptions of all proofs are the named `ASSUME`s of the modules, which TLC
evaluates in the runs.

Only model-checked: the liveness properties (`AdaptsDown`, `AdaptsUp`, `Shutdown`,
`StopReturns`, `SendCompletes`), which are out of the provers' reach. Every safety
property of a passing run is proved.

## Not modelled

* The text of reports, debugging output and statistics: nothing depends on them.
* The BSD build (`alarm`, SIGALRM) and the commented-out `do_analysis`.
* The tests, whose call in main is commented out, and the helpers of `utils.cpp` they
  use.
* Memory: failing allocations, and packets shorter than the headers `handler` reads
  (the snapshot length of a live capture is 200 bytes).
* The quality of the hash functions and of the dispatch: how evenly they spread flows is
  a matter of probability.
* The growth of the hash table, which nothing bounds (`HashTable.cpp:53`).

## Plan

Done: all modules above, their runs, and the proofs.

Left, in this order:

1. The octets charged to a bucket as a history of the farm: `PlacesEarned` for flows that
   share buckets (`PassJustified`, through analyses, locks and the step between `filter`
   and `insertFlow`).
2. Each worker's table as a `TableInterval`: the properties of one table
   (`SecondChanceOnce`, `IdleRemoved`) for all tables of the farm.
