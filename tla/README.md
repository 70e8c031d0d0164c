# A TLA+ verification project for gather_cxi_counters

`gather_cxi_counters` wraps a command on every node of a SLURM job, reads the
Cassini (CXI) NIC counters before and after it, optionally samples them (and
perf events, and the counters of an NCCL/RCCL profiler plugin) while it runs,
gathers the readings of all nodes over a chain of ZeroMQ sockets, and prints
them on the first node. This directory holds models of its behaviour, their
TLC configurations, and proofs checked by TLAPS. Paths and line numbers are
those of the repository; `PROJECT.json` maps each definition to its lines.

## 1. Inventory

| Component | Source | State it keeps | Operations | Modelled in |
|---|---|---|---|---|
| Start of a task | `main.cpp`, `utils.cpp` | level, rank (`procid`), node list | level gate, counter filter, node list from `scontrol`, registration of sources, role | `Chain` (list, standalone fall-back, roles), `Sources` (tasks with `SLURM_LOCALID > 0`), `Report` (level gate, selection) |
| Chain aggregation | `counter_aggregation.cpp:1987-2185`, `zmq_transfer.cpp` | readings, `AggregatedStats`, sockets | phase 1: read, run, read; phase 2: receive, append, send or print | `Chain`, against `Gather` |
| Several steps of one job | `zmq_transfer.cpp:281-325` | one port per node, which all steps use | the same, one step after the other or overlapping | `Steps` |
| Measurement of a task | `counter_aggregation.cpp:1302-1352, 1987-2090`, `utils.cpp:105-218` | the time series, the `running` flag, the pipe | initial/final readings, sampling thread, `run_command` | `Sampler` |
| Delta series | `counter_aggregation.cpp:873-925, 1060-1166, 1484-1687` | previous reading and bucket, rows | align a timestamp, difference two readings, accumulate in a bucket | `Buckets` |
| NCCL profiler plugin | `nccl_profiler/` | pools of handles, counters in shared memory | `init`, `finalize`, `startEvent`, `stopEvent`, `recordEventState` | `Profiler`, `AtomicMax` against `MaxRegister` |
| Metric registry and sources | `metric_registry.*`, `metric_source*.{h,cpp}` | sources by name, descriptors, the shared segment | register, `init_all`, `read`, `cleanup_all` | `Sources` (the NCCL segment), `Readings` (what is read), `Buckets` (what becomes of it) |
| Counter selection | `counter_collection.cpp:811-951` | `counter_names` | filter by level and environment | `Summary`, in `Report` |
| Wire format | `zmq_transfer.cpp:13-279` | - | `serialize`, `deserialize` | `Wire`, in `Report`; `Chain` and `Steps` treat a row as a record |
| Summary and statistics | `counter_aggregation.cpp:27-434, 1975-1985, 2110-2178` | - | min/mean/max, differences per NIC, timeout tables, the formats and what each level prints | `Summary`, in `Report`; rates, mean time, file names and text are not modelled |
| CSV rows | `counter_aggregation.cpp:788-1973` | - | latency buckets, repeats, joins; tall and wide | `CsvRows`; values of the cells in `Buckets` and `Report` |
| Layout, CPU pinning, vendored code | `print_*`, `utils.cpp:52-103`, `json/`, `include/` | - | - | not modelled |

How they interact. `main()` registers the sources and opens the counter
descriptors, then calls `node_handler()`, which starts the command through
`run_command()` (fork, exec, a pipe) and, in detailed mode
(`GATHER_CXI_DETAILED=1`), a sampling thread. Main thread and sampling thread
share one vector of samples and one atomic flag, nothing else; the order of
start and join is their only protection. Tasks on different nodes share
nothing but one message each, sent to the node before them on TCP port 5555.
Rank processes of the command load the profiler plugin and add to counters in
a shared-memory segment that the task created and reads.

What is hard. Nothing in the chain has a timeout, a task that fails tells
nobody, and a message does not say which step of the job it belongs to. Two
threads use one vector. The command's output passes through a pipe that fills
up, and processes it leaves behind keep the pipe open. Counters wrap at 56
bits, reads fail, the wall clock is not monotonic, an entity may appear in
mid-series. The plugin reuses its handles and several processes update one
counter. A segment in `/dev/shm` is found by a name made of a process id, by
several tasks of a node, and must go on every way out. Two printers of 500
lines each are to say the same of one aggregate. `PROJECT.json` lists each of
these with its line.

What makes each component correct:

* chain: what is printed is complete and true, printed once, and the run ends;
  a failure is contained;
* several steps: a report covers its hosts once; a script that waits for each
  step gets a report of each, of that step alone;
* measurement: the readings and the series span the command, the vector is
  never touched by two threads, every line of output is read, the handler ends;
* delta series: a row is exactly what a counter moved in its bucket, or marked
  as not available;
* plugin: each completed step is counted once, in its own lane, no handle
  leaks, and the running maximum is a maximum;
* sources: a task reads the steps of its own command only, the command finds
  the segment, and no name outlives its task for long;
* selection, wire format and summary: what arrives is what was sent, the
  statistics are those of what the NICs counted for the counters the user
  selected, in every format, and the NICs with a timeout are named; a reading
  that fails spoils its own counter only;
* CSV rows: the two printers agree where their comments do not say otherwise,
  the averages have every latency once, repeat numbers tell rows apart, a
  column holds what it is named after.

## 2. Modules

| Module | What it is |
|---|---|
| `Gather` | The promise: every node contributes a pair of readings; the first node publishes all of them, once; a node left alone publishes only its own. |
| `Chain` | The tasks and their sockets. `pc[n]` follows `main()` and `node_handler()`; `agg`, `pipe`, `inbox` are the rows in the task, in its PUSH socket and in its bound PULL socket. |
| `ChainInvariant` | The inductive invariant `IInv`, in named parts. |
| `ChainProofs` | Theorems about `Chain`, and that it implements `Gather`. |
| `Steps`, `StepsProofs` | Several steps on the same hosts and the same port, and theorems. |
| `Sampler`, `SamplerProofs` | One task while its command runs: main thread, sampling thread, command, pipe; theorems. |
| `Buckets`, `BucketsProofs` | The delta folds of the two CSV printers, and theorems. |
| `Profiler`, `ProfilerProofs` | The plugin's callbacks, pools and shared counters; theorems about it and about `AtomicMax`. |
| `MaxRegister`, `AtomicMax` | An atomic maximum, and the compare-exchange loop that implements it. |
| `Sources`, `SourcesProofs` | The tasks of one node and `/dev/shm`: segments, names, the command's profiler, every way out; theorems. |
| `CsvRows`, `CsvProofs` | The rows, latencies, repeats and ratio columns of the two CSV printers, and theorems. |
| `Readings` | What a task reads: the counter files and the three metric sources, as operators. |
| `Wire` | The message: an aggregate as a sequence of fields, written and read. |
| `Summary` | Selection of counters and of the format, statistics, both JSON documents, differences per NIC, tables of each level, as operators. |
| `Report`, `ReportProofs` | From the NICs of each node, over the messages, to what is printed; extends `Wire`, `Readings` and `Summary`; theorems. |
| `MC*` | Instances: model values and small sets for TLC. |

An operator that stands next to a mapped one and has a suffix (`PrevOffByOne`,
`ReceiveOverwrites`, `NewRowStored`) is a wrong variant of it, a
bug one could plausibly write. It is used nowhere in a specification; putting
it in place of the right one makes a property fail, as `PROJECT.json`
("mutants") lists, which shows that the property depends on the code.

### Chain

Actions, in the order of the code: `Enter` or `EnterStandalone` (the node list,
`main.cpp:115-123`), `ReadInitial`, `RunCommand` or `CommandFails`
(`counter_aggregation.cpp:2043-2046`), `ReadFinal`, `Bind` or `BindFails`,
`Receive` (recv, deserialize, append the own row), `Publish` on the first
node, `Send` or `SendLookupFails` on the others, `Transmit` (ZeroMQ's I/O
thread), `CloseContext` (the infinite linger). `Crash` may strike any time.
External and assumed of a connected PUSH/PULL pair: the pipe keeps its message
until the peer is bound, delivers it once, and a context closes only when its
pipe is empty. A reading is an opaque value. `N` is what `scontrol` lists (the
allocation), `K <= N` the nodes of the step, because the code takes the one
for the other. A socket is closed, with what was still queued in it, in the
step that receives; queued messages after the first are dropped.

`OneCopyUnderWay` speaks of the set of places (tasks about to send or print,
messages in pipes and inboxes) where the rows of the run are. `Gather` is
implemented by mapping a report, a sequence of rows, to the function from
hostnames to readings.

### Steps

A task is a pair of a step and a host. The script waits for a step before it
starts the next, or lets them overlap (`overlap`, chosen once). All steps use
one port of each host: `Bind` takes it if no other task of the host has it,
`BindClash` is the `zmq::error_t` that nobody catches. A message goes to
whichever task has the port of the host before; the step recorded in a row is
history, the code has no such thing. `Crash` kills a task, `Cancel` a step,
whose tasks then die one by one (`Killed`). With faults or overlap a task may
wait for ever; `StepsReport` says that a waiting script without faults gets all
its reports, an overlapping one at least one. Left out is what `Chain` has of a
single step: readings, a lost node list, steps smaller than the allocation.

### Sampler

`main` and `sampler` are the program counters of the two threads; every access
to the vector, the flag and the pipe is a step. One NIC counter stands for all
of them: it moves at any time and a reading copies it. Lines of output are
counted, not stored. The command may close its output early, exit while a
child of it keeps the pipe open, or be killed by SIGPIPE. The sampling thread
stops starting rounds at `MaxSamples`: a bound of the model, not of the code.

### Buckets

The code folds over the samples after the run; the fold only sees the current
sample and what it kept of the one before, so the model advances it with the
sampling. A row's value is compared with the history variable `moved`, which
adds up what happened between each sample of a bucket and the sample before it.
Timestamps are bucket numbers, as `align_timestamp` makes them; the system clock
goes on with `Tick`, and `SetBack` is a clock that is stepped back. Assumed: no NIC counter moves by
2^56 or more between two samples. A NIC counter that cannot be read is 0 in its
sample: the two differences next to it are wrong, and the rows they go into are
marked by history (`spoiled`) and excluded from what the properties promise of
the others. A reading of `Absent` means "the source has no such entity yet",
`NA` is the sentinel `UINT64_MAX`, `NoRow` means the map has no entry.

### Profiler and AtomicMax

A lane is a channel and a direction. NCCL is external; it is assumed to make
the callbacks of one context one at a time, to end steps before their operation
and operations before the context. The pools, which are not thread-safe, need
the first, and the step's pointer to its operation the second. `stopEvent` is
split into its four counter updates, which may become visible in any order
(the code uses relaxed atomics); contexts interleave. In `Profiler` the
maximum is one step, which is what `AtomicMax` is shown to implement.
`g_initialized` is not modelled: it decides only whether `g_pid` is assigned
the process id it already has.

### Sources

`pc` follows `main()` from `init_all()` to the end of the process; a segment
is named by the task that created it, and `shm` maps process ids, of which the
names are made, to segments. `child`, `env`, `heir` and `plugin` are the
command, the name in its environment, the copy of `shm_name_` that `fork()`
makes, and what its profiler has mapped. A name is removed in `cleanup_all()`,
in the destructor of the source, or by the destructor in a child whose
`execvp()` failed; a killed task removes nothing. Process ids are reused, but
not while a process of the group the id leads is alive: `srun` starts a task
as the leader of its own process group, and POSIX gives no process an id that
is a group's. Descriptors of the NIC and perf sources end with their process
and are left out.

### Readings, Wire, Summary and Report

`Start` of `Report` is `main()`: it reads the level, exits on a level of 0 or
none, and selects the counters; the printers read the level again, with another
parser (`MainLevel`, `CounterLevel`). The names are members of a small set with
the oddities of the real lists: one counter stands in the full list twice, one
timeout counter is missing from it.

`Report` then measures one node after the other in the order of the chain: the
nodes share nothing but a message, and their interleavings are `Chain`'s
subject. A node reads its total (`Total`, a sum over NICs), its samples in
detailed mode (`NicSource`, `PerfSource`, `NcclSource`), runs its command,
which prints latencies, reads again, and appends a row and a series to what
`Deserialize` made of the message. A counter file may be missing, and then
always is; any one reading may fail at any NICs and counters (`failing` in the
actions, `Files`): `read_counter_fd` then gives 0, which enters totals and
differences like a value. The counters in `Levels` may fall. `moved` and
`sampled` say what the NICs counted between two readings, `failed` which
readings failed; both are history. A property speaks of the counters whose
readings, those it depends on, did not fail, and that only rise (`Sound`): of the
others the code says nothing true. So each of them says that a failed
reading of one counter, of one NIC, on one node harms nothing else. A field of the
message is one element of a sequence, since both functions give it the same
width; what can go wrong is a field too many, too few or out of place. The times
of the rows stand behind all rows, and the length of a vector of counters is
not in the message: the receiver takes that of its own `counter_names`. That
the sender's is the same is due to all nodes having one environment, and is
the only thing that makes it so. What perf and NCCL count is a constant of the
instance. `ReportAssumption` says what the code has:

* the counters move by less than 2^56 in all (`MaxEvents < Modulus`): the
  code cannot tell a full turn from none;
* the lists of names are not empty (`counter_collection.cpp:811-877`, which are
  literals), `GATHER_CXI_COUNTERS` is a list of words
  (`counter_collection.cpp:892-905`), and the perf source has the events it was
  built with (`PerfEvents # {}`, `metric_source_perf.cpp:96-115`): the entity
  of a source is never without metrics, which `deserialize` would not bring back;
* the two ratios the NIC source adds to its counters have names that no counter
  has (`DOMAIN Copies`, `metric_source_nic.cpp:84-87`), or they would overwrite one;
* NICs, events and channels are finite sets.

`Summary` gives what each format shows: the table, the aggregated and the
detailed JSON document, and, by level, the tables per NIC. Rates, the mean time,
file names and the text are left out.

### CsvRows

A state is the aggregate a run may end with: which buckets and hosts have
samples, which latencies each host printed and when, in which order the series
came down the chain, which counters were selected. The printers are functions
of it, named `Tall...` and `Wide...`, and the properties compare them. Hosts
are numbered in the order of their names, because both printers keep maps by
hostname. The time of a latency is the last token of the line the command
prints (`utils.cpp:178-191`), so `Line` takes any bucket, earlier ones
too; a sample's is that of the system clock, which may be set back, so `Sample`
does as well. The value of a counter cell is `Buckets`' subject; here a cell is
filled or empty, and the two counters that are divided by may be 0 in it
(`zero`). A ratio is a quotient of two positions, an empty field in the tall
table (`None`) or the 0.0 of the wide one (`Zero`). A vector of latencies is a function from the lines they were
printed in (`LinesIn`), since sums and maxima do not depend on its order; the
vectors of repeat numbers, of which the first element counts, are sequences
(`Repeats`). Averages are fractions, sum and count. The cells of perf and
NCCL columns, headers and the clock rate are left out.

## 3. Runs

| Run | Instance | What it shows |
|---|---|---|
| `chain` | 3 nodes, any combination of up to 3 of 5 kinds of faults, fair | Complete or no summary; one report; one copy of the rows under way; a sender leaves only when its rows were taken; `IInv`; refinement of `Gather`; only the nodes from the one above a failure down can be stranded; without a fault all tasks return. |
| `chain_command_failure` (violated) | 2 nodes, 1 failure | A command that cannot be started on one node hangs its neighbour. |
| `chain_small_step` (violated) | 3-node allocation, 2-node step | Nobody is the last node: all tasks wait, no summary. |
| `steps` | 2 steps, 3 hosts, 1 fault, fair | Every report covers the hosts once, whatever happens; no row is in two reports; a script that waits never mixes steps, not even after one that was cut short; without faults its steps report, and of overlapping ones at least one. |
| `sampler` | pipe of 1, 2 lines, all faults, a process left behind, fair | No data race on the samples; readings and series span the command; no line is lost; the handler ends; no deadlock. |
| `buckets` | NIC, perf and NCCL; 3 buckets, width 2, 3 NIC events, 2 of perf and of NCCL, perf reads and up to 2 NIC reads fail, clock may step back | While the clock goes forward NIC rows are exact and perf rows exact or NA; no row, of NCCL neither, says more than what moved. |
| `profiler` | 2 contexts, 2 lanes (1 out of range), pools of 1, 2 events open | Counters add up exactly, slots are accounted for, nothing is dropped unless the pool is full. |
| `atomic_max` | 3 processes, 3 values, fair | The loop is an atomic maximum, and every call returns. |
| `sources` | 3 tasks on 2 process ids, 1 follower, any 2 of 5 kinds of faults | A task reads its own command's steps only; the command finds the segment; no name stays behind. |
| `report` | 3 nodes, 2 NICs, width 3, 2 events or failed readings, of those at most 1, a level, every level, format and kind of list, a missing file, with and without samples | The aggregate survives each hop; of the counters that could be read, every format shows what the NICs counted, in all, per NIC and per interval; the timeout tables name the right NICs. |
| `csv` | 2 hosts in either order, 1 NIC, 2 buckets, 2 lines per host at any times, 6, 7 and 10 counters | The printers agree on rows, cells, repeats, quotients and, if one node reports, latencies; the averages have every latency once; repeats tell rows apart and, if times do not go back, rise. |
| `csv_ratios` (violated) | default selection of counters | The ratio columns divide counters other than those they are named after. |

Bounds and why they suffice. Chain: a role is decided by being first, last or
in between, and three nodes have one of each, with a neighbour below and one
above; with three faults each node may have its own. Steps: rows can mix as
soon as there are two, and a host in the middle both takes and sends. The
theorems drop these bounds. Sampler: a pipe of one line blocks a
writer as one of 64 KiB does; three samples before the sampling thread stops
allow one to be under way when another was stored. Buckets: three buckets make
it possible to skip one, and with a width of two every second event wraps the
counter, within and across buckets. The streams are computed apart from each
other and share only the clock, so a state constraint (`OneStreamMoves`) lets
events come to one stream in each behaviour; the theorems drop it and the
bounds. Report: with three
nodes a message of two rows is sent, which tells a list from an element; one
node is fresh and two have one or all NICs about to wrap around; two events may
fall on one NIC, on two, or on two nodes, seen by a sample or not, and a
reading may fail before, after or instead of the second. That a reading fails
at several NICs or counters, or several readings, is left to the theorems. Profiler:
two contexts interleave in every pair of updates; pools of one slot with up to
two events open are full and not full, and slots are reused. A second duration
would concern only the maximum, which `atomic_max` covers with three. Sources:
a process id is reused only with more tasks than ids, and a fault of one task
matters to at most the next one with its id, which may have one as well. CSV: a
bucket may be empty, before or after the other, or have samples or latencies
only; two latencies per host fall in one bucket or in two, in their order or
against it; two hosts in either order tell apart what goes by name from what
goes by position; six counters are too few for any ratio, seven enough for the
wide printer's first, ten for all.

Fairness. `Chain` and `Steps`: each task keeps running, its command ends, and
its I/O thread delivers once the peer is bound (weak fairness of each task's
steps); nothing is assumed of faults. `Sampler`: both threads are scheduled,
and the command and what it leaves behind write and end when they can; that it
leaves something behind is not assumed. `AtomicMax`: a process that entered the
function keeps running, and its exchanges do not fail spuriously for ever. The
other modules have safety properties only and assume no fairness.

`CHECK_DEADLOCK FALSE` stands in the chain's runs and in `steps`, where a
failure, a step smaller than the allocation, or an overlap may strand every
task; in `sources`, where nothing is left to do once all tasks are gone; in
`report`, which ends when the first node prints; and in `csv`, whose run ends
at its bounds. Everywhere else TLC checks for deadlock.

## 4. Findings

Each of these is the subject of a run that TLC finds violated; `PROJECT.json`
quotes the line it contradicts.

* `exit(1)` after a command that could not be started strands the neighbours
  (`counter_aggregation.cpp:2045`).
* The chain is as long as the allocation, not as the step (`utils.cpp:225`).
* The ratio columns take four counters by position; in the default selection
  other counters are there (`counter_aggregation.cpp:1210`).

Also seen while modelling, subject of no run. About running and measuring:

* `exit(1)` in detailed mode destroys statics that the sampling thread is
  using (`Sampler`, `DestroyStatics`).
* Steps that overlap may mix: a row goes to whichever step has the port. Of two
  that bind at the same time one aborts, and a second queued message is
  dropped with the socket, so its step may hang (`Steps`).
* A step that starts at another node than the allocation sends to a host it
  does not run on.
* Nothing synchronises the phases: a node may be in phase 2 before another has
  started its command.
* A node that loses the node list prints a summary of its own (`EnterStandalone`).
* A clock that is set back makes a sample overwrite the row of a bucket
  (`counter_aggregation.cpp:912`; `forward` in `Buckets`).
* A NIC counter that cannot be read is taken for 0 (`NicReading`,
  `ReadCounter`); its next difference is then phantom traffic, up to a full turn
  of 2^56 if a bucket has two such readings. A counter that did not move is then
  in the summary, which `README.md:255` rules out, with all it counted since its
  NIC started or with a value just below 2^56. A timeout counter of which the
  first or the last reading fails names its NIC in the tables on error.
* The first sample with an NCCL entity is written as zeros
  (`counter_aggregation.cpp:1156`), but the entity appears with its first step
  (`metric_source_nccl.cpp:142`): what moved up to it is in no row
  (`NcclDelta` of `Buckets`).
* Sources are cleaned up in reverse order of their names, not of their
  registration (`metric_registry.h:57`).
* The child resets its affinity to all online CPUs whatever it was before, and
  the counter descriptors are open in it (no `O_CLOEXEC`).

About selection and levels (`Summary`):

* `rh:spt_timeouts_o` is missing from `all_counter_names`, which has
  `spt_timeouts_0` (`counter_collection.cpp:821`): `GATHER_CXI_COUNTERS=all`
  leaves it out, and naming it is an unknown counter. Twelve other names stand
  in the list twice.
* `rh:sct_in_use` is called a snapshot value (`counter_aggregation.cpp:672-673`)
  but is differenced modulo 2^56 like the counters: a level that falls shows a
  value just below 2^56 (`Fall` of `Report`).
* The README gives `COUNTER_LEVEL` the default 1 and `GATHER_CXI_COUNTERS` the
  default `all`; the code reads `GATHER_CXI_COUNTERS_LEVEL`, exits with 1
  without running the command when it is unset, and takes
  `default_counter_names`.
* `main()` and the printers parse the level differently: `3x` and `9` are 3 and
  9 to the one and the default to the others; `quiet` cannot be reached.
* `GATHER_CXI_OUTPUT_FORMAT=text` does not override `GATHER_CXI_JSON=1`: JSON
  comes first, then tables. Level 2 prints its table twice, and the per-NIC
  tables of the levels on error need `GATHER_CXI_DETAILED=1`.
* `print_aggregated_timeouts` is never called, and the fall-back of the
  aggregated JSON document (`counter_aggregation.cpp:375-400`) is never reached.
* A message does not say which counters it carries; only the common environment
  keeps the nodes in step (`ReadCounters` of `Wire`).
* Min and Max of the summary are over the totals of the nodes (`Stats`), not
  "across all nodes/NICs" (`README.md:248, 252`).
* "If any timeout counter changed" (`counter_aggregation.cpp:192`) is any that is
  selected: one that is not goes unnoticed, and nothing says so as long as
  another one is selected (`TimeoutIndices`).
* NCCL channels are given to `cxi*` and `hsn*` devices, counters are read of
  `hsn*` only; `hsn10` sorts before `hsn2`.

About the CSV (`CsvRows`, `Buckets`):

* The tall printer drops the latencies of a bucket without a sample as soon as
  another bucket has one (`Filtered`), while the wide one has a row for it.
* If several nodes print latencies, the tall table averages over all of a bucket,
  the wide one over those of the first node by name, and the repeat number,
  "global (same across all nodes)" (`counter_aggregation.cpp:838`), is that of the
  first node of the series: each numbers its own lines. What the comments
  call the typical case, one node reporting, is `OneReporter`.
* A ratio without a value (nothing to divide by, too few counters, no sample of
  that NIC in the row) is an empty field of the tall table ("Empty for NA") and
  0.0 in the wide one ("ensures numeric type"). So a 0.0 of the wide table may
  be a quotient that is 0 or none at all. `PrintersAgree` therefore asks that a
  quotient of the tall table be in the wide one, and that the wide one have 0.0
  where the tall one is empty, except in the next case.
* With seven to nine counters selected the wide printer fills its first ratio
  column, which the tall one leaves empty; with exactly seven it reads an eighth
  counter (`At(7)` in `WideRatios`). No built-in selection has so few.
* Latencies are put in the order of their bucket, repeat numbers in that of
  their lines. Nothing keeps the times a command prints from going back, and
  then a later row has a smaller repeat number (`RepeatsRise`, `InOrder`).
* Rows of latencies alone (`counter_aggregation.cpp:993-1009`) lack the counter
  fields, so that later columns shift.
* An NCCL value of 0 is empty in the wide table and 0 in the tall one; an event
  the kernel does not count is 0 in the first row and empty afterwards; the
  names of the perf columns are those of the first sample that has any; columns
  of the wide table are named by the digits at the end of host and NIC only.

## 5. Proofs

Constants are restricted only by the named assumptions of the modules; they
say no more than their comments do. All proofs are checked by TLAPS with Z3,
Zenon and LS4.

`ChainProofs`, for every number of nodes, steps smaller than the allocation,
any set of readings and any number of faults:

* `Invariance`: `IInv` is an invariant. `ReportComplete` is not inductive: a
  report is complete because the aggregate was, that one because the message
  was the whole aggregate of the next node up, and that one because nobody else
  could have put a message there. `IInv` says this in parts: how far the data
  has come for each `pc` (`ViewInv`, `MeasureInv`, `WaitInv`), that an
  aggregate is complete from its node up (`AggInv`), that a message is its
  sender's aggregate (`PipeInv`, `InboxInv`), that what was taken left the
  sender (`TakenInv`, `LeftInv`), and what a report is (`ReportInv`). There is
  a lemma for each action.
* `TypeCorrectness`, `Completeness` (`ReportComplete`), `SingleReport`
  (`OneReportOfTheRun`), `NothingLeftBehind` (`ExitOnlyWhenTaken`) follow.
* `OneCopy` (`OneCopyUnderWay`), by `AboveInv`: behind a task that has
  the rows, all tasks above have sent theirs and keep no message.
* `Refinement`: `Chain` implements `Gather`. The initial states map to one, and
  each action maps, under `IInv`, to a step of `Gather` or to a stutter.

`StepsProofs`, for any number of steps, hosts and faults: `Wholeness`
(`ReportsWhole`) and `Separation` (`StepsApart`). The first rests on what a task
holds being the hosts from its own up, in order; the second on a row being in
the hands of one task or in one message, and on a step being over before the
next begins.

`SamplerProofs`: `TypeCorrectness`, `NoSharing` (`SamplesNotShared`),
`ReadingsSpan` (`ReadingsSpanCommand`), `NothingUnread` (`EveryLineCaptured`).
The invariant relates the two program counters (`Threads`: the sampling thread
exists only between start and join), the lengths of what was stored, the lines
between writer and reader (`Output`), the order of the readings (`Order`) and
the series to the command's life (`Series`).

`BucketsProofs`, for any width, number of buckets and events: `Types` and
`NothingInvented`, whatever the clock does; `NicExactness` and `PerfExactness`,
both of every run in which the clock is not set back (`forward`) and of every
row that no failed reading spoiled. The
arithmetic core is the lemma that the 56-bit difference of two readings is
what the counter moved if that is less than the width; the induction
strengthens exactness with what `prev` and `prevBucket` are to `last`
(`Linked`), and with "no bucket after the clock has a row" (`Exact`).

`ProfilerProofs`, for any contexts, lanes, pools and durations:
`TypeCorrectness`; `HandlesAreUnique` (`SlotsAccounted`), whose invariant
`Pools` says of each context which operations and steps hold which slot, that
no two hold one, and that none leaks; `NothingDroppedBefore`
(`DroppedOnlyWhenFull`), an action property, from the same invariant: a pool
that hands out nothing has all its slots in use; `CountersAreDue`
(`CountersAddUp`). The last compares the shared counters with what is still owed by `stopEvent` calls
under way in any number of contexts, a sum over a set: `CountInv` says that
there is a sum function that agrees with what each context owes, and each step
exhibits the next one (`SumMoves`). Last, `MaximumIsAtomic`: `AtomicMax` implements
`MaxRegister` for any processes and values, which justifies that `Profiler`
raises a maximum in one step. A call takes effect when its
exchange succeeds, or when it sees a value that is not below its own; the second
needs `SeenBelow`.

`ReportProofs`, for any number of nodes, NICs, counters, events, latencies and
samples, any width of the counters and any lists of names, whatever readings
fail and whichever counters are levels: all invariants of `Report`. It has two
halves.

The first is about data. The induction theorems of the library take an
operator, which the provers here cannot instantiate. A set takes its place:
`Induction` says that a set of numbers with 0 and all successors has all
numbers, `OnSubsets` the same of the subsets of a finite set, and an induction
defines the set of those for which something holds. From this come

* `Sums`: the recursion of `SumFunctionOnSet`; with it, what sums of sums, of
  fewer elements and of larger ones are (`SumPlus`, `SumsAgree`, `SumAtMost`);
* `FlattenStep` and `TimesStep`: the recursions of writing a list and of reading
  one, and with them that what `Wire` writes it reads, type by type: fields,
  lists, maps in whatever order they are written, rows, samples, series, and
  `RoundTrip` for the aggregate. Each of these lemmas concludes
  `Reads(fields, read, w, v)`: wherever the fields hold `w`, the reader returns
  `v` and stands behind it;
* `SubtractReadings`, `SubtractSums`: a difference modulo 2^56 is what was
  counted, of a counter that wrapped around and of a sum over NICs, of which
  any may have;
* `SelectedNames`: whatever the level and the list, the names selected are
  counters, and there are some.

The second half has three invariants, each proved action by action, the later
ones from the earlier:

* `Shape`: types, and that an aggregate is what the nodes appended. That it
  survives a hop is `RoundTrip`, whose hypotheses (a vector has one element for
  each selected counter, nothing in a sample is empty) are in `Shape` for that
  reason. `TypeCorrectness` and `RowsArrive` (`RowsArriveIntact`) follow.
* `Counted`: while a node is measured, what its counters moved since the
  initial reading, which with all other nodes' is at most the number of events;
  and for each row, which node it is of and that final less initial is what was
  counted on it, of each counter that only rises and of which no NIC's initial
  or final reading failed. The others are `Lost`, a set that only grows
  (`LostGrows`), so what was said of a row stays true when more is lost.
  `SummaryCorrect` (`SummaryExact`) follows.
* `Recorded`: what a series tells. The readings of a counter in two samples
  that follow each other differ by what was counted between them, from the
  first to the last sample that is `sampled`, and it is no more than what was
  counted between the readings for the total. What is lost to the first and
  the last sample and what is lost to any of them are kept apart, because the
  tables depend on the former only. `TimeoutsAreNamed` (`TimeoutsNamed`) and
  `SeriesCorrect` (`SeriesExact`) follow, the latter by a sum over the
  intervals and one over the NICs.

`SourcesProofs`: `TypeCorrectness`, `OwnSteps` (`OwnStepsOnly`),
`NameLeadsToSegment` (`CommandFindsSegment`), `EveryNameAccounted`
(`NamesAccounted`). The invariant says that no two tasks have one process id,
and that a segment is mapped, plugged and named for one task only (`PidInv`,
`TaskInv`, `SegmentInv`, `EarlyInv`, over what can be reached, `Reach`).

`CsvProofs`, for any number of nodes in any order, any NICs, buckets, samples
and lines: all invariants of `CsvRows`, `Agreement` (`PrintersAgree`),
`Conservation` (`LatenciesConserved`) and `Rising` (`RepeatsRise`). They are
about one state; the invariant they need is `Aggregate`: every node is in the
series, and samples and lines have their types. The rest is data:

* `SumPartition`: the sum over a finite set is that of the sums over its parts.
  For `Conservation` the parts are the lines of each bucket, summed once by
  their latencies and once as ones (`CardinalityIsSum`);
* `FlatFirst`: what comes first in sequences that are joined; `FoldFirst`: the
  fold of the wide printer keeps the first number. They give `FirstOfBucket`:
  the repeat number of a bucket is that of the first line in it, if one node
  reports; two buckets have no line in common, and if times do not go back,
  the lines of an earlier bucket come first;
* `RowsOfBucket`: the rows of the tall printer in a bucket are the filled cells
  of the wide one, case by case as `Filtered` is empty or not; `RatiosOfRow`
  does the same for the ratios.

The lemmas on induction, sums and lists that `CsvProofs` has in common with
`ReportProofs` stand in both, for neither module is about the other's state.

Only model-checked: everything temporal beyond `[]` (the run ends, containment,
steps report, the handler ends, calls return) since it needs fairness and
ENABLED, which the prover does not do. Every invariant and every action property
of the passing runs is a theorem.

## 6. Limits

Not modelled, and not planned:

* Vendored code: `json/json.hpp`, `include/zmq.hpp`, `include/zmq.h` and
  `nccl_profiler/nccl/profiler.h` are 28 261 of the 34 098 lines of the
  repository. What the program relies on of ZeroMQ and NCCL is modelled as
  external actions.
* Layout of the Markdown text, headers of the CSV, rates and the clock rate:
  formatting and divisions of numbers that are modelled.
* CPU pinning and the affinity of the child: system calls whose result nothing
  in the program reads. The `-e` option, which turns into perf events that the
  models take as given.
* What a counter file holds when it can be read but not parsed: `strtoull` gives
  a number in any case, and the kernel writes these files.
* The bytes of a message and a message cut short: ZeroMQ delivers whole
  messages, and the fields have the same width on both sides.
