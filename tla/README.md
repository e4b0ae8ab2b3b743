# MultiGPUBeamSearch: TLA+ models and proofs

This directory specifies, model-checks and partly proves the protocols of the native
multi-GPU beam search and of its CayleyPy integration. Paths below are relative to the
repository; module and definition names are those of the `.tla` files here. `PROJECT.json`
lists the runs, the source lines every definition stands for, the hazards and the theorems.

1. [The system](#1-the-system)
2. [Modules](#2-modules)
3. [The depth pipeline](#3-the-depth-pipeline)
4. [Around the depth](#4-around-the-depth)
5. [Native contexts, sessions and ranks](#5-native-contexts-sessions-and-ranks)
6. [The integration](#6-the-integration)
7. [The CNOT search](#7-the-cnot-search)
8. [Runs, bounds and what they show](#8-runs-bounds-and-what-they-show)
9. [Fairness](#9-fairness)
10. [Proofs](#10-proofs)
11. [Where the code and its text disagree](#11-where-the-code-and-its-text-disagree)
12. [What is not modelled](#12-what-is-not-modelled)
13. [Running it](#13-running-it)

## 1. The system

A search expands a frontier of states depth by depth. Every depth generates all children
of the frontier, scores them, drops duplicates, and keeps the best `BEAM_WIDTH` distinct
states as the next frontier, until a goal is generated or the depth budget is spent. Each
GPU is a *rank*; candidates belong to ranks, and within a rank to logical *shards*, by
their 128-bit hash. A Python integration prepares sources, a built runner and model
artifacts, tunes and sizes the run, starts native processes and turns what they print into
an answer. A second, independent search (CNOT circuits) runs in Python on several ranks.

### Native engine

| Part | Source | State it keeps | Operations | Talks to |
| --- | --- | --- | --- | --- |
| Depth scheduler (host) | `cuda/dispatcher.cu` `run_depth_cuda_graphs` | frontier cursor, state of each ring, ready rings, pending Stream 4 queue, free and busy slots, shard that is running, jobs since the last threshold update, stop flag as seen | one polling loop: reap, launch, fill rings, admit Stream 3, update threshold, wait; drain; final flush; finalize | streams by graph launches and events; device counters by copies |
| Stream 1/2 | `stream1*.cu`, `stream2.cu` | ring buffers | expand and score a chunk of the frontier, hash it, test for goals | ring done event, device stop flag |
| Stream 3 | `stream3.cu` | the batch, write index per shard, ready list, fatal flag | threshold, deduplicate, partition to shards, append to a bank, select banks to sort | reads the ring; writes banks and ready list |
| Stream 4 | `stream4.cu` | two banks A and B per logical shard (clean and dirty rows), processing flags, histograms | prune by threshold, sort, keep the best row of a state; union of A and B at the end | slot done event, processing flag |
| Threshold (Stream 5) | `threshold.cu`, `stream5.cu` | conservative histogram, two threshold slots and the active index, initialized flag | periodic update, exact final threshold and selection | read by Streams 3 and 4 |
| Multi-rank exchange | `dispatcher.cu` 3278-3566, 4126-4141; `stream5.cu` | send and receive counts, reserved room, collective request | admission, exchange rounds, collective threshold | collectives |
| Final redistribution | `dispatcher.cu` 4448-5117, `final_materialize.cu` | counts below and at the threshold, chunk, response slots | deal out the kept candidates, make their states where the parent is | collectives |
| Candidate history | `tools/history/candidate_history.hpp`, `src/history_budget.cpp` | slots, depths in RAM, arenas and their plan, prune jobs | copy, write, fall back to RAM, prune adjacent depths, trace a path | the depth loop; writer and prune threads |
| Production runner | `tools/production_runner.cu` | settings, depth loop, solution buckets | run depths, collect solutions, report | dispatcher, history |
| Engine control | `native/beam_native.cpp`, `engine_control.hpp` | phase, pending job, completed count, stop, result | create, prepare, submit, wait, status, cancel, destroy | caller threads and one engine thread through a mutex and a condition variable |
| Static memory, configuration | `static_memory.cu`, `runtime_config.cpp` | one arena, derived sizes | size, validate, reserve | everything on the device |
| Rust runtime | `rust/beam-runtime/src`: `worker.rs`, `resident.rs`, `search_session.rs`, `probes.rs`, `planning.rs`, `pipeline.rs`, `history.rs` | worker processes and their files, sessions, cached profiles, a history store | the same jobs as the Python and C++ parts, for callers of the Rust library | worker processes through a directory |
| Core contracts, bindings, CPU references | `rust/beam-core`, `beam-native-sys`, `beam-python`; `src/src/*.cpp` | none of their own | validate, convert; sequential Stream 3/4 | all parts; tests |

### CayleyPy integration (`integrations/cayleypy_native/multigpubeamsearch`)

| Part | Source | State it keeps | Operations | What makes it correct |
| --- | --- | --- | --- | --- |
| Dispatch | `dispatch.py` | what is installed, the captured original, registered names and default | enable, disable, sessions, routing of a call | what it found is restored; nobody else's wrapper or name is lost |
| One search call | `dispatch.py`, `backend.py`, `options.py` | run directory, environment, planner session, recorded configuration | prepare, probe, plan, tune, launch, parse, fall back | torch takes over only when nothing native began; what ran is what was recorded |
| Pinned sources | `sources.py`, `bootstrap.py` | a cache shared by processes | download, extract, rename, verify | only trees that match their archives are used |
| Runner build cache | `build.py` | entries with executable and metadata, a lock | look up, build, publish, snapshot | what is executed was built from the sources its key names |
| Model artifacts | `models.py`, `preparation.py`, ... | private directory of a run, manifest | hash, freeze, pin, share a bundle, verify | every member is what its source held at one moment |
| Publication | `publication.py` | receipts and manifest | submit parts, poll, verdict | "published" is said only when all is there |
| Capacity planning | `maximum_beam.py`, `beam_capacity.py`, `inference_admission.py`, `working_capacity.py` | frontier, batch, profile, budget | bisect, refine, admit, verify with a full step | the frontier was admitted with the batch it runs with |
| Downstream tuning | `pipeline_autotune.py`, `component_autotune.py`, ... | cache, shared records, timings | propose, measure, compare, keep a receipt | measured alone, reused only where it still holds |
| Inference calibration | `autotune.py`, `calibration_*.py` | receipt, samples | candidates, measurements, refinement, choice | a refused batch is tried again once it fits |
| Local launch and parsing | `local_launcher.py`, `backend.py` | processes, merged log | start, watch, stop, merge, judge | an answer agrees with all ranks and leaves nothing alive |
| Cluster launch | `cluster.py`, `cluster_worker.py` | claims and a failure marker in a shared directory | claim, launch, watch, clean up | one process per rank and place; a failure stops all |
| Native session | `persistent.py`, `resident_transport.py`, `worker.rs` | lock, worker group, mailbox | run, close, enter, exit | an answer belongs to its request; nothing stays alive |
| CNOT search | `cnot*.py` | slice of the beam, records, closed set | expand, exchange, deduplicate, cut, trace | ranks stay in step and do what one place would do |
| Processes behind planning, reports, graph networks, contracts | `plan_session.py`, `calibration_session.py`, `runtime_report.py`, `pancake_gnn.py`, `problem.py`, ... | | | section 12 |

`third_party/`, `profiles/`, `kaggle/` and `test_results/` are vendored code, recorded
measurements and artifacts.

### What is hard

*One rank.* The host thread, Streams 1/2, Stream 3 and several Stream 4 slots run at once.
A bank changes hands four times (Stream 3, the device ready list, the host queue, a
Stream 4 slot) and is given back on the device *before* the host sees the event. The host
decides from counters it copies with three separate transfers while sorts run. The
threshold is computed from histograms of banks sorted at different times that may hold
the same states, and prunes the very candidates a later threshold is computed from. A stop
can be requested in the middle of all this.

*Several ranks.* Every rank must enter the same collectives in the same order whatever its
local progress, and reserve room for what its peers may send before a round is admitted.
The share of the final beam a rank owns is computed twice, once by rounding up on the host
and once by rounding down on the device. The CNOT search has the same problem in Python, and
in addition ranks that were started with other settings or fail alone.

*Memory of the past.* History entries are renumbered by other threads while new depths refer
to the old numbers; a disk write fails after later depths were promised places.

*Processes and files.* Request, receipt, stop and failure files race timeouts, cancellation,
exits and a killed owner; caches are filled by several processes at once, one of which may be
killed; a model is rewritten while it is hashed.

*Decisions on old knowledge.* Receipts of earlier tunings, frontiers admitted with another
batch, profiles measured with other memory, configuration files written before the last
change.

## 2. Modules

| Module | Kind | Content |
| --- | --- | --- |
| `Candidates` | data | candidates, scores, states, shards; the reductions; what a correct beam is |
| `BeamDepth` | abstract specification | each depth yields a correct beam in one step, or the search ends |
| `DepthPipeline` | detailed specification | one rank: host scheduler, Streams 1-5, depth after depth |
| `Stream3Scatter` | detailed specification | one block of the scatter kernel, warp by warp |
| `ExchangeRounds` | detailed specification | one depth of several ranks: admission, rounds, collectives, threshold |
| `FrontierExchange` | detailed specification | redistribution of the kept candidates over the ranks |
| `CandidateHistory` | detailed specification | slots, writers, arenas, pruning, traces |
| `EngineControl` | detailed specification | contexts of the native library, their callers and engine threads |
| `NativeSession` | detailed specification | resident workers of a Python session, both sides of the mailbox |
| `LocalRanks`, `ClusterRanks` | detailed specifications | ranks of one search on one machine; tasks of one attempt on a cluster |
| `SearchCall`, `Dispatch` | detailed specifications | one call; how calls are routed |
| `SourceCache`, `BuildCache`, `ModelArtifacts`, `Publication` | detailed specifications | what precedes and follows a call |
| `CapacityPlanning`, `InferenceTuning`, `PipelineTuning` | detailed specifications | the three phases that choose what the workers run with |
| `TimingStats` | operators | what tuners make of repeated measurements |
| `CnotDomain` | data and operators | matrices, moves, ranking of children |
| `CnotBeam` | abstract specification | the CNOT search in one place |
| `CnotSearch` | detailed specification | the same on several ranks |
| `Adapter` | composition | what surrounds a call (`SearchCall`, `Dispatch`, `SourceCache`, `BuildCache`, `ModelArtifacts`, `CapacityPlanning`, `Publication`) and its properties |
| `Ranks` | composition | the processes of a launch (`LocalRanks`, `ClusterRanks`) and their properties |
| `Sessions` | composition | what keeps engines alive between searches (`NativeSession` twice, `EngineControl`) and its properties |
| `CandidateProofs`, `DepthPipelineProofs`, `ExchangeProofs`, `NativeSessionProofs`, `SessionsProofs`, `CnotProofs`, `AdapterProofs`, `RanksProofs` | proofs | section 10; those on the scatter are in `DepthPipelineProofs` |
| `MCDepthPipeline`, `MCDepthSizes`, `MCExchange`, `MCSession`, `MCAdapter`, `MCPlanning`, `MCRanks`, `MCCnot` | models | instances for TLC |

`DepthPipeline` and `ExchangeRounds` extend `Candidates` and instantiate `BeamDepth` under a
refinement mapping (`Depths`, `Depth`); `DepthPipeline` takes the scatter as one step, which
`Stream3Scatter` refines for shares of one warp and refutes beyond (section 11);
`FrontierExchange` begins with the counts and the threshold with which `ExchangeRounds` ends;
`CandidateHistory` stores what a depth leaves. `CnotSearch` instantiates `CnotBeam` in
`MCCnot`. `PipelineTuning` and `InferenceTuning` use `TimingStats`.

**Models with parts.** The phases of a call, the processes of a launch and the stages of a
depth do not share variables: each sees the others as one step that succeeds or raises. A
model that explores several of them therefore has a variable `part` that says which one a
behaviour is, and in which configuration; the variables of the others are `"absent"`, and
every property is an implication from `part`. `ASSUME`s in the model evaluate the
assumptions of each instance. Where theorems speak of such a model its composition is a module
of its own, with the parameters of its instances as CONSTANTS (`Adapter`, `Ranks`, `Sessions`), and the MC module
only has their values.

What a further extension would add: the transport below the collectives, the Rust history
store and its bridge, and the processes behind one admission or measurement.

## 3. The depth pipeline

### Data

A candidate is a natural number whose order is the reductions' tie-break (parent, then
route). `Score`, `StateOf` and `ShardOf` are functions, so candidates may share a state and
a state lies in one shard. A region of a bank is a *set* of candidates: the code deduplicates
inside Stream 3, and every candidate is generated once, so no row occurs twice in a bank.
The code's histogram
has one bin per score key, so a set of scored rows says as much as a histogram.

A bank's histogram counts the rows it held when last sorted; it is kept as the set `hist[p]`
of those rows, and the conservative count is the cardinality of the union of each shard's
larger prefix. Rows of distinct shards are distinct, so that is the sum the kernel forms.

### Host

`pc` is the scheduler's position. A pass of the main loop goes

`test → reap → rings → stream3 → stop → update1 → launch/launching → fill → admit … launch3 → update2 → idle → test`

with `halting` in place of the second half once a stop is requested, then
`drain → apply → flush → flushAppend → drain → flushed → (apply) → flushTest → finalize → done`.
`launch` and `drain` are used from several places; `returnTo` says where they go back to.
Each position is one action, because the device may move between any two of them; in
particular the three copies of `stream3_has_writable_buffer` (clean counts, dirty counts,
flags) are three actions. The streams are created non-blocking, so a copy on the default
stream does not wait for a sort.

The queue of ready banks, the list of pending entries and the rings are sets. Entries carry
a queued flag in the code, so a set loses nothing; rings are taken by load number, which is
their order; the order among pending entries is left open, as is the order in which `Drain`
releases and launches (the code blocks on one particular slot). That is more than the code
does, never less. The counter of jobs since the last update is saturated at `JobsBound`, above
which the code does not tell values apart.

Exceptions are positions: `error` for the scheduler's consistency checks, `failed` for the
fatal flag. A stop ends in `stopped`.

### Device

* `FinishRing` finishes the oldest ring load; a goal raises `stopFlag`.
* Stream 3 is five steps: pack (threshold, deduplicate), prepare (choose a bank per shard,
  raise `fatal`), scatter, build the ready list, done. The host may reap only the last.
* A Stream 4 job is three: sort; publish its histogram and give the bank back
  (`processing` cleared on the device); signal. Between the last two the bank is free while
  the host still believes the shard is running.
* The two-slot publication of the threshold is one variable: with one rank an update runs
  with Streams 3 and 4 idle, so no reader sees it half done.
* Counter loads inside `prepare` and `build_ready` are one step each.

Only `SHARD_BUFFER_COUNT = 2` is modelled. The configuration rejects every other value, and
the spill path is unreachable.

### Results

`Finalize` computes the union of each shard's clean rows, the exact threshold, and any set
the selection may produce: which of the rows that tie with the threshold are taken depends
on storage order and is left open. It resets what `finalize_depth_single_gpu` resets; what it
does not reset, the next depth inherits.

`offered` and `admission` are history: what Stream 3 has taken from rings in this depth, and
whether the job in flight was let through by a consistent check, a torn one or the bypass.

### Properties

| Property | Says | Hazard |
| --- | --- | --- |
| `TypeOK` | the type invariant | |
| `Ownership` | a bank is flagged exactly while one party holds it | hand-over through four owners |
| `OneBankPerShard` | never both banks of a shard with Stream 4 or promised to it | sibling becomes ready early |
| `CapacityRespected` | no bank beyond its capacity | decisions on changing counters |
| `NoSchedulerThrow` | the consistency exceptions are unreachable | stale host belief |
| `HandOverInv` | host and device agree on who holds what, position by position | the same, as an inductive invariant |
| `NothingLost` | what Stream 3 took is held, or something no worse of its state is, unless the threshold excludes it | pruning, deduplication, failed append |
| `ThresholdSound` | a threshold in force leaves enough distinct states for the beam | duplicates across banks |
| `ThresholdTightens` | never withdrawn or loosened within a depth | carry-over on publication |
| `CheckedNeverOverflows` | a batch within the write reserve does not overflow when admitted on counters of one moment | check then act |
| `ImplementsBeamDepth` | every depth yields a correct beam of all it generated | order of everything |
| `GoalNotMissed` | a depth is not completed with a goal flag raised but unseen | flag read only after rings |
| `NothingLaunchedAfterStop` | nothing starts once the stop is seen | stop in mid-pass |
| `QuiescentOnReturn` | streams idle, rings free, and after a completed depth nothing queued | stop or end in mid-flight |
| `Terminates` | every search ends | backpressure, waiting |

The refinement maps `depthsDone` to the finished depths, `beam` to `beam` and `ended` to the
three terminal positions; all steps inside a depth stutter.

### The scatter kernel

`Stream3Scatter` is one thread block of `stream3_partition_scatter_kernel`. A warp reads
`clean_count + dirty_count` once, then copies its rows in strides of the block; thread 0, in
warp 0, adds the rows to `dirty_count` after its loop. There is no barrier between the last
read and that addition. `RowsInPlace` says the rows land right behind those the bank held.

## 4. Around the depth

### Rounds of several ranks

`ExchangeRounds` is one depth of the same scheduler when `WORLD_SIZE > 1`. A rank works alone
until it stands in a collective; the collective is one action, `Agree...` or `Exchange...`,
that takes place when every rank stands in it, and `brings` is what each contributes. The
scheduler's passes are cut to what the exchange can tell apart: the next ring may be ready at
any moment, and a Stream 4 job sorts, gives its bank back and signals in one step.

A rank has a `stage`: in the loop, in the rounds that follow it (it has no parents left, but
others have), at the end. All agree on `rounds`, the greatest number of ring loads, at the
start. A round goes: three counter copies, one action each; the rank's own request (nothing,
an update that is due, or pressure because a bank has no room for a round); `AgreeRequest`,
the maximum over the ranks, once before and once after the update; the histograms' sum and
the threshold; the launch, which fails if there is still no room. Stream 3 then splits its
survivors by owner; counts and payload are exchanged, a receive beyond `RecvCapacity` fails,
and the owner appends what it got. After the last round the banks are flushed and the exact
threshold and the shares are agreed. Counts that are added up over the ranks are `Total`, the size of
the disjoint union of what is counted, so that no recursion over the ranks is needed.

* `RoundsInStep`: ranks that stand in a collective stand in the same one. A rank without
  parents takes part in the remaining rounds; due and pressure requests arise at different
  ranks at different times.
* `CreditKept`: a round that was admitted on counts of one moment overflows no bank, although
  it may receive from every peer at once.
* `ImplementsBeamDepth`: the depth is one step of `BeamDepth` over the union of all loads
  (`Depth!Spec`): what the ranks keep together is a correct beam, whatever arrived when.

Section 10 proves the three for all ranks, loads and sizes.

### Dealing out the beam

`FrontierExchange` starts with `less` and `equal`, the candidates of each rank below and at the
threshold. `Place` is the position of a candidate over all ranks, those below first.
The share of a rank begins where `Begin` says, which rounds up; the rank that a place belongs
to is `TargetRank`, which rounds down: two computations in two languages that must agree. In
each round every rank sends the records of a chunk to the new owners and requests to the
ranks of the parents; responses travel in one of three slots while the next round begins, and
are delivered when the slot comes round again or at the end. Rounds in which a rank has
nothing are rounds nevertheless. A rank that gets more requests than `Capacity` fails.

`FrontierComplete`: at the end every rank has exactly its part of the kept candidates, in
order, with the record and the state of each. Part of `DepthHandedOn`.

### History

`CandidateHistory` follows one rank through the depths: the search takes a free slot
(pumping completions until there is one), copies a depth, submits it, goes on; up to `Workers`
writers store slots at any moment, in RAM or to disk, and may fail. In the hybrid mode
`Plan` decides at the start where each depth goes; a failed disk write falls back to the
RAM the plan left (`FallbackFits`). In RAM on one rank, two adjacent depths are pruned: entries
nobody refers to go, the rest move, and the later depth's parents are renumbered
(`Kept`, `NewIndex`). The entries are modelled by their parents; `committed` remembers them as
they were. Before a path is read, every writer and pruning thread is joined, and so does the
destructor.

* `LinksLeadBack`: a trace through the stored, moved and renumbered entries meets the same
  candidates as one through the committed depths.
* `OnlyAncestorsKept`: pruning keeps exactly what later depths need, once everything is pruned.
* `FailsForDiskOnly`: the history throws only when a disk write failed and no RAM was left.

The three are in `DepthHandedOn` too.

## 5. Native contexts, sessions and ranks

### The native library

`EngineControl`: every call holds the mutex of its context, so it is a step; a wait sleeps
until `Look` finds its ticket completed, the context failed or the time over, and `destroy`
joins the engine before it gives the process-wide flag back. The engine prepares, takes the
job, looks for a cancellation between depths, completes or throws. `JobsAsAnswered` says a
`BEAM_OK` outlasted every earlier job and that completions match what ran, `OneEngine` that at
most one engine exists and never outlives its context; the run has two clients that submit up to
two jobs to each of two contexts, wait, cancel and destroy in any order, and section 10 proves both
for any number of clients, contexts and jobs. `Sessions` composes this part, `library`, with the two
kinds of session below, `single` and `shared`.

### Sessions and the mailbox

`NativeSession` has both sides of the mailbox: threads in `run`, `close`, `enter`, `exit`
(`call[t].pc`), and workers that wait, search, write their receipt and look for the stop file.
The record `group[g]` is one group of workers with its request and receipts. The deadline
(`Elapse`) may pass between the reading of the receipts and the test of the clock; the request
may be interrupted; a worker may die at any step; the owner may be killed without
unwinding, after which workers find their parent gone. `AnswerBelongsToRequest` ties an answer to the
request, the identity and every rank; `PostsAfresh` says no request is posted over another or
beside an old receipt; `NoStrayWorkers` says a group nobody holds or is about to
stop is gone; `CallsEnd` is the liveness of `single` and `library`. `Sessions` states all of them for the parts they concern.

### Ranks on this machine, tasks on a cluster

`LocalRanks` starts with one of `Launches`: a number of ranks, the lines each of them is about to
write, those that are deaf (ignore SIGTERM), those that are stuck (not gone five seconds after SIGKILL)
and those that have a descendant. A rank writes its lines, whole or cut short by an exit; the launcher polls,
notices failures, sends SIGTERM and SIGKILL, waits for
descendants, merges the logs in rank order and judges the answer. The lines of a log are found by
their indices, so a line printed twice counts twice, as in the code. `ClusterRanks` gives tasks any
assignment of ranks and places, so that two may claim the same; a claim is an exclusive
creation in a shared directory; a task may crash without unwinding, a native may never exit.
`LaunchHolds`, `OnlyOwners` and `RanksEnd` state what the launchers promise.

## 6. The integration

| Module | State and steps | What is hard, and the property |
| --- | --- | --- |
| `Dispatch` | a search function is the sequence of wrappers around the upstream one, by session; registered names, default, the captured original; enable, failing enable, disable, and steps of another integration | `RestoresWhatItFound`: whatever was captured as "the original", disabling leaves nothing of ours and everything of theirs |
| `SearchCall` | one call: window in which torch may answer, devices, radius and entries of the solved neighbourhood, slot, run directory, probes with the collection policy suspended, records, tuning, launch | `CallKeepsItsWord`: a preparation that fails half-way; a configuration written before the tuning changes it again; tiny beams and step limits |
| `SourceCache` | processes that download, extract, rename, verify; one may be killed; the tree may be changed by others | `OnlyVerifiedTrees`: the second rename, trees left half-way |
| `BuildCache` | entries (executable and metadata), lock, builders, snapshots; edits of sources and upgrades of NCCL while compiling | `ExecutesItsSources`: the lookup is before the lock, the copy after it |
| `ModelArtifacts` | per source file versions that are rewritten one by one, the private directory, pins, shared bundles | `FrozenRuns`: hash and copy at different moments |
| `Publication` | parts, receipts, the service's own pace, one deadline, clients killed between submission and receipt | `PublishedIsTrue` |
| `CapacityPlanning` | bisection per shard count, `NoCapacity` or an admitted (frontier, batch), refinement rounds, verification, comparison; the budget may run out in any bisection | `FrontierFits`, `PlanningEnds` |
| `PipelineTuning` | profiles, free memory that changes between calls, the planner, cache and shared records, measurements that fail or are refused, two clocks | `TuningHolds`, `PlanningEnds` |
| `InferenceTuning` | candidates up to the share of a GPU, refusals, samples, refinement, receipt | `BatchHolds`, `PlanningEnds` |
| `TimingStats` | a cohort of repeats is its interval; `Separated` and `Select` | used by both tuners |

A measurement is an interval on a small grid: what the tuners compare are medians and ends
of confidence intervals, and `Select` is the same whatever the unit. A memory level is
a number of rows that fit. Hashes are the contents they were taken of. A process is its position and
what it has read; the files are shared variables; a crash drops the first and keeps the
second.

## 7. The CNOT search

`CnotDomain` has invertible matrices over GF(2), the moves and how scores rank a parent's
children. `CnotBeam` is the search in one place: one ordered beam whose entries carry their
path. `CnotSearch` is the program every rank runs: a rank's `at` names its stage, `Step(r)` is
what it does alone until it posts what it brings to the next collective, and `Collective` takes
place when all wait in the same one. The stages of a layer are the solution test (with the
tracing back of paths, one record at a time from its holder), expansion, the exchange of children by
owner, deduplication, the histogram passes of the cutoff (a radix descent over the digits of
score and tie-break), the exchange of what is kept back to the holders of its slots.
`World.checked` is modelled in full: a rank whose local work raised still posts, with a failure,
and the ranks agree to raise together.

* `InStep`: no rank waits in a collective while another waits in a different one or has
  left. A rank may fail at any stage (`MayFail`), or be started with other settings
  (`MayDisagree`): the exchange of settings comes first for that reason.
* `HeldWhereSought`: `Holder(j)` (which rank has slot *j*) and `First(r)` (where a slice begins)
  agree; the record of a slot leads to the state of that slot; what was once kept is
  closed at its owner.
* `ImplementsCnotBeam`: under a mapping that lays the slices side by side (`BeamNow`) and
  follows every record to its path (`PathTo`), each layer is one step of `CnotBeam`, the same
  beam in the same order, and the same answer: it does not matter on how many ranks
  and in which order children arrive.
* `EveryRankEnds`.

## 8. Runs, bounds and what they show

| Run | Configuration | Instance | Distinct states | Shows |
| --- | --- | --- | --- | --- |
| `depth_core` | `DepthCore.cfg` | 4 loads, 2 rings, 2 slots, capacity 3, trigger 2, period 2, width 2 | 296,375 | all safety invariants of a depth, threshold, refinement |
| `depth_sizes` | `DepthSizes.cfg` | three more pipelines, redistribution, history, one block of the scatter (below) | 418,998 | nothing leaks from depth to depth; what a depth leaves |
| `exchange` | `Exchange.cfg` | 2 ranks with 4 and 5 rounds, width 6, capacity 6 | 41,825 | ranks in step, reserved room, refinement |
| `depth_stop` | `DepthStop.cfg` | two depths, capacity 3, a goal in the second load of depth 2, fair | 38,808 | the stop is seen with Stream 4 busy and quiesces; the search ends |
| `depth_room` | `DepthRoom.cfg` | as `depth_core` | | counterexample, section 11 |
| `scatter_two_warps` | `ScatterTwoWarps.cfg` | 2 warps of 4 lanes, 5 rows | | counterexample, section 11 |
| `session` | `Session.cfg` | one thread, 2 workers, killable owner; two threads, 1 worker; two library clients, 2 contexts, 2 jobs each | 337,375 | answers, leftovers, ends |
| `session_close_race` | `SessionCloseRace.cfg` | two threads, 1 worker | | counterexample, section 11 |
| `adapter` | `Adapter.cfg` | one call; dispatch with and without the hook; 3 fetchers; 2 builders; an ensemble of 4; 3 parts; a frontier of at most 2 units, 2 shard counts, 3 batches | 1,910,260 | what surrounds a search |
| `planning` | `Planning.cfg` | 1 capacity, 4 pipeline, 3 batch instances | 422,446 | what is measured and chosen |
| `ranks` | `Ranks.cfg` | 3 local instances, 2 cluster instances | 193,729 | processes of a search |
| `cnot` | `Cnot.cfg` | 3 wires, 3 ranks, 5 roots, 2 scorers, 5 settings, CPU and CUDA | 48,089 | in step, refinement, ends |

**The depth.** Ten candidates lead to seven states in two shards; candidates 1 and 5, 2 and 7,
and 3 and 10 share a state, so duplicates occur across loads and banks. The two best candidates
are duplicates of each other and the next ones tie, so that counting a state twice, or
dropping a tie, changes the beam. With capacity 3 and a write reserve of 2 (one batch of 2 over
two shards gives an average of 1, plus a quarter, rounded up), a bank that has received two
rows is no longer writable, so backpressure, torn copies, the bypass and a fatal overflow all
occur in `depth_core`; two rings let Stream 3 work while Stream 1/2 fill the other; two slots
let both shards sort at once; width 2 of six states makes the threshold bite.

**Other sizes.** `two`: depths of 2 and 3 loads, the second with worse scores, period 1. `tight`:
5 loads, 1 slot, capacity 4, trigger 3, width 4: thresholds are withheld until four rows are sorted and
shards wait for the slot. `skew`: 2 loads of four, all in one of 4 shards, capacity 7, trigger 5,
width 5: two dirty banks of a shard survive to the flush only when a batch brings one shard
more than the write reserve and both banks stay below their triggers.
The scatter is a block of 8 warps of 4 lanes with 4 rows. `deal`: three ranks, 0 or 2 candidates
of each below the threshold and 0, 3 or 8 at it, width 7, chunk 2, capacity 4: up to four rounds, so that the three response slots are used again, and
requests for one rank that exceed its capacity. `history`: four depths of up to three
entries, two slots, two writers, every mode; three depths fit on disk and two in RAM, so that
one can fall back and one cannot.

**The exchange.** Two ranks with 4 and 5 rounds, 16 candidates of 12 states, width 6, batch and
receive capacity 2, capacity 6. Rank 0 owns 9 of the states, so rank 1 sends it most of what it
finds; later candidates score better, the best tie across the ranks, and a state arrives again
after rank 0 has finished its loads. A bank holds a round and a half, so pressure is requested
and a rank may give up for lack of room.

**Sessions.** Two runs, two groups and two identities: a second search of another identity while
receipts of the first lie about. The part with two threads leaves the owner alive and the part
with one may lose it; the product of both is not explored. In the library, two clients with two
contexts of two jobs each: one context can be destroyed while the other is created, and a wait for
the first of two jobs can outlast the second.

**Around a search.** The requests of `adapter` are all combinations of mode, options and failing
step with two GPUs, and all selections of devices with one mode; hosts have a T4, an
Ampere and a Volta GPU seen in another order. Dispatch has two
sessions and three foreign steps. Of three fetchers one may be killed, one is offline, one
has bundled sources; of two builders one may be killed, with one edit and one NCCL upgrade; the ensemble has a
live module, a plain directory and two heads of one bundle, with one edit per
file and one write into the private directory.

**Planning.** Instances are as small as the phase's loops allow: two rounds of everything that
has rounds; memory levels between which at least one profile or batch stops fitting; shares
of 6, 3 and 12 rows, for which the code's own candidate lists have two to four members.
The frontier is fitted in two runs. `adapter` checks what is promised of it, with three batches, so that
a tuned batch, a faster and a slower one compete; `planning` checks that it ends, with two. In both the largest
and a fixed frontier of 2 units are asked for, and memory admits 0, 1 or 2 units per stage and shard count, so
bisections end at once, after one step and by the budget.

**CNOT.** Three wires have 168 matrices and six moves; the roots are 0 to 5 moves from the
identity. One scorer rates everything alike. Widths include one smaller than the number of
ranks and ones it does not divide; a depth limit of 0; a shortlist of 1; eight rows fit the
exchange on CUDA, so that it is refused too. Solved, exhausted, limited and
raised searches all occur.

`CHECK_DEADLOCK FALSE` is set where systems stop by themselves: calls return, processes exit,
ranks wait for a peer that has gone (`Session`, `SessionCloseRace`, `Adapter`, `Planning`, `Ranks`,
`Cnot`). The `depth_*` and `scatter_*` runs check it; their terminal states are explicit
(`Ended`, `Finished`). Scores, states and loads are fixed: they were chosen so that every branch
fires. Symmetry is not used because the data is not symmetric.

Each property is also run against a deliberately broken variant of a definition
(`CutoffNextBucket`, `AppendWithoutConsuming`, `BeginDown`, `OldIndex`, `OwnFailure`, ...); these stand
next to the definition they vary and are listed under "mutants" in `PROJECT.json`.

## 9. Fairness

* *Depth* (`depth_stop`): weak fairness of the host thread (it polls and yields, it never sleeps
  on a condition), of `FinishRing` (kernels of Stream 1/2 end), of Stream 3, and of each
  Stream 4 slot. A CUDA stream executes its kernels in order and each terminates, so a stream
  whose next step is enabled stays enabled until it runs. No fairness is assumed of individual
  host actions: the program counter already determines them.
* *Sessions* (`session`): a thread inside a call goes on, the clock runs, and a worker that finds the
  stop file obeys it. No fairness of a search or of a receipt: a worker may hang, and the
  deadline must cover that. In the native library, each thread's `Look` (the condition
  variable is notified or times out) and `Join`, and the engine, of which there is never more than one.
* *Planning*: a phase that can compute does. Measurements are single steps, because each has
  a time limit of its own.
* *Ranks*: the launcher polls and its deadline passes; ranks owe nothing. On a cluster
  every task that was not killed polls; its deadline passes only in the part `timed`, because
  without a limit a task waits for its native process as long as that takes.
* *CNOT*: every rank runs, and a collective that all have entered takes place.

`Terminates` is checked for the capacities of `depth_stop`. It is not true of all capacities: if
both banks of a shard are clean, cannot be pruned and leave less than the write reserve,
`CleanReady` selects one of them at every attempt, the sort changes nothing, and something is
always queued or busy, so the bypass is never taken either. The sizes `runtime_config.cpp`
derives keep banks well above the beam's share of a shard.

## 10. Proofs

All theorems hold for every number of shards, rings, slots, ranks, clients, contexts, threads and
worker groups, processes, tasks and parts, every capacity, trigger, period, width and every assignment of
candidates to loads that meets the assumptions:

* `CandAssumption`, `ShardAssumption`, `WidthAssumption`: finitely many candidates with
  scores below `NoThreshold`; every state has a shard; a positive width.
* `BatchesAssumption`: at least one depth; a load is no larger than a Stream 3 batch.
* `SizesAssumption`: positive sizes, batch and trigger within a bank. These are the limits
  the configuration enforces.
* `BlockAssumption`: at least one warp and one lane.
* `ExchangeAssumption`: a finite number of ranks, two or more, numbered from 0; every state is
  owned by one; each rank has a sequence of loads no larger than a batch; positive sizes.
* `ControlAssumption`: at least one client, natural bounds on contexts and jobs
  (`LibraryAssumption` of `Sessions`).
* `SessionAssumption`: at least one thread, rank and identity, none of them the value for
  "nothing"; natural bounds on searches and groups (`SingleAssumption` and `SharedAssumption` of
  `Sessions`, where reaping a killed worker succeeds).
* `CnotAssumption`: two wires or more, one rank or more, and settings of positive width and
  shortlist; a radix of at least two; those that may fail are ranks.
* `CallsAssumption`: natural bounds, one generator or more; what is visible are GPUs of the host, each once; devices are asked for by
  a list of integers or a number, and requests are of the type `Requests`. `RoutesAssumption`: one session or more.
* `FetchAssumption`, `BuildsAssumption`, `ModelsAssumption`, `PartsAssumption`: natural bounds on edits, upgrades and
  writes; no process, and no endpoint, is the value for "nobody"; members are sources, those that share a bundle are bundles;
  the parts are numbered from 1.
* `LocalAssumption`: a launch has one rank or more, a sequence of lines for each, and a rank that is alone has no descendant:
  the runner starts none, and `run_process` would read a log that a descendant still writes to. `NoPath` is not a path.
* `FrontierAssumption`: at least one shard count, unit of frontier, batch, speed and round; what calls ask for is within the ceiling.
* `TasksAssumption`: no task is the value for "nobody".

| Theorem | Module | Establishes |
| --- | --- | --- |
| `TypeCorrect` | `DepthPipelineProofs` | `[]TypeOK` |
| `ThresholdOnlyTightens` | `DepthPipelineProofs` | `ThresholdTightens` |
| `OwnershipHolds` | `DepthPipelineProofs` | `[]Ownership` |
| `OneBankPerShardHolds` | `DepthPipelineProofs` | `[]OneBankPerShard` |
| `SchedulerNeverThrows` | `DepthPipelineProofs` | `[]NoSchedulerThrow` |
| `HandOverHolds` | `DepthPipelineProofs` | `[]HandOverInv` |
| `QuiescentHolds` | `DepthPipelineProofs` | `[]QuiescentOnReturn` |
| `GoalNeverMissed` | `DepthPipelineProofs` | `[]GoalNotMissed` |
| `NothingLaunchedHolds` | `DepthPipelineProofs` | `NothingLaunchedAfterStop` |
| `CapacityHolds` | `DepthPipelineProofs` | `[]CapacityRespected` |
| `FlightHolds` | `DepthPipelineProofs` | Stream 3 works on one ring at most, and a fatal flag lies with the job that raised it |
| `CheckedHolds` | `DepthPipelineProofs` | `[]CheckedNeverOverflows` |
| `NothingLostHolds` | `DepthPipelineProofs` | `[]NothingLost` |
| `ThresholdSoundHolds` | `DepthPipelineProofs` | `[]ThresholdSound` |
| `BeamDepthImplemented` | `DepthPipelineProofs` | `ImplementsBeamDepth`: one rank implements `BeamDepth` |
| `OneWarpAppendsInPlace` | `DepthPipelineProofs` | `[]RowsInPlace` when one warp suffices |
| `RoundsAlwaysInStep` | `ExchangeProofs` | `[]RoundsInStep` |
| `CreditAlwaysKept` | `ExchangeProofs` | `[]CreditKept` |
| `ExchangeImplementsBeamDepth` | `ExchangeProofs` | `ImplementsBeamDepth`: the ranks together implement `BeamDepth` |
| `SessionTyped` | `NativeSessionProofs` | `[]TypeOK` of `NativeSession` |
| `AnswersBelong` | `NativeSessionProofs` | `[]AnswerBelongsToRequest` |
| `PostsAreFresh` | `NativeSessionProofs` | `[]PostsAfresh` |
| `NoWorkerStrays` | `NativeSessionProofs` | `[]NoStrayWorkers`, if reaping a killed worker always succeeds |
| `ClosingFrees` | `NativeSessionProofs` | `[]ClosedFreesWorkers` for a session with one user, if reaping succeeds |
| `AnswersBelongToRequests` | `SessionsProofs` | `[]AnswerBelongsToRequest` of `Sessions` |
| `WorkersNeverStray` | `SessionsProofs` | `[]NoStrayWorkers` of `Sessions` |
| `JobsAnswered` | `SessionsProofs` | `[]JobsAsAnswered`, with `OneEngine` |
| `RanksInStep` | `CnotProofs` | `[]InStep`, if no rank is on another CUDA device than its matrix |
| `SlotInItsSlice` | `CnotProofs` | slot *j* lies in the slice that begins at `First(r)` exactly when `Holder(j) = r` |
| `TreesVerified` | `AdapterProofs` | `[]OnlyVerifiedTrees` |
| `SourcesExecuted` | `AdapterProofs` | `[]ExecutesItsSources` |
| `FrozenModelsRun` | `AdapterProofs` | `[]FrozenRuns` |
| `PublishedWasTaken` | `AdapterProofs` | `[]PublishedIsTrue` |
| `CallsKeepTheirWord` | `AdapterProofs` | `[]CallKeepsItsWord` |
| `RoutesRestored` | `AdapterProofs` | `RestoresWhatItFound`: invariants and action properties of enabling and disabling |
| `FrontiersFit` | `AdapterProofs` | `[]FrontierFits` |
| `OwnersOnly` | `RanksProofs` | `[]OnlyOwners` |
| `LaunchesHold` | `RanksProofs` | `[]LaunchHolds` |

The theorems of `SessionsProofs`, `AdapterProofs` and `RanksProofs` state the very invariants that
runs `session`, `adapter` and `ranks` check, for all values of the constants of `Sessions`, `Adapter`
and `Ranks`. `NativeSessionProofs` is about one session, with reaping that may fail and any number of
threads, more than `Sessions` instantiates; `SessionsProofs` instantiates it as `OfSingle` and
`OfShared` and cites its lemmas. The lemmas `SingleIsProved` and `SharedIsProved` say that a
definition of `Single` or `Shared` and the one of the same name in the instance are one.
`SinglePromises` and `SharedPromises` draw the invariants from the inductive one.

`CandidateProofs` has what the depth and the exchange both need of candidates: a least element of a
set of naturals (`LeastNatural`, derived from the library's well-foundedness of finite subsets,
since the induction theorems themselves take an operator as parameter), that the best row of
each state exists and is unique (`BestExists`, `BestIsUnique`), that standing in for a candidate is transitive
(`StandsInTurn`), and that a selection of the code's shape is a beam of everything its rows stand for
(`KeptIsBest`, `SelectionIsBeam`).

**Types.** `TypeInv` strengthens `TypeOK` by what keeps the types closed under the steps: a ring
in use holds a load of this depth (`RingsLoaded`), Stream 3 is launched only with a ready
ring (`ReadyWhileAdmitting`), `apply` is entered only with one of the four return positions
(`ReturnsRight`). That `Cutoff` is a score needs `LeastNatural`.

**Hand-overs.** `Ownership` alone is not inductive: a slot that has signalled could be
released against another bank, or the ready list rebuilt over one not yet taken.
`SafeInv` = `TypeInv /\ Holders /\ Positioned /\ FlushProgress` adds:
`SlotsAgree` (a busy slot's bank is the one the host believes its shard runs, and conversely;
so `CompletionMismatch` is impossible); `ReadyListTaken` (the list is rebuilt only after the
host emptied it); `Stream3Known` and `StopPositions` (when Stream 3 is idle, where a stop can
be); `DrainedPositions` (past a drain, Stream 4 has nothing); and `FlushProgress`: the first
flush round promises every shard's dirty bank or its sibling to Stream 4, the second the
other, so two rounds suffice and the round limit (at least 8) is never met. `DrainNotStuck`
shows that with no slot busy every queued entry is launchable. `FlushSelects` and
`ReadyListEmpty` are the lemmas about `BuildReadyQueue`, `PreferenceIsStrict` the fact that it never picks both banks.

**The stop.** A goal flag is raised before its ring is marked done and read after; `StopSeen` says a
raised flag was seen, or a ring that is done, or just reaped, will make the host look. Since no
ring is left when a depth is completed, the flag cannot be up and unseen.

**Capacity and room.** `CapacityInv` adds `ShareFits`: after prepare and without `fatal`, each shard's share
fits in the chosen bank. Between prepare and scatter only Stream 4 touches banks, and a sort
only shrinks one (`SortShrinks`); so the share still fits when the scatter runs, whatever the
host's admission check read. This is why a torn check and the bypass cost progress (a fatal
overflow), never memory. A check on counts of one moment costs not even that (`CheckedHolds`): `RoomInv`
says that from the check until Stream 3 has chosen its banks every shard keeps an idle bank with the
write reserve, or a batch, of room (`RoomStays`; a sort may only add to it, `RoomGrows`). It needs
`FlightInv`, since a second batch in flight would use up the room of the first.

**What a depth keeps.** `NothingLost` and `ThresholdSound` are proved together (`ResultInv`), over
`RowsInv`, which says where rows may be: a bank has rows of its shard only, one per state among
those sorted, and all of them were offered. A threshold update excludes rows, so `NothingLost` at
that step needs no more than that the new threshold is below or at the old one; a sort
deduplicates, so it needs `StandsInTurn`. `ThresholdSound` rests on `CountIsModest`: the
conservative count takes the larger prefix of each shard and therefore counts no state twice,
whatever the two banks share. `UpdateStaysSound` concludes for the cutoff.

**Refinement of a depth.** `BeamInv` puts these together with `LoadsInv` (loads taken were offered or
lie in a ring, and past the main loop none is left; after the flush no bank is dirty). At
`Finalize` every row is then in a clean bank (`AllInBanks`), the union of the banks holds the best
row of every state that the final threshold does not exclude (`UnionIsBest`), that threshold is one
below which enough states lie (`FinalThresholdFits`), and the selection is a correct beam of all
that was generated (`FinalizeIsBeam`). All other steps stutter (`OtherStepsStutter`).

**Rounds in step.** `RoundsInStep` speaks of ranks that wait, and is not inductive: two ranks may
be on their way to different collectives. `StepInv` says where the others can be. `Segment` cuts
the program of a rank at its collectives, so that a rank that moves alone stays in its segment
(`AloneKeeps`), and `Together` says that the ranks that have not failed are in the same segment of
the same round (`Entered`). The request is where the program branches: to the next round, to an
update or to the end of the depth. Two ranks take the same branch because both know the greatest
request (`RequestAgreed`) and because they agree on whether rounds are left: `RoundsFit` relates
`cursor` and `round` of a rank in the loop, and says that a rank past the test of its loop or of its
tail is at its end exactly if no round is left. A rank in the loop has rounds left because the
number agreed on is at least that of its own loads (`RoundsAgreed`, which needs a greatest element
of a finite set, `Greatest`). At the end a request is never for pressure, so no rank is sent back
into a drain before an update. `StageFits` lists where a rank can be in each stage, and Stream 3
with it.

**Reserved room.** `CreditInv` says that from a check on counts of one moment until the counts are
exchanged every shard has a bank with room for the batch and all that may be received, and from then
on for what is received (`Reserved`). A rank's own append takes the batch out of that reserve
(`AppendLeavesRoom`), the choice of banks leaves the rest of it (`BuildLeavesCredit`), and whatever
Stream 4 does only adds room (`Gains`). `ReceiptsFit` bounds what arrives.

**Refinement of the exchange.** The argument is that of one rank, with rows also on their way.
`RowsInv` says they lie at the rank and shard their state belongs to (`Homes`), are sent by a rank
that does not own them or wait at the one that does, and `MovesInv` that they travel only during an
exchange. `SameThreshold` says the ranks exclude the same; `Brought` that each histogram on the way
into the all-reduce counts no state twice and only states of its rank. Then the sum over the ranks
counts none twice (`TotalBound`, `GlobalCountModest`), since states have one owner. At the
selection, `LoadsInv` and `FlushedInv` give `AllInBanks`; the shares agreed on take the
rows below the threshold and fill up with ties to the width exactly (`SharesFill`, `LessFits`,
`TotalOfSets`); together the ranks keep a correct beam of all they generated (`SelectIsBeam`).

**The native library.** `JobInv` says where the engine of a context is in each phase of its monitor
(`InStep`): a job is accepted when the last is completed, is then pending or in the engine's hands,
and is counted only after it ran (`Counted`). `WaitInv` says a wait under way asks for no more jobs than
were accepted and one that returned `BEAM_OK` for no more than ran: `OkOutlasts` holds because a context is ready or stopped
without a failure only when all accepted jobs ran. `OneInv` is about the
process-wide flag: a context that is there is the last one made and holds the flag, a running engine
has its context or a `destroy` that joins it, and `main` is alone.

**The session.** `SessionInv` has six parts. `LockInv`: who is past the lock holds it, so everybody else is
idle or about to be refused (`AloneUnderLock`). `RunsInv`: a search has a run of its own until it
returns. `PostedInv`: a run is posted at one sequence of one group at most, and not before its
post. `WorkersInv` keeps both sides of the mailbox in step: requests lie at all sequences up to the
group's and none beyond (`InOrder`), a worker is at that sequence or one ahead (`InTurn`),
it wrote a receipt for exactly the requests before its own, whose logs are whole and of the
group's identity (`Receipted`), and the log it works on is its own (`Searching`). `CallInv` says what a call
knows at each step: that it holds the group of the session, that its run is posted where that
group is (`poll`, `collect`), that all receipts are there (`collect`). `HandleInv` says the
identity kept is that of the group held, and that nothing is posted at its sequence while no search
is in flight (`Emptied`): that is why a new request is never written over an old one.
`AnswersBelong` is then a walk from the answer back to the post. Requests of a
group are at most the searches begun (`RequestsCounted`, a pigeonhole on runs), so
the bounds of the model never stop a worker. Most steps move no mail (`Keeps`, `OthersKeep`); the six
that do are treated one by one. `NoWorkerStrays` adds `StrayInv`: a live worker is in a group
that the session holds and has not closed, or that a call is reaping. It needs that reaping succeeds; section 11 has
what follows if it does not. With one user, a closed session holds no group and nobody is in a call
(`ClosedInv`), so `ClosingFrees` follows; with two it is false (section 11).

**Ranks in step.** `InStep` is not inductive: nothing in it says what the ranks have posted. `StepInv`
adds `Functions` (the domains of the maps the steps update), `SameKnowledge` and
`SameStage` (the stage of ranks past `enter`), `EnterFirst` (while a rank has yet to enter, the others are still
in the stage before the exchange of settings), `SettingsPosted` (what lies in that collective is
what each rank was started with) and `SettingsAgreed` (past it they are the same). A rank's own step
posts and leaves its stage (`PostKeeps`, `StepKeeps`); a collective moves all ranks by a function of what they have in
common (`TogetherKeeps`, `CollectiveKeeps`). The theorem holds for every number of wires and ranks, every scorer,
setting and failing rank, under `MayMisplace = {}`; without that it is false (section 11).
`SlotInItsSlice` is arithmetic: `Holder` rounds down and `First` rounds up (`Quotient`, `Multiples`), and
the slices partition the beam nevertheless, whether or not the ranks divide it.

**Around a call.** In a composition only one part moves, so each has an invariant of its own, kept by its own steps.
`SourcesInv`: a process past the examination of what it was given has every tree that it does not still have to do, given
or verified by itself; so what others do to the cache afterwards does not matter. `BuildInv` follows
one key through a call: it names contents the sources had, who links, checks or publishes holds its lock, what is about to be described is
whole or the sources have moved on since (`LinkedWhole`), and what a process copied, hashed and checked is what it was given
(`RunnerOfKey`). `OthersKeepRunner` reduces the step of one process to what it changes for
the others: nothing they hold, and nothing under a key they have locked. `FreezeInv` is about two moments: a directory is
hashed manifest first and copied manifest first, and files of a source only grow newer; so if hash and copy name the same manifest,
what was hashed the first time was there at one moment (`HashedOnce`), which is the only thing that
protects a member against a rewriting half-way. `PublicationInv`: parts are sent in order (`SentInOrder`), those accepted are at one
endpoint (`AtEndpoint`), and receipts lag behind the service but never lead it (`ReceiptsTrue`).
`CallInv` keeps, phase by phase, what the call has settled: in the window nothing native exists (`NothingBegun`); past it
the neighbourhood has room and devices and runner suit each other (`Readied`); during the tuning the environment owes
radius, GPUs and width to the request (`Owed`), and before the ranks start also the record and the first slot (`Owing`); what was
launched owes the same for ever (`Started`). `DefaultSlotFits` is the arithmetic of `microbatch_environment`.
`TotalIsBall` and `RoomHoldsTheBall` say of every radius that the loop of `touch_bfs_worst_case_entries` lets a tree
through only if it fits: `Layer`, `Total` and `Ball` are recursive functions, which exist by `StepByStep`, derived from `LeastNatural`
like the inductions on them. `HookInv` says that what enable_native found is what there is without us, and the saved default
the earlier one, as long as nobody else acted (`FoundIsKept`), and that a name of ours belongs to the session that is registered or on the way
(`NamesOfOurs`); `PatchInv` that one wrapper of ours surrounds the function that was found (`OneWrapper`, `FunctionFound`).
The action properties follow from either for each own step.
`FrontierInv` is about a bisection that the budget may cut short anywhere, and about a batch and a frontier that are each
chosen for the other. `Halving`: `low` is admitted by the stage, `high` is not or is just above the bound, and the bound of
the working stage is what memory admits, unless time ran out before that was known. `Genuine`: what was found is
the same multiple of one shard count in both stages. `Leading`: within the budget no shard count that is done admits more. So when the
bisection closes, `low` is the limit (`LimitBelow`), and the end of one shard count extends `Leading` by one (`OneMoreSearched`).
`FoundTogether`: the calibrated batch is the one in force, and what was found was found with it, so a new
batch or a new reserve must search again. `MeasuredAtWidth`: a half is measured only beside a full step at the whole, which
stays true while the comparison goes down. `OfferedInOrder`: a batch other than the tuned one is offered only after all faster ones.

**Ranks and tasks.** `ClusterInv` says that the directories are the truth about ranks and places (`ClaimsHeld`): a task past its claim
owns its directory, and a directory has one owner. `LocalInv` says where the launcher is with respect to each tree
(`InOrder`, `TreesStopped`: those before `at` are gone), that without a failure all ranks ended well (`EndedWell`), and
what the merged log is. `LogWhole` counts it in three ways, because each promise needs another: the
ranks' streams one after the other (`InTurn`), every line of them (`Everything`), no other line (`NothingElse`);
`OneMoreGathered` extends all three by a rank. Nobody writes after that, since a cohort's trees are gone and a
rank that is alone has ended. `Judged` is what `parse_terminal` found in the lines (`AcceptedIsAgreed`), and
`AnswerPromises` carries it back to what the ranks printed; that the summary counts the *different* solutions needs a
bijection between indices and paths.

**Only model-checked.** `HeldWhereSought` and `ImplementsCnotBeam` of the CNOT search; of `depth_sizes`
`DepthHandedOn` (redistribution and history) and `SizesImplementBeamDepth`, whose pipelines are
instances of what `BeamDepthImplemented` proves; `TuningHolds` and `BatchHolds` of the pipeline and batch tuners. `Terminates`, `CallsEnd`, `PlanningEnds`,
`RanksEnd` and `EveryRankEnds` are liveness properties under fairness, which the prover does not handle.
What is recursive in a number can be reasoned about through the least counterexample (`LeastNatural`, as for
`TotalIsBall`); what is recursive over a structure (`PathTo` along the history, the traces, the folds of `planning`)
would need induction theorems whose parameter is an operator, which the provers cannot instantiate.

## 11. Where the code and its text disagree

Three disagreements have a run whose counterexample shows them.

* `LaunchedWithRoom` (`depth_room`). The comment in `try_launch_stream3` says "Local shard
  capacity applies before owner exchange as well". After the writability check fails, the
  code builds a ready list and launches Stream 4, then gives up the attempt only if something
  is queued or busy. If the sorts that made the check fail end between the check and the
  release inside `launch_pending_stream4_shards`, nothing is: Stream 3 is launched without
  the check having been repeated. In the instance this leads to a fatal double-buffer
  overflow that another sort would have avoided. The theorem `CapacityHolds`
  (section 10) shows that memory is safe.
* `RowsInPlace` (`scatter_two_warps`). `ARCHITECTURE_NEED.md` says Stream 3 writes at
  `clean_count + dirty_count`. A warp that starts after thread 0 has advanced `dirty_count`
  writes behind the new rows instead, leaving uninitialized rows that count as candidates.
  `OneWarpAppendsInPlace` proves that shares of at most one warp are unaffected.
  `DepthPipeline` takes the scatter as atomic, that is, it assumes the warps read the base
  before it is advanced; its results are relative to that.
* `ClosedFreesWorkers` (`session_close_race`). `persistent.py:24-25` says "Exiting the context,
  including on exceptions, frees all owned workers". `run()` tests `closed` (112) before it takes the
  lock and not again; a `close()` of another thread that completes in between leaves a closed
  session that starts workers, and later closes return at once.

Other behaviours are behind a constant or a bound of the models. They are not runs of their own;
a configuration that sets the constant, or checks the named property, reproduces them.

* `NativeSession`, `ReapMayFail = TRUE`: a worker that is still there after the wait for its killed process
  is forgotten by the session (`persistent.py:25`, `resident_transport.py:79`).
* `LocalRanks`, `OthersStopped` with a stuck rank: when one rank cannot be reaped, the clean-up loop is left early and
  the ranks after it are not waited for (`local_launcher.py:48-51`).
* `Dispatch`, `ForeignKept` with `Concurrent = TRUE`: an integration that patches between the reading and the writing of
  the attribute is overwritten (`dispatch.py:321`, `334`). `TorchStaysTorch` with `Stale = TRUE`: one that puts back a function it
  saved while we were installed makes ours "the original" (`dispatch.py:311`).
* `CapacityPlanning`, `CompleteMeansLargest`: a capacity search cut short by its budget may report
  itself as complete (`beam_capacity.py:34`, `maximum_beam.py:82`).
* `PipelineTuning`, `CachedUncut`: a search that the clock cut short may leave a reusable receipt
  (`pipeline_autotune.py:228`). `ChallengersOptional`: a challenger whose rank dies in a component
  session ends the tuning (`component_autotune.py:142`). `SharedOnlyProposes`: so does a shared record
  that fails (`component_autotune.py:93`).
* `InferenceTuning`, `RefusedAgain` with `Pressure = TRUE`: memory that changes during one calibration
  leads to a receipt that hides a batch for good (`autotune.py:156`). `StableKept` with `Sessions = TRUE`:
  a calibration fails although a batch was stable, because the session of its ranks ended
  (`calibration_session.py:105`).
* `BuildCache`: the lookup is before the lock (`build.py:243`), so a second builder may relink an entry
  that was just published; if it fails at that, later calls refuse the entry until it is removed.
* `CnotSearch`, `MayMisplace # {}`: a rank on another CUDA device than its matrix raises before the first collective
  (`cnot_collectives.py:23-24`), outside `World.checked` (49), and the others wait for it.
* Several ranks in the depth: a rank that throws (no room, a receive over capacity, an overflow, a
  count that does not match) leaves the others in the next collective. And inside the exchange loop
  the stop flag is never read on several ranks: `refresh_stop_requested` returns false there
  (`dispatcher.cu:2004-2007`), so a goal ends the search at the end of the depth.

## 12. What is not modelled

* Streams 1 and 2: inference kernels, scoring and hashing. A state is its hash, so collisions
  do not occur.
* Sizing in `runtime_config.cpp` and `static_memory.cu`, beyond the limits in the assumptions, and 32-bit
  wrap-around of counters: capacities are far below 2^32 and the configuration rejects larger
  ones.
* The `stop_stage` smoke modes, debug tracking and validation, custom launchers and scorers, stitched
  graph windows: instrumentation and alternatives to the resident graphs.
* CUDA errors other than the fatal flag: the code turns them into an exception that ends the search.
* Transport below the collectives: NCCL, slots and offsets of `stream5.cu`, and the files by which ranks
  find each other. A collective is one step.
* The rest of the production runner: settings, model loading, solution buckets and reports. Its use of
  the history and of the engine control is modelled.
* Start-up sizes and reservations of the history (one outcome), pinned registration, statistics;
  the Rust store (`history.rs`) and its bridge, which replace the C++ one when a provider is passed.
* The Rust implementations of sessions, mailbox owner, probes, planning and pipeline: the same protocols as
  their Python counterparts, which drive the same workers and are modelled; `worker.rs`, which both use, is
  modelled. `beam-core`, `beam-native-sys`, `beam-python` and the CPU references have no state of their own.
* Processes behind one admission or one measurement (`plan_session.py`, `calibration_session.py`,
  `component_probe*.py`): each appears as its outcome. The path of builds without component probes.
* Graphs, contracts and results (`problem.py`, `results.py`, ...): validation and conversion of one caller's data.
  Reports, fixtures, exporters, graph networks: read-only output or floating-point computation.
* CNOT: audit records, packing and padding, the CUDA kernels, the scorer network, the transport's
  binary interface and the command line.
* The cost and the limits of a build: a compilation succeeds, fails or is killed.

## 13. Running it

    tlc -workers 2 -config DepthCore.cfg MCDepthPipeline.tla
    tlc -workers 2 -config DepthStop.cfg MCDepthPipeline.tla
    tlc -workers 2 -config DepthSizes.cfg MCDepthSizes.tla
    tlc -workers 2 -config Exchange.cfg MCExchange.tla
    tlc -workers 2 -config Session.cfg MCSession.tla
    tlc -workers 2 -config Adapter.cfg MCAdapter.tla
    tlc -workers 2 -config Planning.cfg MCPlanning.tla
    tlc -workers 2 -config Ranks.cfg MCRanks.tla
    tlc -workers 2 -config Cnot.cfg MCCnot.tla
    tlapm CandidateProofs.tla
    tlapm DepthPipelineProofs.tla
    tlapm ExchangeProofs.tla
    tlapm NativeSessionProofs.tla
    tlapm SessionsProofs.tla
    tlapm CnotProofs.tla
    tlapm AdapterProofs.tla
    tlapm RanksProofs.tla

Each run takes between a second and a few minutes. `DepthPipelineProofs` and `ExchangeProofs` extend
`CandidateProofs` and `SessionsProofs` instantiates `NativeSessionProofs`; the others stand alone. From
nothing `NativeSessionProofs` takes about six minutes, `DepthPipelineProofs` and `RanksProofs` four to
five, `AdapterProofs` eleven, `ExchangeProofs` and `SessionsProofs` about three, the others less than one.
