------------------------------ MODULE SearchCall ------------------------------
(***************************************************************************)
(* One call of the search as the user sees it (dispatch.py, backend.py):    *)
(* the capability window in which torch may still take over, the choice of  *)
(* devices and of the native runner, and the run with its calibration, up   *)
(* to the answer.  The artifacts, the build, the launch and the tuning are  *)
(* modules of their own; here each of them succeeds or raises.              *)
(***************************************************************************)
EXTENDS Integers, FiniteSets, Sequences, Functions, FiniteSetsExt

CONSTANTS
    MaxSteps, MaxRadius,   \* bounds of max_steps and of touch_bfs_radius
    Moves,                 \* generators of the graph
    MaxEntries,            \* touch_bfs_max_entries
    Widths,                \* beam widths asked for
    MaxBatch,              \* inference batches that are measured
    RowLimit,              \* inference rows of a default run, per executor
    Alignment,             \* alignment of a shard
    Scalar,                \* the model scores children one by one
    Gpus,                  \* the GPUs of the host: a sequence of kinds
    Visible,               \* those visible to the process, by index
    Selections,            \* the ways devices may be asked for
    Asked                  \* the requests of this instance

Kinds == {"t4", "volta", "ampere"}

CallAssumption ==
    /\ {MaxSteps, MaxRadius} \subseteq Nat
    /\ {Moves, MaxEntries, MaxBatch, Alignment} \subseteq Nat \ {0}
    /\ Widths \subseteq Nat \ {0}
    /\ RowLimit \in [{"cutlass", "libtorch"} -> Nat \ {0}]
    /\ Scalar \in BOOLEAN
    /\ Gpus \in Seq(Kinds) /\ Visible \in Seq(DOMAIN Gpus) /\ IsInjective(Visible)
    /\ Selections \subseteq [by : {"devices", "number", "graph"}, list : Seq(Int), number : Nat]

MaxBeam == 0               \* beam_width='max'
Cpu == -1                  \* a graph's device that is not a GPU
Batches == 1..MaxBatch
None == 0

Requests == [mode : {"auto", "native", "torch"}, controls : BOOLEAN, bare : BOOLEAN,
             solved : BOOLEAN, steps : 0..MaxSteps, radius : 0..MaxRadius,
             beam : Widths \cup {MaxBeam}, collect : BOOLEAN, tunable : BOOLEAN,
             discover : BOOLEAN, select : Selections,
             backend : {"auto", "cutlass", "libtorch"}, ensemble : BOOLEAN]

AskedAssumption == Asked \subseteq Requests

VARIABLES
    pc,            \* the phase of the call
    req,           \* the request
    dir,           \* the run directory: "none", "made" or "gone"
    files,         \* what the adapter wrote into it
    devices, executor,
    env,           \* the workers' environment: rows, micro, bucket, radius, width, GPUs
    recorded,      \* runtime-config.json
    session,       \* a planning session holds GPU memory
    probed,        \* bucket modes under which GPU probes ran
    launched,      \* the search started, with which environment
    length         \* moves of the path it found

vars == <<pc, req, dir, files, devices, executor, env, recorded, session, probed, launched, length>>

NoEnv == [rows |-> None, micro |-> None, bucket |-> FALSE, radius |-> 0, width |-> None,
          gpus |-> <<>>]
NoRecord == [rows |-> None, parents |-> None, micro |-> None]

Over == {"torch", "answered", "raised"}

Init ==
    /\ pc = "called" /\ req \in Asked
    /\ dir = "none" /\ files = {}
    /\ devices = <<>> /\ executor = "none"
    /\ env = NoEnv /\ recorded = NoRecord
    /\ session = FALSE /\ probed = {} /\ launched = NoEnv
    /\ length = None

native == <<devices, executor, env, recorded, session, probed, launched, length>>

----------------------------------------------------------------------------
(* Pure parts                                                               *)

\* Room in max_steps for the suffix a solved neighbourhood returns.
FullRadius(steps, radius) == radius        \* mutant: no forward depth is reserved
Radius(steps, radius) ==
    IF steps = 0 THEN 0 ELSE IF radius < steps THEN radius ELSE steps - 1
Forward(r) == r.steps - Radius(r.steps, r.radius)

\* The ball of the neighbourhood is bounded by a tree, layer by layer; the bound
\* is never exceeded on the way, so that the native integers do not overflow.
Layer[n \in 0..MaxRadius] == IF n = 0 THEN 1 ELSE Layer[n - 1] * Moves
Total[n \in 0..MaxRadius] == IF n = 0 THEN 1 ELSE Total[n - 1] + Layer[n]
FrontierOnly(radius) ==                    \* mutant: only the last layer is compared
    Layer[radius] <= MaxEntries
Room(radius) ==
    \A n \in 0..radius - 1 :
        /\ Total[n] <= MaxEntries
        /\ Layer[n] <= (MaxEntries - Total[n]) \div Moves

\* Rows of the first inference slot: with few parents per shard they must fit
\* into the shard's storage together with all their children.
RoundUp(n) == ((n + Alignment - 1) \div Alignment) * Alignment
LogicalShard(width, world) ==
    LET divisor == world * 4 * Alignment IN ((width + divisor - 1) \div divisor) * Alignment
Storage(width, world) == RoundUp((LogicalShard(width, world) * 5 + 3) \div 4)
RowsPerParent == IF Scalar /\ ~req.ensemble THEN Moves ELSE 1
DefaultRows(width, world, limit) == limit  \* mutant: small beams keep the default
Rows(width, world, limit) ==
    LET parents == Min({limit \div RowsPerParent, Storage(width, world) \div Moves})
    IN  IF parents = limit \div RowsPerParent THEN limit ELSE parents * RowsPerParent

\* Selected devices, as indices into what the process sees; a graph on the CPU
\* takes all of them.
Chosen(s) ==
    CASE s.by = "devices" -> s.list
      [] s.by = "number" -> [i \in 1..s.number |-> i]
      [] s.by = "graph" -> IF \A i \in DOMAIN s.list : s.list[i] = Cpu
                           THEN [i \in 1..Len(Visible) |-> i] ELSE s.list
Available(list) ==
    /\ Len(list) > 0 /\ IsInjective(list)
    /\ \A i \in DOMAIN list : list[i] \in 1..Len(Visible)

Kind(d) == Gpus[Visible[d]]
Before80 == {"t4", "volta"}
KindsOf(list) == {Kind(list[i]) : i \in DOMAIN list}

\* One runner for all ranks.  A T4, and an older GPU under an ensemble, need
\* the LibTorch one.
FirstDecides(list) ==                      \* mutant: the first device decides for all
    IF req.backend # "auto" THEN req.backend
    ELSE IF Kind(list[1]) = "t4" \/ (req.ensemble /\ Kind(list[1]) \in Before80)
         THEN "libtorch" ELSE "cutlass"
Executor(list) ==
    IF req.backend # "auto" THEN req.backend
    ELSE IF "t4" \in KindsOf(list) \/ (req.ensemble /\ KindsOf(list) \cap Before80 # {})
         THEN "libtorch" ELSE "cutlass"

\* FP16 kernels need SM75, the ensemble's CUTLASS route SM80.
Runs(list, e) ==
    /\ "volta" \notin KindsOf(list)
    /\ req.ensemble /\ e = "cutlass" => KindsOf(list) \cap Before80 = {}

\* What the workers see, through the mask the process inherited.
OwnNumbers(list) == list                   \* mutant: the inherited mask is not applied
WorkerGpus(list) == [i \in DOMAIN list |-> Visible[list[i]]]

----------------------------------------------------------------------------
(* The capability window                                                    *)

Raise == pc' = "raised"
Unavailable == pc' = "unavailable"

Trivial == req.solved \/ req.steps = 0

IgnoreControls == FALSE                    \* mutant: native-only keywords are dropped
Strict == req.controls /\ req.mode # "native"

Begin ==
    /\ pc = "called"
    /\ IF Strict THEN Raise
       ELSE IF req.mode = "torch" THEN IF req.bare THEN Raise ELSE pc' = "torch"
       ELSE pc' = "parameters"
    /\ UNCHANGED <<req, dir, files, native>>

\* Keywords native does not implement are unavailable, invalid values an error.
Parameters ==
    /\ pc = "parameters"
    /\ \/ Unavailable
       \/ Raise
       \/ pc' = IF Trivial THEN "run"
                ELSE IF Room(Radius(req.steps, req.radius)) THEN "devices" ELSE "unavailable"
    /\ UNCHANGED <<req, dir, files, native>>

RuntimeDevices ==
    /\ pc = "devices"
    /\ LET list == Chosen(req.select) IN
       IF /\ req.select.by = "graph" => \A i \in DOMAIN list : list[i] # Cpu
          /\ Available(list)
       THEN devices' = list /\ pc' = "sources"
       ELSE Unavailable /\ UNCHANGED devices
    /\ UNCHANGED <<req, dir, files, executor, env, recorded, session, probed, launched, length>>

\* The checkout is prepared before the run directory exists, the model after.
PrepareSources ==
    /\ pc = "sources"
    /\ \/ dir' = "made" /\ pc' = "model"
       \/ Unavailable /\ UNCHANGED dir
       \/ Raise /\ UNCHANGED dir
    /\ UNCHANGED <<req, files, native>>

PrepareModel ==
    /\ pc = "model"
    /\ pc' \in {"runtime", "unavailable", "raised"}
    /\ UNCHANGED <<req, dir, files, native>>

PrepareRuntime ==
    /\ pc = "runtime"
    /\ IF Runs(devices, Executor(devices))
       THEN /\ executor' = Executor(devices)
            /\ pc' \in {"run", "unavailable", "raised"}
       ELSE Unavailable /\ UNCHANGED executor
    /\ UNCHANGED <<req, dir, files, devices, env, recorded, session, probed, launched, length>>

KeepDir == UNCHANGED dir                   \* mutant: the directory of the attempt stays
DiscardDir == dir' = IF dir = "made" THEN "gone" ELSE dir

\* Only mode "auto" goes on, and only with a predictor torch can use.
FallBack ==
    /\ pc = "unavailable"
    /\ IF req.mode = "native" THEN Raise /\ UNCHANGED dir
       ELSE DiscardDir /\ IF req.bare THEN Raise ELSE pc' = "torch"
    /\ UNCHANGED <<req, files, native>>

----------------------------------------------------------------------------
(* The native run.  An exception of any kind leaves through Fail.           *)

LeaveSession ==                            \* mutant: the session survives an exception
    /\ pc' = "raised" /\ UNCHANGED session
    /\ files' = IF dir = "made" THEN files \cup {"error"} ELSE files
Fail ==
    /\ pc' = "raised" /\ session' = FALSE
    /\ files' = IF dir = "made" THEN files \cup {"error"} ELSE files

AlwaysRecorded ==                          \* mutant: trivial calls write a result as well
    pc' = "answered" /\ files' = files \cup {"result"}
Answer == pc' = "answered" /\ files' = files \cup (IF dir = "made" THEN {"result"} ELSE {})

Probe == probed' = probed \cup {env.bucket}

\* In front of the GPU work: trivial calls end, the environment is prepared.
Run ==
    /\ pc = "run"
    /\ IF Trivial THEN Answer /\ UNCHANGED <<env, recorded>>
       ELSE IF ~req.tunable /\ (req.beam = MaxBeam \/ req.discover) THEN Fail /\ UNCHANGED <<env, recorded>>
       ELSE LET width == IF req.beam = MaxBeam THEN Max(Widths) ELSE req.beam
                rows == Rows(width, Len(devices), RowLimit[executor])
            IN  /\ env' = [rows |-> rows, micro |-> None, bucket |-> FALSE,
                           radius |-> Radius(req.steps, req.radius), width |-> width,
                           gpus |-> WorkerGpus(devices)]
                /\ recorded' = [rows |-> rows, parents |-> rows \div RowsPerParent, micro |-> None]
                /\ pc' = IF req.tunable THEN "infer" ELSE "launch"
                /\ UNCHANGED files
    /\ session' = FALSE
    /\ UNCHANGED <<req, dir, devices, executor, probed, launched, length>>

Batch(b) == [env EXCEPT !.rows = b * RowsPerParent, !.micro = b]
Record(e) == [rows |-> e.rows, parents |-> e.rows \div RowsPerParent, micro |-> e.micro]

Calibrated == IF req.beam = MaxBeam THEN "maximum" ELSE "admit"

\* tune_inference, and the first record.
TuneInference ==
    /\ pc = "infer" /\ Probe
    /\ \/ /\ \E b \in Batches : env' = Batch(b) /\ recorded' = Record(Batch(b))
          /\ pc' = IF req.discover /\ req.beam # MaxBeam THEN "discover" ELSE Calibrated
          /\ UNCHANGED <<files, session>>
       \/ Fail /\ UNCHANGED <<env, recorded>>
    /\ UNCHANGED <<req, dir, devices, executor, launched, length>>

\* A diagnostic capacity search: nothing of it reaches the run.
DiscoverCapacity ==
    /\ pc = "discover" /\ Probe
    /\ \/ pc' = Calibrated /\ UNCHANGED <<files, session>>
       \/ Fail
    /\ UNCHANGED <<req, dir, devices, executor, env, recorded, launched, length>>

\* The maximum: the frontier that is admitted with its own batch.
Maximum ==
    /\ pc = "maximum" /\ Probe
    /\ \/ /\ \E b \in Batches, w \in Widths : env' = [Batch(b) EXCEPT !.width = w]
          /\ pc' = "downstream" /\ UNCHANGED <<files, session>>
       \/ Fail /\ UNCHANGED env
    /\ UNCHANGED <<req, dir, devices, executor, recorded, launched, length>>

\* A fixed frontier: the planner admits one of the batches and stays open.
Admit ==
    /\ pc = "admit" /\ Probe
    /\ \/ /\ \E b \in Batches : env' = Batch(b)
          /\ session' = TRUE /\ pc' = "downstream" /\ UNCHANGED files
       \/ Fail /\ UNCHANGED env
    /\ UNCHANGED <<req, dir, devices, executor, recorded, launched, length>>

Halved(w) == {v \in Widths : v = w \/ 2 * v = w}   \* mutant: a fixed width shrinks too
WorkingWidths(w) == {v \in Widths : v = w \/ (req.beam = MaxBeam /\ 2 * v = w)}

FirstRecord(e) == recorded                 \* mutant: runtime-config.json is not rewritten
SecondRecord(e) == Record(e)

\* tune_downstream declines, or selects an outer batch of one or two forwards;
\* the maximum needs a selection, and may end at half its width.
TuneDownstream ==
    /\ pc = "downstream" /\ Probe
    /\ \/ /\ \E k \in {1, 2}, w \in WorkingWidths(env.width) :
                LET e == [env EXCEPT !.rows = k * env.rows, !.width = w]
                IN  env' = e /\ recorded' = SecondRecord(e)
          /\ session' = FALSE /\ pc' = "launch" /\ UNCHANGED files
       \/ /\ req.beam # MaxBeam                              \* not measured
          /\ recorded' = SecondRecord(env)
          /\ session' = FALSE /\ pc' = "launch" /\ UNCHANGED <<env, files>>
       \/ Fail /\ UNCHANGED <<env, recorded>>
    /\ UNCHANGED <<req, dir, devices, executor, launched, length>>

EarlyPolicy(e) == e                        \* mutant: the search keeps the probes' policy
Policy(e) == [e EXCEPT !.bucket = req.collect]

\* The model is hashed once more, and the ranks start.
Launch ==
    /\ pc = "launch"
    /\ \/ launched' = Policy(env) /\ env' = Policy(env) /\ pc' = "ranks" /\ UNCHANGED <<files, session>>
       \/ Fail /\ UNCHANGED <<env, launched>>
    /\ UNCHANGED <<req, dir, devices, executor, recorded, probed, length>>

\* The forward search and the suffix of the neighbourhood make up a path.
Ranks ==
    /\ pc = "ranks"
    /\ \/ /\ \E n \in 0..Forward(req) + env.radius : length' = n
          /\ pc' = "parse" /\ UNCHANGED <<files, session>>
       \/ Fail /\ UNCHANGED length
    /\ UNCHANGED <<req, dir, devices, executor, env, recorded, probed, launched>>

Parse ==
    /\ pc = "parse"
    /\ \/ length <= req.steps /\ Answer /\ UNCHANGED session
       \/ Fail
    /\ UNCHANGED <<req, dir, devices, executor, env, recorded, probed, launched, length>>

Finished == pc \in Over /\ UNCHANGED vars

Next ==
    \/ Begin \/ Parameters \/ RuntimeDevices \/ PrepareSources \/ PrepareModel
    \/ PrepareRuntime \/ FallBack
    \/ Run \/ TuneInference \/ DiscoverCapacity \/ Maximum \/ Admit \/ TuneDownstream \/ Launch \/ Ranks \/ Parse
    \/ Finished

Spec == Init /\ [][Next]_vars

----------------------------------------------------------------------------
(* Properties                                                               *)

\* The variables have their types; a run directory exists from the model on.
TypeOK ==
    /\ req \in Requests /\ dir \in {"none", "made", "gone"}
    /\ files \subseteq {"result", "error"} /\ files # {} => dir = "made"
    /\ session \in BOOLEAN /\ probed \subseteq BOOLEAN
    /\ executor \in {"none", "cutlass", "libtorch"}
    /\ length \in 0..MaxSteps
    /\ pc \in {"model", "runtime"} => dir = "made"

\* Torch answers only when it was asked for, or when nothing native had begun:
\* no probe, no worker, no environment, and no directory left of the attempt;
\* and never a call with native-only keywords (dispatch.py).
NeverSilently ==
    pc = "torch" =>
        /\ req.mode # "native" /\ ~req.controls /\ ~req.bare
        /\ probed = {} /\ launched = NoEnv /\ env = NoEnv
        /\ dir # "made"

\* Whatever ran, and whatever the tuning chose last, is what runtime-config.json
\* says: rows, parents and the frozen inference batch (backend.py).
RecordedIsRun ==
    launched # NoEnv =>
        /\ recorded.rows = launched.rows /\ recorded.micro = launched.micro
        /\ recorded.parents = launched.rows \div RowsPerParent

\* Probes never collect solutions; the search does what its options say.
PolicyAfterProbes ==
    /\ TRUE \notin probed
    /\ launched # NoEnv => launched.bucket = req.collect

\* The workers start with the GPU memory of the planner returned, and a call
\* that ends, however it does, leaves no planner behind.
PlannerReleased == pc \in Over \cup {"ranks", "parse"} => ~session

\* A path the workers may find never exceeds max_steps, and its first depth is
\* searched: no correct search is thrown away for its length.
BudgetFits == pc = "parse" => length <= req.steps /\ Forward(req) >= 1

\* The tree around a state fits the entries the caller allows: the state, and a
\* tree of one less around each of its neighbours.
Ball[n \in 0..MaxRadius] == IF n = 0 THEN 1 ELSE 1 + Moves * Ball[n - 1]
NeighbourhoodFits == launched # NoEnv => Ball[launched.radius] <= MaxEntries

\* A run that was not tuned: the children of one slot fit the storage of the
\* smallest shard native starts from.
SlotFits ==
    launched # NoEnv /\ ~req.tunable =>
        (launched.rows \div RowsPerParent) * Moves <= Storage(launched.width, Len(devices))

\* A fixed frontier is searched at the width asked for.
WidthKept == launched # NoEnv /\ req.beam # MaxBeam => launched.width = req.beam

\* One runner for all: the workers see exactly the selected GPUs in order, none
\* of which the runner does not support; a T4 gets CUTLASS only when asked.
RunnerSuits ==
    launched # NoEnv =>
        LET seen == launched.gpus IN
        /\ \A i \in DOMAIN seen : Gpus[seen[i]] = Kind(devices[i])
        /\ \A i \in DOMAIN seen : executor = "cutlass" =>
               /\ Gpus[seen[i]] = "t4" => req.backend = "cutlass"
               /\ req.ensemble => Gpus[seen[i]] = "ampere"

===============================================================================
