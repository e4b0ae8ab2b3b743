------------------------------ MODULE MCPlanning ------------------------------
(***************************************************************************)
(* The phases of a call that choose what the workers run with: the frontier *)
(* (CapacityPlanning), the inference batch (InferenceTuning) and the        *)
(* pipeline (PipelineTuning).  A call sees each phase as one step, so each  *)
(* is explored by itself, in the configurations below; `part` says which    *)
(* one a behaviour is.  What the frontier promises is stated in Adapter;    *)
(* here it is followed to its end.                                          *)
(***************************************************************************)
EXTENDS Integers, FiniteSets, Sequences

VARIABLES
    part, pc,
    env, session, round, tried,                              \* of several phases
    requested, rows, tuned, cal, limit, shards, stage, low, high, upper, late, complete, best,
    verified, scaled,
    call, ask, memory, clock, intact, cache, result, cause,  \* of both tunings
    start, queue, timed, steps, seen, winner, reason, skipped,
    snapshot, todo, refining, samples, down, refused

sharedVars == <<env, session, round, tried>>
capacityVars == <<requested, rows, tuned, cal, limit, shards, stage, low, high, upper, late,
                  complete, best, verified, scaled>>
tuningVars == <<call, ask, memory, clock, intact, cache, result, cause>>
pipelineVars == <<start, queue, timed, steps, seen, winner, reason, skipped>>
batchVars == <<snapshot, todo, refining, samples, down, refused>>
allVars == <<part, pc, sharedVars, capacityVars, tuningVars,
             pipelineVars, batchVars>>

----------------------------------------------------------------------------
(* The capacity, of the largest frontier and of a fixed one.                *)

Capacity == INSTANCE CapacityPlanning WITH
    MaxShards <- 2, Ceiling <- 2, MaxBatch <- 2, MaxSpeed <- 2, MaxRounds <- 2,
    Saturated <- 1, Wanted <- {0, 2}

----------------------------------------------------------------------------
(* The pipeline: a baseline "b", a shared record "s", coarse proposals and  *)
(* neighbours.  By components; with a record; by complete steps; with       *)
(* receipts of an earlier tuning.  "d" needs more memory, "h" serves a      *)
(* wider beam, the plan of "c" depends on the free memory.                  *)

Interval(a, m, z) == [low |-> a, mid |-> m, high |-> z]
Fast == Interval(1, 1, 1)
Quick == Interval(2, 2, 2)
Slow == Interval(3, 3, 3)
Wide == Interval(1, 2, 4)
Never == Interval(0, 0, 0)

PipelineParts == {"components", "shared", "steps", "receipts"}
Proposed(i) == IF i = "shared" THEN <<"c">> ELSE <<"c", "d">>
Around(i) == [r \in 1..2 |->
    CASE i = "steps" -> IF r = 1 THEN <<"f", "g">> ELSE <<"f", "h">>
      [] i = "receipts" -> IF r = 1 THEN <<"f">> ELSE <<"f", "h">>
      [] OTHER -> <<>>]
Settings(i) == {"b", "s", "c"}
    \cup (IF i = "shared" THEN {} ELSE {"d"})
    \cup (IF i \in {"steps", "receipts"} THEN {"f", "h"} ELSE {})
    \cup (IF i = "steps" THEN {"g"} ELSE {})
Free(i) == IF i = "steps" THEN {2} ELSE {1, 2}
Tuned(full, sessions_, record, grows) ==
    {[full |-> full, session |-> s, cacheable |-> TRUE, record |-> record, grow |-> g] :
        s \in sessions_, g \in grows}

Pipeline(i) == INSTANCE PipelineTuning WITH
    Base <- "b", Shared <- "s", Coarse <- Proposed(i), Neighbours <- Around(i),
    Need <- [p \in Settings(i) |-> IF p = "d" THEN 2 ELSE 1], Beam <- 4,
    Width <- [p \in Settings(i) |->
        IF p = "h" \/ (p = "d" /\ i = "components") THEN 5 ELSE 4],
    Geometry <- [x \in Settings(i) \X Free(i) |-> IF x[1] = "c" THEN x[2] ELSE 0],
    Memory <- Free(i),
    Work <- IF i \in {"components", "shared"} THEN {Fast, Slow, Wide, Never} ELSE {Slow},
    Steps <- IF i = "receipts" THEN {Fast, Slow} ELSE {Fast, Quick, Slow, Never},
    FullPerRound <- 2, Deaths <- (i \in {"components", "shared"}),
    Calls <- IF i = "steps" THEN 1 ELSE 2,
    Asked <- CASE i = "components" -> Tuned(FALSE, {"components", "planner", "none"}, "none", {TRUE})
               [] i = "shared" -> Tuned(FALSE, {"components"}, "good", {TRUE})
               [] i = "steps" -> Tuned(TRUE, {"planner"}, "none", BOOLEAN)
               [] OTHER -> Tuned(TRUE, {"components"}, "none", {TRUE})

----------------------------------------------------------------------------
(* The inference batch, with the real candidates of small beams: shares of  *)
(* 6, 3 and 12 rows on two GPUs, the last with all sizes scaled down; a     *)
(* shared record proposes 2 or the baseline.                                *)

BatchParts == {"small", "bound", "again"}
Request(beam, bootstrap, shared) == [beam |-> beam, bootstrap |-> bootstrap, shared |-> shared]
Batching(i) == INSTANCE InferenceTuning WITH
    World <- 2, MaxBatch <- 400, Grain <- 32, Slack <- 1, Pressure <- FALSE,
    Sizes <- IF i = "bound" THEN {4, 8} ELSE {32, 64, 128, 256, 512},
    Baseline <- IF i = "bound" THEN 8 ELSE 256,
    Cohorts <- CASE i = "small" -> {Fast, Quick, Wide, Never}
                 [] i = "bound" -> {Slow}
                 [] OTHER -> {Fast, Slow, Never},
    Levels <- CASE i = "small" -> {5, 512} [] i = "bound" -> {5, 64} [] OTHER -> {1, 2, 4},
    Sessions <- (i = "again"), Calls <- IF i = "again" THEN 2 ELSE 1,
    Asked <- CASE i = "small" -> {Request(12, FALSE, r) : r \in {0, 2, 6}}
               [] i = "bound" -> {Request(20, FALSE, 0)}
               [] OTHER -> {Request(6, FALSE, 0), Request(6, TRUE, 0)}

ASSUME Capacity!PlanningAssumption
ASSUME \A i \in PipelineParts : Pipeline(i)!TuningAssumption
ASSUME \A i \in BatchParts : Batching(i)!InferenceAssumption

----------------------------------------------------------------------------
\* The variables of a part that is not there.
None == "absent"
NoCapacity ==
    /\ requested = None /\ rows = None /\ tuned = None /\ cal = None /\ limit = None
    /\ shards = None /\ stage = None /\ low = None /\ high = None /\ upper = None /\ late = None
    /\ complete = None /\ best = None /\ verified = None /\ scaled = None
NoTuning ==
    /\ call = None /\ ask = None /\ memory = None /\ clock = None /\ intact = None
    /\ cache = None /\ result = None /\ cause = None
NoPipeline ==
    /\ start = None /\ queue = None /\ timed = None /\ steps = None /\ seen = None
    /\ winner = None /\ reason = None /\ skipped = None
NoBatch ==
    /\ snapshot = None /\ todo = None /\ refining = None /\ samples = None /\ down = None
    /\ refused = None

Init ==
    \/ /\ part = "capacity" /\ Capacity!Init
       /\ NoTuning /\ NoPipeline /\ NoBatch
    \/ \E i \in PipelineParts :
       /\ part = i /\ Pipeline(i)!Init /\ env = None /\ tried = None
       /\ NoCapacity /\ NoBatch
    \/ \E i \in BatchParts :
       /\ part = i /\ Batching(i)!Init /\ env = None /\ session = None /\ round = None
       /\ NoCapacity /\ NoPipeline

CapacityStep ==
    /\ part = "capacity" /\ Capacity!Next
    /\ UNCHANGED <<part, tuningVars, pipelineVars, batchVars>>
InPipeline(i) ==
    /\ part = i
    /\ UNCHANGED <<part, env, tried, capacityVars, batchVars>>
InBatch(i) ==
    /\ part = i
    /\ UNCHANGED <<part, env, session, round, capacityVars, pipelineVars>>

Next ==
    \/ CapacityStep
    \/ \E i \in PipelineParts : InPipeline(i) /\ Pipeline(i)!Next
    \/ \E i \in BatchParts : InBatch(i) /\ Batching(i)!Next

\* The phases compute; each goes on while it can.
Compute ==
    \/ CapacityStep
    \/ \E i \in PipelineParts : InPipeline(i) /\ Pipeline(i)!Tune
    \/ \E i \in BatchParts : InBatch(i) /\ Batching(i)!Tune

Spec == Init /\ [][Next]_allVars /\ WF_allVars(Compute)

----------------------------------------------------------------------------
(* Properties                                                               *)

\* Pipeline timings are of one frontier and of separate processes beside which no
\* planner lives; nothing is measured twice under two names; the answer is what
\* the GPUs admit now and was measured with verified files, nothing measured in
\* full is separated from it, and a reusable receipt never stems from a
\* comparison that a failing challenger cut short (component_autotune.py:60-124,
\* pipeline_autotune.py:48-240, pipeline_cache.py:65-100).
TuningHolds ==
    \A i \in PipelineParts : part = i =>
        /\ Pipeline(i)!TypeOK
        /\ Pipeline(i)!ProbedAlone /\ Pipeline(i)!EvidenceOnce
        /\ Pipeline(i)!MeasuredModel /\ Pipeline(i)!AnsweredAsAdmitted
        /\ Pipeline(i)!FastestAnswered /\ Pipeline(i)!CachedComparison
        /\ Pipeline(i)!Comparable

\* A batch that was stable on every rank is never thrown away, the answer is not
\* separated from any other measured batch, was measured with verified files,
\* and a batch refused for memory is tried again once it fits; once the baseline
\* was refused for lack of memory no batch as large as that is measured, not even
\* by the refinement (autotune.py:41-69, 126, 279-296).
BatchHolds ==
    /\ [](\A i \in BatchParts : part = i =>
            /\ Batching(i)!TypeOK
            /\ i # "again" => Batching(i)!StableKept
            /\ Batching(i)!FastestChosen /\ Batching(i)!MeasuredModel /\ Batching(i)!RefusedAgain)
    /\ [][\A i \in BatchParts : part = i => Batching(i)!BoundRespected]_allVars

\* Every phase comes to an end, with or without an answer (maximum_beam.py:30,
\* working_capacity.py:125, pipeline_autotune.py:224-245, autotune.py:240-272).
PlanningEnds ==
    (part = "capacity" \/ pc \in {"enter", "cache"})
        ~> pc \in {"launch", "failed", "done", "idle"}
===============================================================================
