--------------------------- MODULE CapacityPlanning ---------------------------
(***************************************************************************)
(* How the frontier and the inference batch of a run are fitted into GPU    *)
(* memory (maximum_beam.py, beam_capacity.py, inference_admission.py,       *)
(* working_capacity.py, and their use in backend.py).  A fixed frontier     *)
(* gets the fastest measured batch the native planner admits.  For the      *)
(* maximum one the largest admitted frontier of every shard count is found  *)
(* by bisection, the batch is tuned for exactly that frontier, and the      *)
(* frontier is kept only when a full step ran and scaled at its width.      *)
(***************************************************************************)
EXTENDS Integers, FiniteSets, FiniteSetsExt

CONSTANTS
    MaxShards,     \* 128 in the code
    Ceiling,       \* bound on the frontier, in units of world * alignment
    MaxBatch,      \* measured inference batches 1..MaxBatch
    MaxSpeed,      \* bound on their speeds 1..MaxSpeed
    MaxRounds,     \* rounds of refinement and of comparison, 3 in the code
    Saturated,     \* frontier a batch needs to be saturated, per batch unit
    Wanted         \* frontiers a call may ask for, or 0 for the maximum

PlanningAssumption ==
    /\ {MaxShards, Ceiling, MaxBatch, MaxSpeed, MaxRounds, Saturated} \subseteq Nat \ {0}
    /\ Wanted \subseteq 0..Ceiling

Batches == 1..MaxBatch
ShardCounts == 1..MaxShards
Stages == {"memory", "working"}
NoBatch == 0
NoCapacity == [beam |-> 0, batch |-> NoBatch]

VARIABLES
    pc, round,
    requested,     \* what the call asked for
    rows,          \* what was measured of each batch: speed, or 0 for an unusable cohort
    tuned,         \* the batch the inference calibration chose
    env,           \* the batch in the environment of the workers
    cal,           \* the calibration in force: batch, and the frontier it is for
    limit,         \* what the planner's memory admits, per shard count and stage
    shards, stage, low, high, upper,   \* the bisection
    late,          \* the budget of the capacity search is spent
    complete,      \* search_complete
    best,          \* the best frontier so far, and then the capacity
    tried, session,    \* batches offered to the planner; the one it is kept open for
    verified,      \* <<frontier, batch>> pairs that ran a full step
    scaled         \* frontiers found to scale against a smaller verified one

vars == <<pc, round, requested, rows, tuned, env, cal, limit, shards, stage, low, high, upper,
          late, complete, best, tried, session, verified, scaled>>

bisection == <<limit, shards, stage, low, high, upper, late, complete>>
given == <<requested, rows, tuned>>
evidence == <<verified, scaled>>

TypeOK ==
    /\ pc \in {"offer", "discover", "shards", "bisect", "settle", "tune", "step", "compare",
               "measure", "launch", "failed"}
    /\ round \in 0..MaxRounds
    /\ requested \in Wanted /\ rows \in [Batches -> Nat] /\ tuned \in Batches
    /\ env \in Batches \cup {NoBatch}
    /\ limit \in [Stages -> [ShardCounts -> 0..Ceiling]]
    /\ shards \in 1..MaxShards + 1 /\ stage \in Stages
    /\ low \in 0..Ceiling /\ high \in 0..Ceiling + 1
    /\ {late, complete} \subseteq BOOLEAN
    /\ best \in [beam : 0..Ceiling, batch : Batches \cup {NoBatch}]
    /\ tried \subseteq Batches /\ session \in Batches \cup {NoBatch}
    /\ pc = "bisect" => low < high /\ high <= upper + 1

Maximum == requested = 0

\* Measured cohorts: a batch is usable when every rank answered correctly,
\* unthrottled and with stable times.
Candidates == {b \in Batches : rows[b] > 0}

Slowest(S) == CHOOSE b \in S : \A c \in S : rows[b] <= rows[c]   \* mutant: min is max
Fastest(S) == CHOOSE b \in S : \A c \in S : rows[b] >= rows[c]

\* The maximum starts from the fastest verified batch, with its reserve in the
\* environment; a fixed frontier is offered batch after batch.
Init ==
    /\ requested \in Wanted /\ rows \in [Batches -> 0..MaxSpeed]
    /\ tuned \in {b \in Batches : rows[b] > 0}
    /\ cal = [batch |-> IF Maximum THEN Fastest(Candidates) ELSE tuned,
              beam |-> requested]
    /\ env = cal.batch
    /\ pc = IF Maximum THEN "discover" ELSE "offer"
    /\ round = 0 /\ best = NoCapacity
    /\ limit = [s \in Stages |-> [n \in ShardCounts |-> 0]]
    /\ shards = 1 /\ stage = "memory" /\ low = 0 /\ high = 0 /\ upper = 0
    /\ late = FALSE /\ complete = TRUE
    /\ tried = {} /\ session = NoBatch
    /\ verified = {} /\ scaled = {}

Fail == pc' = "failed"

----------------------------------------------------------------------------
(* A fixed frontier: inference_admission.py                                 *)

\* The tuned batch first, then the others from the fastest on.
NextOffer ==
    LET left == Candidates \ tried IN
    IF tuned \in left THEN tuned ELSE Fastest(left)

AdmittedOnly(b) ==                        \* mutant: the environment keeps the first batch
    /\ session' = b /\ cal' = [cal EXCEPT !.batch = b] /\ UNCHANGED env
    /\ best' = [beam |-> requested, batch |-> b] /\ pc' = "step"
Admitted(b) ==
    /\ session' = b
    /\ env' = b /\ cal' = [cal EXCEPT !.batch = b]
    /\ best' = [beam |-> requested, batch |-> b]
    /\ pc' = "step"

LeaveOpen(b) == session' = b              \* mutant: only a clean end closes the session
CloseSession(b) == session' = NoBatch

\* Each batch has a planning session of its own.  A rejection for capacity goes
\* on to the next batch; any other failure ends the run.  What was measured is
\* a snapshot: admission of one batch says nothing of another.
Offer ==
    /\ pc = "offer"
    /\ IF Candidates \ tried = {} THEN Fail /\ UNCHANGED <<tried, session, env, cal, best>>
       ELSE /\ tried' = tried \cup {NextOffer}
            /\ \/ Admitted(NextOffer)
               \/ CloseSession(NextOffer) /\ UNCHANGED <<env, cal, best>> /\ pc' \in {"offer", "failed"}
    /\ UNCHANGED <<round, given, bisection, evidence>>

----------------------------------------------------------------------------
(* The maximum: discover_capacity and find_capacity                         *)

\* Memory is free as it is when the planning session starts, and frozen in it.
Discover ==
    /\ pc = "discover"
    /\ limit' \in [Stages -> {f \in [ShardCounts -> 0..Ceiling] :
                                  \A n \in ShardCounts : f[n] * n <= Ceiling}]
    /\ shards' = 1 /\ stage' = "memory" /\ late' = FALSE /\ complete' = TRUE
    /\ best' = NoCapacity /\ pc' = "shards"
    /\ UNCHANGED <<round, given, env, cal, low, high, upper, tried, session, evidence>>

Elapse ==
    /\ pc \in {"shards", "bisect"} /\ ~late /\ late' = TRUE
    /\ UNCHANGED <<pc, round, given, env, cal, limit, shards, stage, low, high, upper,
                   complete, best, tried, session, evidence>>

NextShards == shards' = shards + 1 /\ stage' = "memory" /\ pc' = "shards"

KeptUpper(n) ==                           \* mutant: the bound is not lowered
    pc' = "bisect" /\ low' = 0 /\ high' = n + 1 /\ UNCHANGED upper
StartBisection(n) ==
    pc' = "bisect" /\ low' = 0 /\ high' = n + 1 /\ upper' = n

\* The outer loop, until the shard counts or the budget are used up.
NextProfile ==
    /\ pc = "shards"
    /\ IF shards > MaxShards \/ late
       THEN /\ complete' = (complete /\ shards > MaxShards)
            /\ IF best.beam = 0 THEN Fail ELSE pc' = "settle"
            /\ UNCHANGED <<shards, stage, low, high, upper>>
       ELSE /\ IF shards > Ceiling THEN NextShards /\ UNCHANGED <<low, high, upper>>
               ELSE StartBisection(Ceiling \div shards) /\ UNCHANGED <<shards, stage>>
            /\ UNCHANGED complete
    /\ UNCHANGED <<round, given, env, cal, limit, late, best, tried, session, evidence>>

Middle == (low + high) \div 2
AdmitUpwards(n) == TRUE                   \* mutant: an effective width above the bound
Admits(n) == n <= limit[stage][shards]

Probe ==
    /\ pc = "bisect" /\ high - low > 1 /\ ~late
    /\ IF Admits(Middle) THEN low' = Middle /\ UNCHANGED high
       ELSE high' = Middle /\ UNCHANGED low
    /\ UNCHANGED <<pc, round, given, env, cal, limit, shards, stage, upper, late,
                   complete, best, tried, session, evidence>>

FirstBest(n) == best.beam = 0             \* mutant: the first shard count is kept
Better(n) == n > best.beam

Unfinished == high - low > 1

\* The memory stage bounds the working stage, whose flush is large enough to be
\* useful; only the latter counts.  A search that ran out of time ends the loop,
\* except when it admitted nothing: that is taken for a rejection.
EndBisection ==
    /\ pc = "bisect" /\ (~Unfinished \/ late)
    /\ IF low = 0
       THEN NextShards /\ UNCHANGED <<low, high, upper, complete, best>>
       ELSE IF stage = "memory"
       THEN /\ stage' = "working" /\ StartBisection(low)
            /\ UNCHANGED <<shards, complete, best>>
       ELSE /\ complete' = (complete /\ ~Unfinished)
            /\ best' = IF Better(low * shards) THEN [beam |-> low * shards, batch |-> env] ELSE best
            /\ IF Unfinished THEN pc' = "settle" /\ UNCHANGED <<shards, stage>> ELSE NextShards
            /\ UNCHANGED <<low, high, upper>>
    /\ UNCHANGED <<round, given, env, cal, limit, late, tried, session, evidence>>

----------------------------------------------------------------------------
(* refine_maximum                                                           *)

AnyReceipt(w) == TRUE                     \* mutant: the receipt's frontier is not compared
BoundReceipt(w) == w = best.beam

Endless == TRUE                           \* mutant: refinement goes on until it settles
RoundsLeft == round < MaxRounds
Count == round' = Min({round + 1, MaxRounds})

\* Tuned for the frontier that came out, nothing is left to do.
Settle ==
    /\ pc = "settle"
    /\ IF best.beam = cal.beam THEN pc' = "step"
       ELSE IF RoundsLeft THEN pc' = "tune" ELSE Fail
    /\ UNCHANGED <<round, given, env, cal, bisection, best, tried, session, evidence>>

SameBatch(b) == FALSE                     \* mutant: the capacity is not searched again
Changed(b) == b # cal.batch

\* The batch is tuned for the frontier that was found; another batch, or the
\* same with another reserve, means another search.
Tune ==
    /\ pc = "tune" /\ Count
    /\ \E b \in Candidates, w \in {best.beam, 0}, reserve \in BOOLEAN :
         IF ~BoundReceipt(w) THEN Fail /\ UNCHANGED <<env, cal>>
         ELSE /\ cal' = [batch |-> b, beam |-> w]
              /\ env' = IF Changed(b) THEN b ELSE env
              /\ pc' = IF Changed(b) \/ reserve THEN "discover" ELSE "step"
    /\ UNCHANGED <<given, bisection, best, tried, session, evidence>>

\* A previous winner whose telemetry is missing is not taken for a slower batch.
TuneRejected ==
    /\ pc = "tune" /\ Fail
    /\ UNCHANGED <<round, given, env, cal, bisection, best, tried, session, evidence>>

----------------------------------------------------------------------------
(* The full step and choose_working_capacity                                *)

\* tune_downstream: a full step ran at the frontier, or only components were
\* measured, or it failed.  The kept planning session is closed in every case.
FullStep ==
    /\ pc = "step"
    /\ session' = NoBatch
    /\ \/ Fail /\ UNCHANGED verified
       \/ /\ verified' = verified \cup {<<best.beam, env>>}
          /\ pc' = IF Maximum THEN "compare" ELSE "launch"
       \/ UNCHANGED verified /\ pc' = IF Maximum THEN "compare" ELSE "launch"
    /\ round' = 0
    /\ UNCHANGED <<given, env, cal, bisection, best, tried, scaled>>

AnyStep(w) == TRUE                        \* mutant: another width's receipt will do
StepAt(w) == <<w, env>> \in verified

\* A receipt in the cache may show a smaller frontier that is not much faster.
Compare ==
    /\ pc = "compare"
    /\ \/ ~StepAt(best.beam) /\ Fail /\ UNCHANGED scaled
       \/ /\ StepAt(best.beam) /\ scaled' = scaled \cup {best.beam} /\ pc' = "launch"
       \/ /\ StepAt(best.beam) /\ UNCHANGED scaled
          /\ IF round = MaxRounds \/ best.beam \div 2 < cal.batch * Saturated THEN Fail
             ELSE pc' = "measure"
    /\ UNCHANGED <<round, given, env, cal, bisection, best, tried, session, verified>>

\* Otherwise half of it is measured: the frontier is kept if it retains 80 % of
\* the throughput, or else the half becomes the frontier to judge.
Measure ==
    LET w == best.beam \div 2 IN
    /\ pc = "measure" /\ round' = round + 1
    /\ \/ Fail /\ UNCHANGED <<best, evidence>>
       \/ /\ verified' = verified \cup {<<w, env>>}
          /\ \/ scaled' = scaled \cup {best.beam} /\ pc' = "launch" /\ UNCHANGED best
             \/ /\ best' = [best EXCEPT !.beam = w] /\ UNCHANGED scaled
                /\ pc' = IF round' = MaxRounds THEN "failed" ELSE "compare"
    /\ UNCHANGED <<given, env, cal, bisection, tried, session>>

Next ==
    \/ Offer \/ Discover \/ Elapse \/ NextProfile \/ Probe \/ EndBisection
    \/ Settle \/ Tune \/ TuneRejected \/ FullStep \/ Compare \/ Measure

Spec == Init /\ [][Next]_vars /\ WF_vars(Next)

----------------------------------------------------------------------------
(* Properties                                                               *)
Launched == pc = "launch"
Width(n) == Min({limit["memory"][n], limit["working"][n]}) * n

\* The planner admitted the frontier that is proposed, under one profile and
\* with the batch in force, whenever the budget ran out (beam_capacity.py:62-75).
CapacityWasAdmitted ==
    pc \in {"shards", "bisect", "settle"} /\ best.beam > 0 =>
        \E n \in ShardCounts : best.beam % n = 0 /\ best.beam <= Width(n)

\* Within the budget, bisection of every shard count finds the largest frontier
\* any of them admits (beam_capacity.py:48-74, maximum_beam.py:70-100).
LargestWithinBudget ==
    pc = "settle" /\ ~late => best.beam = Max({Width(n) : n \in ShardCounts})

\* A search that did not finish says so (beam_capacity.py:34).
CompleteMeansLargest ==
    pc = "settle" /\ complete => best.beam = Max({Width(n) : n \in ShardCounts})

\* Frontier, calibration and environment fit together when the full step is
\* measured: the frontier was admitted with this batch, the batch was tuned for
\* this frontier (maximum_beam.py:26, backend.py:614-629, inference_admission.py:100).
FittedTogether ==
    pc = "step" => /\ cal.beam = best.beam
                   /\ cal.batch = env /\ best.batch = env

\* A maximum frontier is launched only after a full step at exactly its width
\* with exactly this batch, and only if it scales (working_capacity.py:28-36).
LaunchedAsVerified ==
    Launched /\ Maximum => <<best.beam, env>> \in verified /\ best.beam \in scaled

\* A fixed frontier is searched with the best verified batch that fits: faster
\* ones were all refused, or calibration had preferred this one already
\* (inference_admission.py:52-62).
FastestThatFits ==
    Launched /\ ~Maximum =>
        /\ rows[env] > 0
        /\ env # tuned => \A b \in Batches : rows[b] > rows[env] => b \in tried

\* The planning session that is kept is the admitted batch's, and none is left
\* open, whatever fails (inference_admission.py:89-92, backend.py:643-647).
OneSession == session # NoBatch => pc = "step" /\ session = env

\* Refinement and comparison come to an end (maximum_beam.py:30, working_capacity.py:125).
PlanningEnds == <>(pc \in {"launch", "failed"})
=============================================================================
