-------------------------- MODULE InferenceTuning ---------------------------
(***************************************************************************)
(* The choice of the inference batch (autotune.py): coarse candidates up to *)
(* the share of one GPU, a local refinement around the best of them, and a  *)
(* receipt that is reused while the free memory allows it.  A batch is      *)
(* measured on all ranks at once; it needs as much memory as it has rows.   *)
(***************************************************************************)
EXTENDS Integers, FiniteSets, Sequences, FiniteSetsExt, TimingStats

CONSTANTS
    World,                 \* ranks
    MaxBatch,              \* calibration_max_batch
    Sizes,                 \* the powers of two among the candidates, 32..65536
    Baseline,              \* the usual first candidate, 256
    Grain,                 \* largest step of the refinement, 32
    Cohorts,               \* what measuring a batch on all ranks may show
    Levels, Slack,         \* free memory, and the change that does not matter
    Sessions,              \* the ranks are measured in sessions that live on
    Pressure,              \* others take or free memory while batches are measured
    Calls, Asked           \* calibrations in a row, and the requests

\* A request: the beam, whether only a seed is needed, the batch of a shared record.
Requests == [beam : Nat \ {0}, bootstrap : BOOLEAN, shared : Nat]

InferenceAssumption ==
    /\ {World, MaxBatch, Baseline, Grain, Calls} \subseteq Nat \ {0}
    /\ Sizes \subseteq Nat \ {0} /\ Levels \subseteq Nat /\ Slack \in Nat
    /\ Cohorts \subseteq Estimates \cup {Unstable}
    /\ {Sessions, Pressure} \subseteq BOOLEAN /\ Asked \subseteq Requests

VARIABLES
    pc, call, ask,
    memory, snapshot,      \* free memory, and what was seen when the search began
    clock,                 \* 1 after the coarse deadline, 2 with no time for a probe, 3 at the end
    intact,                \* the model's files are as they were verified
    todo,                  \* candidates: a sequence of groups, each in any order
    refining,              \* the refinement was queued
    tried, samples,
    down,                  \* some rank's session must be started
    refused,               \* batches that did not fit
    cache, result, cause

vars == <<pc, call, ask, memory, snapshot, clock, intact, todo, refining, tried, samples, down,
          refused, cache, result, cause>>

Unknown == -1              \* nvidia-smi did not answer
NoReceipt == [key |-> <<>>, batch |-> 0, snapshot |-> Unknown, refused |-> {}]
NoResult == [batch |-> 0, hit |-> FALSE, refused |-> {}]

Init ==
    /\ pc = "idle" /\ call = 0 /\ ask \in Asked
    /\ memory \in Levels /\ snapshot = Unknown /\ clock = 0 /\ intact = TRUE
    /\ todo = <<>> /\ refining = FALSE /\ tried = {} /\ samples = {} /\ refused = {} /\ down = TRUE
    /\ cache = NoReceipt /\ result = NoResult /\ cause = "none"

world == <<call, ask, memory, clock, intact>>
found == <<tried, samples, down, refused>>
outcome == <<cache, result, cause>>

----------------------------------------------------------------------------
(* Candidates                                                               *)

Limit(r) == IF r.bootstrap THEN Min({32, MaxBatch}) ELSE MaxBatch
Cap(r) == Min({Limit(r), (r.beam + World - 1) \div World})
Key(r) == <<r.beam, r.bootstrap, Limit(r)>>

NonEmpty(groups) == SelectSeq(groups, LAMBDA g : g # {})

\* The baseline, the cap, then larger and smaller powers in a random order; a
\* seed takes the cap and then ever smaller batches.
First(r) == IF r.bootstrap THEN Cap(r) ELSE Min({Baseline, Cap(r)})
Coarse(r) ==
    LET cap == Cap(r)
    IN  IF r.bootstrap
        THEN <<{cap}>> \o NonEmpty([i \in 1..5 |-> {2 ^ (5 - i)} \cap 1..cap - 1])
        ELSE NonEmpty(<<{First(r)}, {cap} \ {First(r)},
                        {s \in Sizes : First(r) < s /\ s < cap}, {s \in Sizes : s < First(r)}>>)

SharedFits(r) == ~r.bootstrap /\ r.shared \in 1..Cap(r)
Groups(r) ==
    IF SharedFits(r)
    THEN <<{r.shared}>> \o NonEmpty([i \in DOMAIN Coarse(r) |-> Coarse(r)[i] \ {r.shared}])
    ELSE Coarse(r)

\* Steps of an eighth around the winner, rounded to a grain.
Unbounded(winner, r) ==                      \* mutant: the refinement ignores the cap
    {winner \div 2, winner + winner \div 2} \ tried
Refinement(winner, r) ==
    LET grain == Max({1, Min({Grain, winner \div 8})})
        near == {((winner * f[1] + (f[2] * grain) \div 2) \div (f[2] * grain)) * grain :
                    f \in {<<5, 8>>, <<3, 4>>, <<7, 8>>, <<9, 8>>, <<5, 4>>, <<3, 2>>}}
    IN  (near \cap 1..Cap(r)) \ (tried \cup UNION {todo[i] : i \in DOMAIN todo})

\* A noisy baseline gives way to the best stable candidate.
BaselineOnly(r) ==                           \* mutant: the baseline must be stable
    LET base == {s \in samples : s.batch = First(r) /\ Stable(s.time)}
    IN  IF base = {} THEN {} ELSE Select(samples, CHOOSE s \in base : TRUE)
AnyStable(r) == {s \in samples : Stable(s.time)}  \* mutant: whatever is stable wins
Winners(r) ==
    LET stable == {s \in samples : Stable(s.time)}
        base == {s \in stable : s.batch = First(r)}
        best == {s \in stable : \A t \in stable : s.time.mid <= t.time.mid}
    IN  UNION {Select(samples, s) : s \in IF base = {} THEN best ELSE base}

----------------------------------------------------------------------------
(* One calibration                                                          *)

Begin ==
    /\ pc \in {"idle", "done", "failed"} /\ call < Calls
    /\ pc' = "cache" /\ call' = call + 1 /\ ask' \in Asked
    /\ clock' = 0 /\ intact' = TRUE /\ snapshot' = Unknown /\ todo' = <<>> /\ refining' = FALSE
    /\ tried' = {} /\ samples' = {} /\ refused' = {} /\ down' = TRUE
    /\ result' = NoResult /\ cause' = "none"
    /\ UNCHANGED <<memory, cache>>

Answer(batch, hit, out) ==
    /\ pc' = "done" /\ result' = [batch |-> batch, hit |-> hit, refused |-> out]
    /\ UNCHANGED <<cause, snapshot, todo, refining>> /\ UNCHANGED world /\ UNCHANGED found

Fail(why) ==
    /\ pc' = "failed" /\ cause' = why
    /\ UNCHANGED <<snapshot, todo, refining, cache, result>> /\ UNCHANGED world /\ UNCHANGED found

\* A search that was limited by memory is repeated when there is more of it.
AnyMemory(seen) == cache.key = Key(ask)     \* mutant: the free memory does not matter
Reusable(seen) ==
    /\ cache.key = Key(ask)
    /\ cache.refused # {} => /\ cache.snapshot # Unknown /\ seen # Unknown
                             /\ seen <= cache.snapshot + Slack

Seen == {memory, Unknown}

Hit ==
    /\ pc = "cache"
    /\ \E seen \in Seen : Reusable(seen)
    /\ Answer(cache.batch, TRUE, cache.refused)
    /\ UNCHANGED cache

Search ==
    /\ pc = "cache"
    /\ \E seen \in Seen : ~Reusable(seen)
    /\ snapshot' \in Seen
    /\ todo' = Groups(ask) /\ pc' = "probe"
    /\ UNCHANGED refining /\ UNCHANGED world /\ UNCHANGED found /\ UNCHANGED outcome

StopEarly == (tried # {} /\ clock >= 2) \/ clock = 3
CutCoarse == ~refining /\ samples # {} /\ clock = 1 /\ ~ask.bootstrap

Repeat(batch) == UNCHANGED todo              \* mutant: a batch stays a candidate
Take(batch) == todo' = NonEmpty(<<Head(todo) \ {batch}>> \o Tail(todo))

Stay == pc' = "probe" /\ UNCHANGED <<snapshot, refining>> /\ UNCHANGED world /\ UNCHANGED outcome

\* All ranks measured the batch.  A seed, or a shared batch, needs to be stable
\* once; everything else continues.
Settles(batch, cohort) ==
    Stable(cohort) /\ (ask.bootstrap \/ (SharedFits(ask) /\ batch = ask.shared /\ tried = {}))

Measure(batch) ==
    /\ batch <= memory
    /\ \E cohort \in Cohorts :
        /\ samples' = samples \cup {[batch |-> batch, time |-> cohort]}
        /\ tried' = tried \cup {batch} /\ down' = FALSE /\ UNCHANGED refused
        /\ IF Settles(batch, cohort)
           THEN /\ pc' = "select" /\ todo' = <<>>
                /\ UNCHANGED <<snapshot, refining>> /\ UNCHANGED world /\ UNCHANGED outcome
           ELSE Take(batch) /\ Stay

\* A proposal that fails is left out; the baseline is mandatory, except that a
\* lack of memory only bounds the batches.
Mandatory(batch) == batch = First(ask) /\ ~(SharedFits(ask) /\ tried = {})

TakeRest(batch) == Take(batch)               \* mutant: larger batches are tried nevertheless
KeepSmaller(batch) ==
    todo' = NonEmpty([i \in DOMAIN todo |-> {b \in todo[i] : b < batch}])

Refuse(batch) ==
    /\ batch > memory
    /\ refused' = refused \cup {batch} /\ tried' = tried \cup {batch} /\ down' = TRUE /\ UNCHANGED samples
    /\ IF Mandatory(batch) THEN KeepSmaller(batch) ELSE Take(batch)
    /\ Stay

Reject(batch) ==
    IF Mandatory(batch) THEN Fail("baseline")
    ELSE /\ tried' = tried \cup {batch} /\ down' = TRUE /\ UNCHANGED <<samples, refused>>
         /\ Take(batch) /\ Stay

Ready == pc = "probe" /\ todo # <<>> /\ ~StopEarly /\ ~CutCoarse

MeasureNext == Ready /\ \E batch \in Head(todo) : Measure(batch)
RefuseNext == Ready /\ \E batch \in Head(todo) : Refuse(batch)
RejectNext == Ready /\ \E batch \in Head(todo) : Reject(batch)

\* A rank's session does not come back in time, or not at all.
RestartFails == Ready /\ Sessions /\ down /\ Fail("session")

\* After the coarse candidates, or at their deadline, neighbours of the winner.
Refine ==
    /\ pc = "probe" /\ ~refining /\ ~ask.bootstrap /\ ~StopEarly
    /\ todo = <<>> \/ CutCoarse
    /\ IF Winners(ask) = {} THEN Fail("unstable")
       ELSE /\ \E w \in Winners(ask) : todo' = NonEmpty(<<Refinement(w.batch, ask)>>)
            /\ refining' = TRUE
            /\ UNCHANGED <<pc, snapshot>> /\ UNCHANGED world /\ UNCHANGED found /\ UNCHANGED outcome

EndSearch ==
    /\ pc = "probe"
    /\ \/ StopEarly
       \/ todo = <<>> /\ (refining \/ ask.bootstrap)
       \/ ask.bootstrap /\ clock = 1 /\ samples # {}
    /\ pc' = "select"
    /\ UNCHANGED <<snapshot, todo, refining>> /\ UNCHANGED world /\ UNCHANGED found
    /\ UNCHANGED outcome

Publish(batch) == cache' = [key |-> Key(ask), batch |-> batch, snapshot |-> snapshot, refused |-> refused]

PickUnverified ==                           \* mutant: the files are not verified again
    /\ pc = "select" /\ Winners(ask) # {}
    /\ \E w \in Winners(ask) : Publish(w.batch) /\ Answer(w.batch, FALSE, refused)
Pick ==
    /\ pc = "select"
    /\ IF Winners(ask) = {} THEN Fail("unstable")
       ELSE IF ~intact THEN Fail("model")
       ELSE \E w \in Winners(ask) : Publish(w.batch) /\ Answer(w.batch, FALSE, refused)

----------------------------------------------------------------------------
(* The environment                                                          *)

Tick ==
    /\ pc = "probe" /\ clock < 3 /\ clock' = clock + 1
    /\ UNCHANGED <<pc, call, ask, memory, snapshot, intact, todo, refining>>
    /\ UNCHANGED found /\ UNCHANGED outcome

MemoryChanges ==
    /\ pc \in {"idle", "done", "failed"} \/ Pressure
    /\ pc # "done" \/ call < Calls
    /\ memory' \in Levels /\ pc' = IF pc = "done" THEN "idle" ELSE pc
    /\ UNCHANGED <<call, ask, snapshot, clock, intact, todo, refining>>
    /\ UNCHANGED found /\ UNCHANGED outcome

ModelChanges ==
    /\ pc = "probe" /\ intact /\ intact' = FALSE
    /\ UNCHANGED <<pc, call, ask, memory, snapshot, clock, todo, refining>>
    /\ UNCHANGED found /\ UNCHANGED outcome

Tune == Begin \/ Hit \/ Search \/ MeasureNext \/ RefuseNext \/ RejectNext \/ RestartFails
        \/ Refine \/ EndSearch \/ Pick

Next == Tune \/ Tick \/ MemoryChanges \/ ModelChanges

Spec == Init /\ [][Next]_vars /\ WF_vars(Tune)

----------------------------------------------------------------------------
(* Properties                                                               *)

\* Types, and no batch exceeds the rows one GPU gets.
TypeOK ==
    /\ memory \in Levels /\ snapshot \in Levels \cup {Unknown} /\ clock \in 0..3
    /\ cause \in {"none", "baseline", "unstable", "model", "session"}
    /\ {s.batch : s \in samples} \cup refused \subseteq tried
    /\ \A b \in tried : b \in 1..Cap(ask)

\* A batch that was stable on every rank is never thrown away: the calibration
\* fails only without one, or when the model changed. (autotune.py:41-55, 279-281)
StableKept == pc = "failed" /\ cause # "model" => \A s \in samples : ~Stable(s.time)

\* The answer is stable, and no other measured batch is separated from it.
\* (calibration_stats.py:90-94)
FastestChosen ==
    pc = "done" /\ ~result.hit =>
        \E s \in samples : /\ s.batch = result.batch /\ Stable(s.time)
                           /\ \A t \in samples : ~Separated(t.time, s.time)

\* Once the baseline was refused for lack of memory, no batch as large as that
\* is measured, not even by the refinement. (autotune.py:283-287, 58-69)
BoundRespected ==
    \A b \in tried' \ tried :
        First(ask) \in refused /\ call' = call /\ ~SharedFits(ask) => b < First(ask)

\* A batch that was refused for lack of memory is tried again once it fits.
\* (autotune.py:126)
RefusedAgain == pc = "done" /\ result.hit => \A b \in result.refused : b + Slack > memory

\* What is answered was measured with the files that had been verified.
\* (autotune.py:296)
MeasuredModel == pc = "done" /\ ~result.hit => intact

\* Every calibration comes to an end.
TuningEnds == pc = "cache" ~> pc \in {"done", "failed", "idle"}
=============================================================================
