--------------------------- MODULE PipelineTuning ---------------------------
(***************************************************************************)
(* Tuning of the steps after inference for the requested beam               *)
(* (pipeline_autotune.py with component_autotune.py, pipeline_probe.py,     *)
(* adaptive_profiles.py, profile_heuristics.py, pipeline_cache.py and       *)
(* shared_profiles.py), for a build that measures components at their exact *)
(* capacity.  A profile is a setting of the tunable variables; the native   *)
(* planner admits it if its memory fits.  The tuner has two clocks: probes  *)
(* stop at the search deadline, complete steps at the deadline.             *)
(***************************************************************************)
EXTENDS Integers, FiniteSets, Sequences, SequencesExt, FiniteSetsExt, TimingStats

CONSTANTS
    Base, Shared,          \* the profile of the inference winner, that of a shared record
    Coarse,                \* proposals of the first search, most promising first
    Neighbours,            \* per round, the proposals around the winner
    Need,                  \* memory each profile needs
    Beam, Width,           \* the requested beam, and what each profile makes of it
    Geometry,              \* capacities the plan of a profile has, per free memory
    Memory,                \* levels of free memory
    Work, Steps,           \* cohorts that component probes and complete steps may show
    FullPerRound,          \* complete steps per round
    Deaths,                \* planning processes may die, or answer too late
    Calls, Asked           \* tunings in a row, and the requests of this instance

MaxRounds == 2

Profiles == {Base, Shared} \cup Range(Coarse) \cup UNION {Range(Neighbours[r]) : r \in 1..MaxRounds}

\* "bad" is a record whose settings are legal but lack a variable that is read.
Requests == [full : BOOLEAN, session : {"components", "planner", "none"}, cacheable : BOOLEAN,
             record : {"none", "good", "bad"}, grow : BOOLEAN]

TuningAssumption ==
    /\ Need \in [Profiles -> Nat] /\ Width \in [Profiles -> Nat] /\ Beam \in Nat \ {0}
    /\ Memory \subseteq Nat /\ Geometry \in [Profiles \X Memory -> Nat]
    /\ Work \cup Steps \subseteq Estimates \cup {Unstable}
    /\ FullPerRound \in Nat \ {0} /\ Deaths \in BOOLEAN /\ Calls \in Nat \ {0}
    /\ Asked \subseteq Requests /\ Width[Base] = Beam

VARIABLES
    pc, call, ask,
    session,       \* what owns the planner: "components", "planner" or "none"
    clock,         \* 0, 1 after the search deadline, 2 after the deadline
    memory,        \* free memory of the GPUs
    intact,        \* the prepared model files are as they were verified
    start,         \* the profile that plays the baseline
    queue,         \* profiles still to be measured
    timed, steps,  \* component and complete-step samples
    seen, round, winner,
    reason,        \* why the search stopped
    skipped,       \* profiles given up before they were measured, and why
    cache,         \* receipts on disk, per request
    result, cause

vars == <<pc, call, ask, session, clock, memory, intact, start, queue, timed, steps, seen, round,
          winner, reason, skipped, cache, result, cause>>

NoProfile == [round |-> -1, env |-> Base, time |-> Unstable, width |-> 0, plan |-> 0, model |-> TRUE]
NoResult == [env |-> Base, plan |-> 0, kind |-> "none", hit |-> FALSE]
NoReceipt == [env |-> Base, plan |-> 0, full |-> FALSE, grid |-> FALSE, uncut |-> FALSE]

Init ==
    /\ pc = "idle" /\ call = 0 /\ ask \in Asked /\ session = "none"
    /\ clock = 0 /\ memory \in Memory /\ intact = TRUE
    /\ start = Base /\ queue = <<>> /\ timed = {} /\ steps = {}
    /\ seen = {} /\ round = 0 /\ winner = NoProfile /\ reason = "none" /\ skipped = {}
    /\ cache = NoReceipt /\ result = NoResult /\ cause = "none"

search == <<queue, timed, steps, seen, round, winner, reason, skipped>>
world == <<call, ask, clock, memory, intact>>
outcome == <<cache, result, cause>>

----------------------------------------------------------------------------
(* Admission and measurement                                                *)

\* One-shot probes refuse to start after the deadline in force.
Expired == clock >= (IF pc \in {"steps", "propose", "fine", "refine", "round"} THEN 2 ELSE 1)
Plan(p) == Geometry[p, memory]

\* Every rank admits the profile, for at least the requested beam.
Admits(p) == Need[p] <= memory /\ Width[p] >= Beam
Admitted(p) == Admits(p) /\ Width[p] = Beam /\ ~(session = "none" /\ Expired)

Fail(why) ==
    /\ pc' = "failed" /\ cause' = why /\ session' = "none"
    /\ UNCHANGED <<start, cache, result>> /\ UNCHANGED world

Return(answer) ==
    /\ pc' = "done" /\ result' = answer /\ session' = "none"
    /\ UNCHANGED <<start, cause>> /\ UNCHANGED world

Goto(next) == pc' = next /\ UNCHANGED <<session, start>> /\ UNCHANGED world /\ UNCHANGED outcome

Sample(p, r, cohort) ==
    [round |-> r, env |-> p, time |-> cohort, width |-> Width[p], plan |-> Plan(p), model |-> intact]

Of(samples, p) == CHOOSE s \in samples : s.env = p

----------------------------------------------------------------------------
(* Entry, the cache and the shared records                                  *)

Begin ==
    /\ pc \in {"idle", "done", "failed"} /\ call < Calls
    /\ call' = call + 1 /\ pc' = "enter" /\ clock' = 0 /\ intact' = TRUE
    /\ ask' \in Asked /\ memory' \in Memory /\ session' = ask'.session
    /\ start' = Base /\ queue' = <<>> /\ timed' = {} /\ steps' = {} /\ seen' = {}
    /\ round' = 0 /\ winner' = NoProfile /\ reason' = "none" /\ skipped' = {}
    /\ result' = NoResult /\ cause' = "none"
    /\ UNCHANGED cache

\* The requested beam is admitted, or the tuning is an error.
Enter ==
    /\ pc = "enter"
    /\ IF Admitted(Base) THEN Goto("cache") ELSE Fail("admission")
    /\ UNCHANGED search

\* A receipt counts only after a fresh admission that gives the same plan.
AnyPlan(receipt) ==                          \* mutant: the geometry is not compared
    receipt # NoReceipt /\ receipt.full = ask.full /\ Admitted(receipt.env)
Reusable(receipt) ==
    /\ receipt # NoReceipt /\ receipt.full = ask.full
    /\ Admitted(receipt.env) /\ Plan(receipt.env) = receipt.plan

Hit ==
    /\ pc = "cache" /\ ask.cacheable /\ Reusable(cache)
    /\ IF intact
       THEN /\ Return([env |-> cache.env, plan |-> cache.plan, hit |-> TRUE,
                       kind |-> IF ask.full THEN "steps" ELSE "components"])
            /\ UNCHANGED cache
       ELSE Fail("model")
    /\ UNCHANGED search

SharedSuits == ask.record # "none" /\ ~ask.full /\ session = "components"

Miss ==
    /\ pc = "cache" /\ ~(ask.cacheable /\ Reusable(cache))
    /\ IF SharedSuits THEN Goto("shared") ELSE Goto("budget")
    /\ UNCHANGED search

TryShared ==
    /\ pc = "shared"
    /\ IF Admitted(Shared)
       THEN /\ pc' = "probe" /\ start' = Shared
            /\ UNCHANGED <<session>> /\ UNCHANGED world /\ UNCHANGED outcome
       ELSE Goto("local")
    /\ UNCHANGED search

\* After a shared record failed, the baseline is admitted once more.
TryAgain ==                              \* mutant: the record is tried until it fits
    pc = "local" /\ Goto("shared") /\ UNCHANGED search
FallBack ==
    /\ pc = "local"
    /\ IF Admitted(Base)
       THEN /\ pc' = "budget" /\ start' = Base
            /\ UNCHANGED <<session>> /\ UNCHANGED world /\ UNCHANGED outcome
       ELSE Fail("admission")
    /\ timed' = {} /\ queue' = <<>>
    /\ UNCHANGED <<steps, seen, round, winner, reason, skipped>>

\* Without component sessions the planner is closed, so that it owns no memory
\* while a probe runs; one of its own admits the proposals later.
HoldPlanner == UNCHANGED session             \* mutant: the planner stays open
ReleasePlanner == session' = IF session = "components" THEN session ELSE "none"

\* A comparison of complete steps must fit into what is left of the budget.
Budget ==
    /\ pc = "budget"
    /\ \/ /\ pc' = "probe" /\ ReleasePlanner
          /\ UNCHANGED start /\ UNCHANGED world /\ UNCHANGED outcome
       \/ ask.full /\ Fail("budget")
    /\ UNCHANGED search

----------------------------------------------------------------------------
(* Component probes                                                         *)

\* A ValueError: fatal for the baseline, unless a shared record plays it.
BaseRejected == IF start = Shared THEN Goto("local") ELSE Fail("baseline")

\* Up to four proposals that keep the frontier are admitted for measurement.
Narrow(proposals) == SubSeq(proposals, 1, Min({4, Len(proposals)}))
AllAdmitted(proposals) == SelectSeq(proposals, Admits)  \* mutant: any width is compared
ComparableOnes(proposals) == SelectSeq(proposals, LAMBDA p : Admits(p) /\ Width[p] = Width[start])

ProbeBase ==
    /\ pc = "probe" /\ timed = {}
    /\ \/ /\ clock >= 1 /\ BaseRejected
          /\ UNCHANGED search
       \/ /\ clock = 0 /\ start = Shared /\ (ask.record = "bad" \/ Deaths) /\ Fail("shared")
          /\ UNCHANGED search
       \/ /\ clock = 0 /\ ~(start = Shared /\ ask.record = "bad")
          /\ \E cohort \in Work : timed' = {Sample(start, 0, cohort)}
          /\ queue' = IF start = Shared THEN <<>> ELSE ComparableOnes(Narrow(Coarse))
          /\ Goto("probes")
          /\ UNCHANGED <<steps, seen, round, winner, reason, skipped>>
       \/ /\ clock = 0 /\ BaseRejected
          /\ UNCHANGED search

Probe ==
    /\ pc = "probes" /\ queue # <<>> /\ clock = 0
    /\ \/ \E cohort \in Work : timed' = timed \cup {Sample(Head(queue), 0, cohort)}
       \/ UNCHANGED timed
    /\ queue' = Tail(queue)
    /\ Goto("probes")
    /\ UNCHANGED <<steps, seen, round, winner, reason, skipped>>

\* A rank of the session dies or is late while a challenger is measured.
ProbeDies ==
    /\ pc = "probes" /\ queue # <<>> /\ clock = 0 /\ session = "components"
    /\ Deaths /\ Fail("challenger")
    /\ UNCHANGED search

GiveUp(profiles, why) == skipped \cup {[env |-> p, round |-> round, why |-> why] : p \in profiles}

ProbesCut ==
    /\ pc = "probes" /\ queue # <<>> /\ clock >= 1
    /\ skipped' = GiveUp(Range(queue), "clock") /\ queue' = <<>>
    /\ Goto("probes")
    /\ UNCHANGED <<timed, steps, seen, round, winner, reason>>

\* An unstable baseline is measured once more, and the new cohort replaces it.
AddRetry(cohort) == timed \cup {Sample(start, 0, cohort)}  \* mutant: both cohorts count
Replaced(cohort) == {s \in timed : s.env # start} \cup {Sample(start, 0, cohort)}

Retry ==
    /\ pc = "probes" /\ queue = <<>> /\ ~Stable(Of(timed, start).time)
    /\ \/ /\ clock = 0
          /\ \E cohort \in Work \ {Unstable} : timed' = Replaced(cohort)
          /\ Goto("probes")
       \/ /\ BaseRejected
          /\ UNCHANGED timed
    /\ UNCHANGED <<queue, steps, seen, round, winner, reason, skipped>>

Receipt(best) ==
    [env |-> best.env, plan |-> best.plan, full |-> ask.full,
     grid |-> \A s \in skipped : s.why # "failure", uncut |-> \A s \in skipped : s.why # "clock"]

\* The planner is closed before anything else runs; the model is verified.
KeepPlanner == session               \* mutant: the planner stays for later admissions
Closed == "none"

ChooseUnverified ==                  \* mutant: the files are not verified again
    /\ pc = "probes" /\ queue = <<>> /\ Stable(Of(timed, start).time)
    /\ \E best \in Select(timed, Of(timed, start)) :
        IF ask.full
        THEN /\ pc' = "shortlist" /\ session' = Closed
             /\ UNCHANGED start /\ UNCHANGED world /\ UNCHANGED outcome /\ UNCHANGED search
        ELSE /\ Return([env |-> best.env, plan |-> best.plan, hit |-> FALSE, kind |-> "components"])
             /\ cache' = IF ask.cacheable THEN Receipt(best) ELSE cache
             /\ UNCHANGED search

Choose ==
    /\ pc = "probes" /\ queue = <<>> /\ Stable(Of(timed, start).time)
    /\ \E best \in Select(timed, Of(timed, start)) :
        IF ~intact THEN Fail("model") /\ UNCHANGED search
        ELSE IF ask.full
        THEN /\ pc' = "shortlist" /\ session' = Closed
             /\ UNCHANGED start /\ UNCHANGED world /\ UNCHANGED outcome /\ UNCHANGED search
        ELSE /\ Return([env |-> best.env, plan |-> best.plan, hit |-> FALSE, kind |-> "components"])
             /\ cache' = IF ask.cacheable THEN Receipt(best) ELSE cache
             /\ UNCHANGED search

----------------------------------------------------------------------------
(* Complete steps: the coarse comparison, then rounds around the winner     *)

\* Component timings only propose: some of the measured profiles, best first.
Shortlists(samples, count) ==
    {q \in [1..Min({count, Cardinality(samples)}) -> {s.env : s \in samples}] : IsInjective(q)}

Shortlist ==
    /\ pc = "shortlist"
    /\ \/ /\ ask.grow \/ clock < 2
          /\ \E count \in 1..2 : \E challengers \in Shortlists({s \in timed : s.env # Base}, count) :
                queue' = <<Base>> \o challengers
          /\ Goto("steps")
       \/ /\ ~ask.grow /\ Fail("frontier")
          /\ UNCHANGED queue
    /\ UNCHANGED <<timed, steps, seen, round, winner, reason, skipped>>

\* A complete step of every rank, accepted only with the model as prepared.
StepTaken ==                             \* mutant: the files are not verified
    /\ \E cohort \in Steps : steps' = steps \cup {Sample(Head(queue), round, cohort)}
    /\ queue' = Tail(queue) /\ Goto(pc)
StepMeasured ==
    IF intact
    THEN /\ \E cohort \in Steps : steps' = steps \cup {Sample(Head(queue), round, cohort)}
         /\ queue' = Tail(queue) /\ Goto(pc)
    ELSE Fail("model") /\ UNCHANGED <<steps, queue>>

FirstStep ==
    /\ pc = "steps" /\ queue # <<>>
    /\ IF Width[Head(queue)] # Width[Base]
       THEN Fail("challenger") /\ UNCHANGED <<steps, queue>>
       ELSE clock < 2 /\ StepMeasured
    /\ UNCHANGED <<timed, seen, round, winner, reason, skipped>>

\* A failed baseline ends the tuning, a failed challenger only the comparison.
RaiseAlways == Fail("challenger") /\ UNCHANGED <<queue, reason, skipped>>  \* mutant: like the baseline
KeepBaseline ==
    /\ reason' = IF clock = 2 THEN "time_budget" ELSE "coarse_measurement_failed"
    /\ skipped' = GiveUp({Head(queue)}, "failure") /\ queue' = <<>>
    /\ Goto("steps")

FirstStepFails ==
    /\ pc = "steps" /\ queue # <<>> /\ Width[Head(queue)] = Width[Base]
    /\ IF Head(queue) = Base THEN Fail("baseline") /\ UNCHANGED <<queue, reason, skipped>>
       ELSE KeepBaseline
    /\ UNCHANGED <<timed, steps, seen, round, winner>>

ProbedWinner ==                          \* mutant: the winner of the probes is kept
    /\ pc = "steps" /\ queue = <<>>
    /\ winner' \in Select(timed, Of(timed, Base)) /\ seen' = {s.env : s \in timed}
    /\ Goto("propose")
    /\ UNCHANGED <<queue, timed, steps, round, reason, skipped>>
FirstWinner ==
    /\ pc = "steps" /\ queue = <<>>
    /\ IF Stable(Of(steps, Base).time)
       THEN /\ winner' \in Select(steps, Of(steps, Base))
            /\ reason' = IF winner'.env = Base /\ reason = "none" THEN "no_gain" ELSE reason
            /\ seen' = {s.env : s \in timed}
            /\ Goto("propose")
       ELSE Fail("baseline") /\ UNCHANGED <<winner, reason, seen>>
    /\ UNCHANGED <<queue, timed, steps, round, skipped>>

\* Neighbours whose setting was not tried before, in this or an earlier round.
AllNeighbours(r) == Neighbours[r]         \* mutant: settings are proposed again
Unseen(r) == SelectSeq(Neighbours[r], LAMBDA p : p \notin seen)

Propose ==
    /\ pc = "propose"
    /\ IF reason = "none" /\ round < MaxRounds
       THEN /\ round' = round + 1 /\ queue' = Unseen(round + 1)
            /\ Goto("fine") /\ UNCHANGED reason
       ELSE /\ reason' = IF reason = "none" THEN "round_limit" ELSE reason
            /\ Goto("finish") /\ UNCHANGED <<round, queue>>
    /\ UNCHANGED <<timed, steps, seen, winner, skipped>>

OutOfTime ==
    /\ pc \in {"fine", "round"} /\ queue # <<>> /\ clock = 2
    /\ reason' = "time_budget" /\ skipped' = GiveUp(Range(queue), "clock") /\ queue' = <<>>
    /\ Goto(pc)
    /\ UNCHANGED <<timed, steps, seen, round, winner>>

FineAdmit ==
    /\ pc = "fine" /\ queue # <<>> /\ clock < 2
    /\ seen' = seen \cup {Head(queue)}
    /\ IF Admitted(Head(queue)) THEN Goto("refine") /\ UNCHANGED queue
       ELSE Goto("fine") /\ queue' = Tail(queue)
    /\ UNCHANGED <<timed, steps, round, winner, reason, skipped>>

FineAgain ==                             \* mutant: a failed probe is repeated
    /\ pc = "refine"
    /\ \/ /\ clock < 2
          /\ \E cohort \in Work : timed' = timed \cup {Sample(Head(queue), round, cohort)}
          /\ queue' = Tail(queue) /\ Goto("fine")
       \/ /\ clock = 2 /\ Goto("refine") /\ UNCHANGED <<timed, queue>>
    /\ UNCHANGED <<steps, seen, round, winner, reason, skipped>>

\* The budget may have run out since the admission; like a failed probe that
\* is a ValueError, recorded as a rejected proposal.
FineProbe ==
    /\ pc = "refine"
    /\ \/ /\ clock < 2
          /\ \E cohort \in Work : timed' = timed \cup {Sample(Head(queue), round, cohort)}
          /\ UNCHANGED skipped
       \/ /\ skipped' = IF clock = 2 THEN GiveUp({Head(queue)}, "clock") ELSE skipped
          /\ UNCHANGED timed
    /\ queue' = Tail(queue)
    /\ Goto("fine")
    /\ UNCHANGED <<steps, seen, round, winner, reason>>

FineShortlist ==
    /\ pc = "fine" /\ queue = <<>>
    /\ queue' \in Shortlists({s \in timed : s.round = round}, FullPerRound)
    /\ Goto("round")
    /\ UNCHANGED <<timed, steps, seen, round, winner, reason, skipped>>

RoundStep ==
    /\ pc = "round" /\ queue # <<>> /\ clock < 2
    /\ \/ StepMeasured
       \/ queue' = Tail(queue) /\ Goto("round") /\ UNCHANGED steps
    /\ UNCHANGED <<timed, seen, round, winner, reason, skipped>>

LastRound == {s \in steps : s.round = round \/ s.env = Base}  \* mutant: earlier rounds are forgotten
AllSteps == steps

RoundWinner ==
    /\ pc = "round" /\ queue = <<>>
    /\ winner' \in Select(AllSteps, Of(steps, Base))
    /\ LET probed == \E s \in timed : s.round = round
           stepped == \E s \in steps : s.round = round
       IN  reason' = CASE reason # "none" -> reason
                       [] reason = "none" /\ probed /\ ~stepped -> "no_valid_neighbours"
                       [] reason = "none" /\ ~probed -> "no_new_neighbours"
                       [] OTHER -> IF winner \in Select(steps, winner) THEN "no_gain" ELSE "none"
    /\ Goto("propose")
    /\ UNCHANGED <<queue, timed, steps, seen, round, skipped>>

Complete == {"round_limit", "no_new_neighbours", "no_gain"}
AnyReceipt == TRUE                       \* mutant: a receipt is written without the tests
ValidReceipt == reason \in Complete

Finish ==
    /\ pc = "finish"
    /\ Return([env |-> winner.env, plan |-> winner.plan, hit |-> FALSE, kind |-> "steps"])
    /\ cache' = IF ask.cacheable /\ ValidReceipt THEN Receipt(winner) ELSE cache
    /\ UNCHANGED search

----------------------------------------------------------------------------
\* The environment: time passes, and someone may replace the model's files.
Running == pc \notin {"idle", "done", "failed"}

Tick ==
    /\ Running /\ clock < 2 /\ clock' = clock + 1
    /\ UNCHANGED <<pc, call, ask, session, memory, intact, start>>
    /\ UNCHANGED search /\ UNCHANGED outcome

ModelChanges ==
    /\ Running /\ intact /\ intact' = FALSE
    /\ UNCHANGED <<pc, call, ask, session, clock, memory, start>>
    /\ UNCHANGED search /\ UNCHANGED outcome

Tune ==
    \/ Begin \/ Enter \/ Hit \/ Miss \/ TryShared \/ FallBack \/ Budget
    \/ ProbeBase \/ Probe \/ ProbeDies \/ ProbesCut \/ Retry \/ Choose
    \/ Shortlist \/ FirstStep \/ FirstStepFails \/ FirstWinner \/ Propose \/ OutOfTime
    \/ FineAdmit \/ FineProbe \/ FineShortlist \/ RoundStep \/ RoundWinner \/ Finish

Next == Tune \/ Tick \/ ModelChanges

\* The tuner runs; nothing makes time pass or files change.
Spec == Init /\ [][Next]_vars /\ WF_vars(Tune)

----------------------------------------------------------------------------
(* Properties                                                               *)

\* Types, and what a winner is: a stable complete step of this very tuning.
TypeOK ==
    /\ session \in {"components", "planner", "none"} /\ clock \in 0..2 /\ round \in 0..MaxRounds
    /\ queue \in Seq(Profiles) /\ seen \subseteq Profiles
    /\ \A s \in timed \cup steps : s.env \in Profiles /\ s.round \in 0..MaxRounds
    /\ winner # NoProfile => winner \in steps /\ Stable(winner.time)

\* Probes and complete steps run in processes of their own, which must find the
\* memory of every GPU free: the planner never lives beside them.
\* (component_autotune.py:60-62, pipeline_autotune.py:158)
ProbedAlone ==
    /\ pc \in {"probe", "probes"} => session # "planner"
    /\ pc \in {"steps", "fine", "refine", "round"} => session = "none"

\* Timings are compared only for the frontier that was asked for; another width
\* of one challenger would make it faster by doing less. (component_autotune.py:124)
Comparable == \A s \in timed \cup steps : s.width = Beam

\* No setting is measured twice under two names, and a repeated cohort replaces
\* the unstable one instead of joining it. (:195, pipeline_autotune.py:203-217)
EvidenceOnce ==
    \A samples \in {timed, steps} : \A s, t \in samples : s.env = t.env => s = t

\* An optional challenger cannot cost the search its accepted baseline, however
\* it fails. (pipeline_autotune.py:189)
ChallengersOptional == cause # "challenger"

\* A shared record only proposes; local calibration goes on without it.
\* (shared_profiles.py:69)
SharedOnlyProposes == cause # "shared"

\* A profile is answered only with the plan it was measured under and that the
\* GPUs admit now, also when a receipt of an earlier tuning is reused.
\* (pipeline_cache.py:86-100)
AnsweredAsAdmitted ==
    pc = "done" => /\ Admits(result.env) /\ result.plan = Plan(result.env)
                   /\ Width[result.env] = Beam

\* What is answered was measured with the files that had been verified.
\* (pipeline_autotune.py:48, 160)
MeasuredModel ==
    pc = "done" /\ ~result.hit =>
        \A s \in (IF ask.full THEN steps ELSE timed) : s.model

\* No stable sample is separated from the chosen one.
Unbeaten(samples, chosen) == \A s \in samples : ~Separated(s.time, chosen.time)

\* No profile that was measured in full is separated from the answer: later
\* rounds count, and the answer is not just the first that beat the baseline.
\* (calibration_stats.py:90-94, pipeline_autotune.py:240)
FastestAnswered == pc = "done" /\ ~result.hit /\ ask.full => Unbeaten(steps, winner)

\* A reusable receipt of complete steps never stems from a comparison that a
\* failing challenger cut short. (pipeline_cache.py:65-76)
CachedComparison == cache.full => cache.grid

\* A search that the clock cut short leaves no reusable receipt: the receipt says
\* that nothing was left to try. (tests/test_pipeline_cache.py:130)
CachedUncut == cache.full => cache.uncut

\* Every tuning comes to an end, with or without an answer.
TuningEnds == pc = "enter" ~> pc \in {"done", "failed"}

=============================================================================
