----------------------------- MODULE MCDepthSizes -----------------------------
(***************************************************************************)
(* Other depths than the core instance, and what follows a depth.           *)
(*  - Two depths in a row with a threshold update after every job; one      *)
(*    Stream 4 slot and a beam of four; all candidates in one of four       *)
(*    shards, in batches above the write reserve.                           *)
(*  - Three ranks that deal out the kept candidates at the end ("deal").    *)
(*  - The history of four depths, with every storage mode ("history").      *)
(*  - One block of the scatter kernel, warp by warp ("scatter").            *)
(* `part` says which one a behaviour has: they share no state.              *)
(***************************************************************************)
EXTENDS MCDepthPipeline, Stream3Scatter

VARIABLES
    part,
    \* of FrontierExchange and CandidateHistory
    round, less, equal, items, work, sending, slot, records, responses, history, next, frontier,
    mode, waiting, committed, stored, places, ram, disk, ramUsed, diskFailed

Sizes == {"two", "tight", "skew"}
Sized(i) == INSTANCE DepthPipeline WITH
    Shard <- IF i = "skew" THEN FourShards ELSE MCShard,
    ShardOf <- IF i = "skew" THEN AllInX ELSE MCShardOf,
    BeamWidth <- CASE i = "two" -> 2 [] i = "tight" -> 4 [] OTHER -> 5,
    Batches <- CASE i = "two" -> TwoDepths [] i = "tight" -> FiveLoads [] OTHER -> TwoFullLoads,
    GoalBatches <- NoGoal,
    SlotCount <- IF i = "tight" THEN 1 ELSE 2,
    Capacity <- IF i = "skew" THEN 7 ELSE 4,
    BatchSize <- IF i = "skew" THEN 4 ELSE 2,
    Trigger <- CASE i = "two" -> 2 [] i = "tight" -> 3 [] OTHER -> 5,
    Period <- 1

\* Three ranks, 0 to 2 candidates of each below the threshold and 0, 3 or 8 at it:
\* up to four rounds of two candidates, the slots are used again in the fourth.
\* Many parents are on rank 0: a rank may get more requests than it has room for.
ThreeRanks == 0..2
MCSource == [r \in ThreeRanks |-> <<0, 0, (r + 1) % 3, 2, r, (r + 2) % 3, 1, r, 0, 1>>]
Deal == INSTANCE FrontierExchange WITH
    Rank <- ThreeRanks, Source <- MCSource, MayBeLess <- {0, 2}, MayBeEqual <- {0, 3, 8},
    BeamWidth <- 7, Chunk <- 2, Capacity <- 4

\* Three entries a depth at most; three depths fit on disk, one is left to RAM,
\* and one that failed can follow it there.
MCFrontiers == {<<0, 0, 0>>, <<2, 0>>, <<1>>, <<1, 1, 0>>}
History == INSTANCE CandidateHistory WITH
    Mode <- {"ram", "disk", "hybrid"}, Frontiers <- MCFrontiers, DepthLimit <- 4,
    Slot <- {1, 2}, Workers <- 2, Beam <- 3, Moves <- 3, RamEntries <- 6, DiskEntries <- 9

ASSUME Deal!FrontierAssumption /\ History!HistoryAssumption

\* The variables of the parts that are not there.
None == "absent"
ringVarsOnly == <<returnTo, depth, progressed, ringsCompleted, stopRequested, ringState,
    ringLoad, logicalRunning, seenUsed, flushRound, stopFlag, ringDone, s3batch, slotPhase,
    slotBank, admission>>
NoRings ==
    /\ returnTo = None /\ depth = None /\ progressed = None /\ ringsCompleted = None
    /\ stopRequested = None /\ ringState = None /\ ringLoad = None /\ logicalRunning = None
    /\ seenUsed = None /\ flushRound = None /\ stopFlag = None /\ ringDone = None
    /\ s3batch = None /\ slotPhase = None /\ slotBank = None /\ admission = None
bankVarsOnly == <<cursor, pending, s3phase, fatal, clean, processing, writeIdx, hist, threshold,
    initialized, offered, beam>>
NoBanks ==
    /\ cursor = None /\ pending = None /\ s3phase = None /\ fatal = None /\ clean = None
    /\ processing = None /\ writeIdx = None /\ hist = None /\ threshold = None
    /\ initialized = None /\ offered = None /\ beam = None
sharedWithHistory == <<jobs, ready, dirty>>
NoneShared == jobs = None /\ ready = None /\ dirty = None
dealVarsOnly == <<round, less, equal, items, work, sending, records, responses, history, next, frontier>>
NoDeal ==
    /\ round = None /\ less = None /\ equal = None /\ items = None /\ work = None /\ sending = None
    /\ records = None /\ responses = None /\ history = None /\ next = None /\ frontier = None
historyVarsOnly == <<mode, waiting, committed, stored, places, ram, disk, ramUsed, diskFailed>>
NoHistory ==
    /\ mode = None /\ waiting = None /\ committed = None /\ stored = None /\ places = None
    /\ ram = None /\ disk = None /\ ramUsed = None /\ diskFailed = None

allVars == <<part, vars, slot, dealVarsOnly, historyVarsOnly, scatterVars>>

\* Where the block is not the subject, it is never launched.
SizesInit ==
    /\ ScatterInit
    /\ \/ /\ \E i \in Sizes : part = i /\ Sized(i)!Init
          /\ slot = None /\ NoDeal /\ NoHistory
       \/ /\ part = "deal" /\ Deal!Init
          /\ NoRings /\ NoBanks /\ NoneShared /\ NoHistory
       \/ /\ part = "history" /\ History!Init
          /\ NoRings /\ NoBanks /\ NoDeal
       \/ /\ part = "scatter" /\ pc = None
          /\ NoRings /\ NoBanks /\ NoneShared /\ slot = None /\ NoDeal /\ NoHistory
DepthStep ==
    \/ /\ \E i \in Sizes : part = i /\ Sized(i)!Next
       /\ UNCHANGED <<slot, dealVarsOnly, historyVarsOnly>>
    \/ /\ part = "deal" /\ Deal!Next
       /\ UNCHANGED <<ringVarsOnly, bankVarsOnly, sharedWithHistory, historyVarsOnly>>
    \/ /\ part = "history" /\ History!Next
       /\ UNCHANGED <<ringVarsOnly, bankVarsOnly, dealVarsOnly>>
SizesNext ==
    /\ UNCHANGED part
    /\ \/ DepthStep /\ UNCHANGED scatterVars
       \/ /\ part = "scatter" /\ ScatterNext
          /\ UNCHANGED <<vars, slot, dealVarsOnly, historyVarsOnly>>
SizesSpec == SizesInit /\ [][SizesNext]_allVars

\* Whatever the sizes, every finished depth yields a correct beam of what it
\* generated, and nothing of a depth leaks into the next one (dispatcher.cu:5392).
SizesImplementBeamDepth ==
    /\ \A i \in Sizes : part = i => Sized(i)!Depths!Init
    /\ [][\A i \in Sizes : part = i =>
              Sized(i)!Depths!Next \/ UNCHANGED Sized(i)!Depths!abstractVars]_allVars

\* What a depth leaves behind is whole: every rank has its even share of the kept
\* candidates, with their records and their states (dispatcher.cu:5079), and the
\* stored history leads back to where they came from, however it was written,
\* moved and renumbered (candidate_history.hpp:454, 493).
DepthHandedOn ==
    /\ part = "deal" => Deal!FrontierComplete
    /\ part = "history" => History!HistoryKept
===============================================================================
