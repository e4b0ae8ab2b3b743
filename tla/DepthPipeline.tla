---------------------------- MODULE DepthPipeline ----------------------------
(***************************************************************************)
(* One rank expanding the depths of a search with resident CUDA graphs:     *)
(* run_depth_cuda_graphs followed by finalize_depth_single_gpu, with the    *)
(* kernels of Stream 1/2 (expand, score, hash), Stream 3 (threshold, dedup, *)
(* partition into shard banks), Stream 4 (sort and prune one bank) and      *)
(* Stream 5 (threshold update) it schedules.                                *)
(*                                                                         *)
(* The host scheduler is one process whose position is `pc`; the streams    *)
(* run beside it and hand work back through events (`ringDone`, `s3phase`,  *)
(* `slotPhase`) and through device counters the host copies when it needs   *)
(* them.  A logical shard has two banks, A and B (SHARD_BUFFER_COUNT = 2).  *)
(***************************************************************************)
EXTENDS Candidates, Sequences

CONSTANTS
    Batches,       \* Batches[d][i]: what the i-th ring load of depth d generates
    GoalBatches,   \* the pairs <<d, i>> whose Stream 2 raises the stop flag
    RingCount, SlotCount,
    Capacity,      \* SHARD_CAPACITY_CANDIDATES, of one bank
    BatchSize,     \* STREAM3_BATCH_CANDIDATES
    Trigger,       \* STREAM4_TRIGGER_CANDIDATES
    Period         \* GLOBAL_THRESHOLD_UPDATE_PERIOD_SHARDS

ASSUME BatchesAssumption ==
    /\ Batches \in Seq(Seq(SUBSET Cand)) /\ Len(Batches) > 0
    /\ \A d \in 1..Len(Batches) : \A i \in 1..Len(Batches[d]) :
         Cardinality(Batches[d][i]) <= BatchSize

ASSUME SizesAssumption ==
    /\ RingCount \in Nat \ {0} /\ SlotCount \in Nat \ {0}
    /\ Capacity \in Nat \ {0} /\ BatchSize \in Nat \ {0}
    /\ Trigger \in Nat \ {0} /\ Period \in Nat
    /\ BatchSize <= Capacity /\ Trigger <= Capacity

Bank == Shard \X {0, 1}
NoBank == <<>>
Sibling(p) == <<p[1], 1 - p[2]>>
Ring == 1..RingCount
Slot == 1..SlotCount
NoRing == 0

VARIABLES
    \* the host scheduler
    pc,             \* where run_depth_cuda_graphs stands
    returnTo,       \* where a drain of Stream 4 returns to
    depth, cursor,  \* the depth, and the next ring load of it
    progressed,     \* the loop's flag of the same name
    ringsCompleted, \* the loop's flag of the same name
    stopRequested, ringState, ringLoad,
    pending,        \* pending_stream4_shards, whose entries carry the queued flag
    logicalRunning, \* the bank a logical shard runs in Stream 4, as the host knows
    jobs,           \* stream4_jobs_since_threshold_update, saturated at Period
    seenUsed,       \* the clean, then clean + dirty counts copied to the host
    flushRound,
    \* the device
    stopFlag, fatal, ringDone, s3phase, s3batch,
    clean, dirty, processing, writeIdx, ready,
    slotPhase, slotBank, hist, threshold, initialized,
    \* results and history
    beam,           \* the frontier the last finished depth produced
    offered,        \* candidates Stream 3 has taken from the rings in this depth
    admission       \* how the Stream 3 job in flight was let through

hostVars == <<pc, returnTo, depth, cursor, progressed, ringsCompleted,
              stopRequested, flushRound, seenUsed, admission>>
ringVars == <<ringState, ringLoad, ringDone, stopFlag>>
queueVars == <<pending, logicalRunning, jobs>>
slotVars == <<slotPhase, slotBank>>
s3Vars == <<s3phase, s3batch, offered, fatal>>
bankVars == <<clean, dirty, processing, writeIdx, ready, hist>>
thresholdVars == <<threshold, initialized>>
vars == <<hostVars, ringVars, queueVars, slotVars, s3Vars, bankVars,
          thresholdVars, beam>>

Loads == Len(Batches[depth])
Load(r) == Batches[depth][ringLoad[r]]
-----------------------------------------------------------------------------
(* Bank occupancy and the choices made from it.                            *)

CeilDiv(m, n) == (m + n - 1) \div n

AverageWrite == CeilDiv(BatchSize, Cardinality(Shard))
WriteReserve == Smaller(AverageWrite + CeilDiv(AverageWrite, 4), Capacity)

Used(p) == Cardinality(clean[p]) + Cardinality(dirty[p])

Available(p) == IF ~processing[p] /\ Used(p) < Capacity
                THEN Capacity - Used(p) ELSE 0

\* The bank Stream 3 appends `raw` candidates of shard l to: the current one if
\* they fit, else its sibling if they fit, else the emptier of the two.
WriteBank(l, raw) ==
    LET cur == <<l, writeIdx[l]>>
        sib == Sibling(cur)
    IN IF \/ Available(cur) >= raw
          \/ Available(sib) < raw /\ Available(sib) <= Available(cur)
       THEN cur ELSE sib

DirtyReady(p, force) ==
    /\ dirty[p] # {}
    /\ \/ force
       \/ Cardinality(dirty[p]) >= Trigger
       \/ Used(p) >= Capacity - WriteReserve

CleanReady(p, force) ==
    /\ dirty[p] = {} /\ clean[p] # {}
    /\ force \/ Cardinality(clean[p]) >= Capacity - WriteReserve

\* Of two ready banks: a dirty one first, then the one that leaves more room in
\* its sibling, then the one Stream 3 is not writing to.
Preferred(p, q, force) ==
    \/ DirtyReady(p, force) /\ ~DirtyReady(q, force)
    \/ /\ DirtyReady(p, force) = DirtyReady(q, force)
       /\ \/ Available(q) > Available(p)
          \/ Available(q) = Available(p) /\ writeIdx[p[1]] # p[2]

IsReady(p, force) == DirtyReady(p, force) \/ CleanReady(p, force)

SelectedReadyIgnoringSibling(force) ==
    {p \in Bank :
        /\ ~processing[p] /\ IsReady(p, force)
        /\ IsReady(Sibling(p), force) => Preferred(p, Sibling(p), force)}

SelectedReady(force) ==
    {p \in Bank :
        /\ ~processing[p] /\ ~processing[Sibling(p)]
        /\ IsReady(p, force)
        /\ IsReady(Sibling(p), force) => Preferred(p, Sibling(p), force)}

\* stream3_build_ready_shard_queue: hand the selected banks to Stream 4 and
\* point Stream 3 at their siblings where those have room.
BuildReadyQueue(force) ==
    LET sel == SelectedReady(force)
        Turn(p) == p \in sel /\ Used(Sibling(p)) < Capacity
    IN /\ processing' = [p \in Bank |-> processing[p] \/ p \in sel]
       /\ writeIdx' = [l \in Shard |-> IF Turn(<<l, 0>>) THEN 1
                                       ELSE IF Turn(<<l, 1>>) THEN 0
                                       ELSE writeIdx[l]]
       /\ ready' = sel
-----------------------------------------------------------------------------
(* Scheduler state read by the host's guards.                              *)

FreeSlots == {s \in Slot : slotBank[s] = NoBank}
BusySlots == Slot \ FreeSlots
DoneSlots == {s \in Slot : slotPhase[s] = "done"}

RingsIn(state) == {r \in Ring : ringState[r] = state}
Oldest(R) == CHOOSE r \in R : \A q \in R : ringLoad[r] <= ringLoad[q]

Stream3Active == s3phase # "idle"
\* The counter is only compared with 0 and Period: it stops counting there.
JobsBound == IF Period = 0 THEN 1 ELSE Period
PeriodicUpdateDue == Period # 0 /\ jobs >= Period

MoreToDoForgettingStream4 ==
    (~stopRequested /\ cursor <= Loads) \/ RingsIn("free") # Ring \/ Stream3Active

MoreToDo ==
    \/ ~stopRequested /\ cursor <= Loads
    \/ RingsIn("free") # Ring
    \/ Stream3Active
    \/ BusySlots # {}

LaunchableWhileRunning == pending

\* take_launchable_pending_stream4_shard: entries whose logical shard is idle.
Launchable == {p \in pending : logicalRunning[p[1]] = NoBank}

\* mark_stream4_slot_complete for every slot whose event has fired.
ReleaseDoneSlots ==
    /\ slotBank' = [s \in Slot |-> IF s \in DoneSlots THEN NoBank ELSE slotBank[s]]
    /\ slotPhase' = [s \in Slot |-> IF s \in DoneSlots THEN "free" ELSE slotPhase[s]]
    /\ logicalRunning' = [l \in Shard |->
         IF \E s \in DoneSlots : slotBank[s][1] = l THEN NoBank
         ELSE logicalRunning[l]]
    /\ jobs' = Smaller(jobs + Cardinality(DoneSlots), JobsBound)

\* Its throw: the completed bank is not the one its logical shard is running.
CompletionMismatch ==
    \E s \in DoneSlots : logicalRunning[slotBank[s][1]] # slotBank[s]

\* launch_stream4_shard_on_slot
LaunchStream4(p) ==
    \E s \in FreeSlots :
        /\ slotBank' = [slotBank EXCEPT ![s] = p]
        /\ slotPhase' = [slotPhase EXCEPT ![s] = "running"]
        /\ logicalRunning' = [logicalRunning EXCEPT ![p[1]] = p]
        /\ pending' = pending \ {p}

AppendWithoutConsuming(newReady) == pending' = pending \cup newReady /\ UNCHANGED ready

\* append_stream3_ready_queue: take the device's list and empty it; an entry
\* already queued is dropped.
AppendReadyQueue(newReady) == pending' = pending \cup newReady /\ ready' = {}

RingNotReturned == ringState

\* Stream 3 gives the ring it read back to Streams 1 and 2.
RingReturned == [r \in Ring |->
    IF ringState[r] = "stream3" THEN "free" ELSE ringState[r]]

\* complete_stream3_ring, after the fatal check.
CompleteStream3 ==
    /\ s3phase' = "idle"
    /\ ringState' = RingReturned
    /\ IF stopRequested THEN UNCHANGED <<pending, ready>>
       ELSE AppendReadyQueue(ready)
    /\ UNCHANGED <<s3batch, offered, fatal>>

\* release_completed_rings_nonblocking
ReadyRings == [r \in Ring |->
    IF ringState[r] = "stream1" /\ ringDone[r] THEN "ready" ELSE ringState[r]]

\* discard_ready_rings_after_stop
DiscardReady(states) == [r \in Ring |->
    IF states[r] = "ready" THEN "free" ELSE states[r]]
-----------------------------------------------------------------------------
Init ==
    /\ pc = "fill" /\ returnTo = "test" /\ depth = 1 /\ cursor = 1
    /\ progressed = FALSE /\ ringsCompleted = FALSE /\ stopRequested = FALSE
    /\ ringState = [r \in Ring |-> "free"] /\ ringLoad = [r \in Ring |-> 1]
    /\ ringDone = [r \in Ring |-> FALSE] /\ stopFlag = FALSE
    /\ pending = {} /\ logicalRunning = [l \in Shard |-> NoBank] /\ jobs = 0
    /\ slotPhase = [s \in Slot |-> "free"] /\ slotBank = [s \in Slot |-> NoBank]
    /\ seenUsed = [p \in Bank |-> 0] /\ admission = "checked" /\ flushRound = 0
    /\ s3phase = "idle" /\ s3batch = {} /\ offered = {} /\ fatal = FALSE
    /\ clean = [p \in Bank |-> {}] /\ dirty = [p \in Bank |-> {}]
    /\ hist = [p \in Bank |-> {}] /\ processing = [p \in Bank |-> FALSE]
    /\ writeIdx = [l \in Shard |-> 0] /\ ready = {}
    /\ threshold = NoThreshold /\ initialized = FALSE
    /\ beam = {}
-----------------------------------------------------------------------------
(* The host scheduler.  Each pass of the main loop of                      *)
(* run_depth_cuda_graphs goes through test, reap, rings, stream3, stop,    *)
(* update1, launch, fill, admit, update2 and idle.                         *)

LoopTest ==
    /\ pc = "test"
    /\ progressed' = FALSE
    /\ IF MoreToDo THEN pc' = "reap" /\ UNCHANGED returnTo
       ELSE IF stopRequested THEN pc' = "stopped" /\ UNCHANGED returnTo
       ELSE pc' = "drain" /\ returnTo' = "boundary"
    /\ UNCHANGED <<depth, cursor, ringsCompleted, stopRequested, flushRound,
                   seenUsed, admission, ringVars, queueVars, slotVars, s3Vars,
                   bankVars, thresholdVars, beam>>

\* release_completed_stream4_slots_nonblocking, or its throw, on the way to `next`.
ReleaseSlots(next) ==
    IF CompletionMismatch
    THEN pc' = "error" /\ UNCHANGED <<slotVars, logicalRunning, jobs>>
    ELSE ReleaseDoneSlots /\ pc' = next

ReapStream4 ==
    /\ pc = "reap"
    /\ ReleaseSlots("rings")
    /\ progressed' = (progressed \/ DoneSlots # {})
    /\ UNCHANGED <<returnTo, depth, cursor, ringsCompleted, stopRequested,
                   flushRound, seenUsed, admission, ringVars, pending, s3Vars,
                   bankVars, thresholdVars, beam>>

ReapRings ==
    /\ pc = "rings"
    /\ pc' = "stream3"
    /\ ringState' = ReadyRings
    /\ ringsCompleted' = (ReadyRings # ringState)
    /\ progressed' = (progressed \/ ringsCompleted')
    /\ UNCHANGED <<returnTo, depth, cursor, stopRequested, flushRound, seenUsed,
                   admission, ringLoad, ringDone, stopFlag, queueVars, slotVars,
                   s3Vars, bankVars, thresholdVars, beam>>

\* complete_stream3_ring on the way to `next`, or the throw of its fatal check.
FinishStream3(next) ==
    IF fatal THEN pc' = "failed" /\ UNCHANGED <<ringState, pending, ready, s3Vars>>
    ELSE CompleteStream3 /\ pc' = next

ReapStream3 ==
    /\ pc = "stream3"
    /\ IF s3phase = "done"
       THEN FinishStream3("stop") /\ progressed' = TRUE
       ELSE pc' = "stop" /\ UNCHANGED <<progressed, ringState, pending, ready, s3Vars>>
    /\ UNCHANGED <<returnTo, depth, cursor, ringsCompleted, stopRequested,
                   flushRound, seenUsed, admission, ringLoad, ringDone, stopFlag,
                   logicalRunning, jobs, slotVars, clean, dirty, processing,
                   writeIdx, hist, thresholdVars, beam>>

HaltsOnlyWithRings == ringsCompleted /\ stopRequested'

\* A requested stop ends the pass, whether or not rings completed in it.
Halts == stopRequested'

CheckStop ==
    /\ pc = "stop"
    /\ stopRequested' = (stopRequested \/ (ringsCompleted /\ stopFlag))
    /\ IF ringsCompleted /\ stopRequested'
       THEN /\ ringState' = DiscardReady(ringState)
            /\ progressed' = (progressed \/ RingsIn("ready") # {})
       ELSE UNCHANGED <<ringState, progressed>>
    /\ ringsCompleted' = FALSE
    /\ pc' = IF Halts THEN "halting" ELSE "update1"
    /\ UNCHANGED <<returnTo, depth, cursor, flushRound, seenUsed, admission, ringLoad,
                   ringDone, stopFlag, queueVars, slotVars, s3Vars, bankVars,
                   thresholdVars, beam>>

\* maybe_update_threshold, before Stream 4 is fed and again at the end of a pass.
MaybeUpdate(here, next) ==
    /\ pc = here
    /\ IF PeriodicUpdateDue /\ ~Stream3Active
       THEN pc' = "drain" /\ returnTo' = here /\ progressed' = TRUE
       ELSE /\ pc' = next
            /\ returnTo' = IF next = "launch" THEN "fill" ELSE returnTo
            /\ UNCHANGED progressed
    /\ UNCHANGED <<depth, cursor, ringsCompleted, stopRequested, flushRound,
                   seenUsed, admission, ringVars, queueVars, slotVars, s3Vars,
                   bankVars, thresholdVars, beam>>

UpdateBefore == MaybeUpdate("update1", "launch")
UpdateAfter == MaybeUpdate("update2", "idle")

\* launch_pending_stream4_shards: release what is done, then launch while a slot
\* is free and an entry launchable.
LaunchRelease ==
    /\ pc = "launch"
    /\ ReleaseSlots("launching")
    /\ UNCHANGED <<returnTo, depth, cursor, progressed, ringsCompleted,
                   stopRequested, flushRound, seenUsed, admission, ringVars, pending,
                   s3Vars, bankVars, thresholdVars, beam>>

LaunchPending ==
    /\ pc = "launching"
    /\ IF FreeSlots # {} /\ Launchable # {}
       THEN /\ \E p \in Launchable : LaunchStream4(p)
            /\ progressed' = TRUE
            /\ UNCHANGED pc
       ELSE pc' = returnTo /\ UNCHANGED <<slotVars, logicalRunning, pending, progressed>>
    /\ UNCHANGED <<returnTo, depth, cursor, ringsCompleted, stopRequested,
                   flushRound, seenUsed, admission, ringVars, jobs, s3Vars, bankVars,
                   thresholdVars, beam>>

\* launch_free_rings, one ring at a time; also what runs before the loop.
FillRings ==
    /\ pc = "fill"
    /\ IF ~stopRequested /\ RingsIn("free") # {} /\ cursor <= Loads
       THEN LET r == CHOOSE x \in RingsIn("free") : \A y \in RingsIn("free") : x <= y
            IN /\ ringState' = [ringState EXCEPT ![r] = "stream1"]
               /\ ringLoad' = [ringLoad EXCEPT ![r] = cursor]
               /\ ringDone' = [ringDone EXCEPT ![r] = FALSE]
               /\ cursor' = cursor + 1
               /\ progressed' = TRUE
               /\ UNCHANGED pc
       ELSE /\ pc' = IF returnTo = "test" THEN "test" ELSE "admit"
            /\ UNCHANGED <<ringState, ringLoad, ringDone, cursor, progressed>>
    /\ UNCHANGED <<returnTo, depth, ringsCompleted, stopRequested, flushRound,
                   seenUsed, admission, stopFlag, queueVars, slotVars, s3Vars,
                   bankVars, thresholdVars, beam>>

\* try_launch_stream3.  stream3_has_writable_buffer copies clean_count,
\* dirty_count and processing_flag one after the other, and Stream 4 does not
\* wait for the host between them.
CopyCleanCounts ==
    /\ pc = "admit"
    /\ IF Stream3Active \/ RingsIn("ready") = {}
       THEN pc' = "update2" /\ UNCHANGED seenUsed
       ELSE /\ pc' = "copyDirty"
            /\ seenUsed' = [p \in Bank |-> Cardinality(clean[p])]
    /\ UNCHANGED <<returnTo, depth, cursor, progressed, ringsCompleted,
                   stopRequested, flushRound, admission, ringVars, queueVars,
                   slotVars, s3Vars, bankVars, thresholdVars, beam>>

CopyDirtyCounts ==
    /\ pc = "copyDirty"
    /\ pc' = "copyProcessing"
    /\ seenUsed' = [p \in Bank |-> seenUsed[p] + Cardinality(dirty[p])]
    /\ UNCHANGED <<returnTo, depth, cursor, progressed, ringsCompleted,
                   stopRequested, flushRound, admission, ringVars, queueVars,
                   slotVars, s3Vars, bankVars, thresholdVars, beam>>

WritableWithAnySlot(l) ==
    \E b \in {0, 1} : ~processing[<<l, b>>] /\ seenUsed[<<l, b>>] < Capacity

\* A shard is writable if an idle bank has room, by the copied counts, for what
\* one batch is expected to bring it, or for all of it while the shard sorts.
Writable(l) ==
    LET room == IF processing[<<l, 0>>] \/ processing[<<l, 1>>]
                THEN Smaller(BatchSize, Capacity) ELSE WriteReserve
    IN \E b \in {0, 1} : /\ ~processing[<<l, b>>]
                         /\ seenUsed[<<l, b>>] < Capacity
                         /\ Capacity - seenUsed[<<l, b>>] >= room

CopyProcessingFlags ==
    /\ pc = "copyProcessing"
    /\ IF \A l \in Shard : Writable(l)
       THEN /\ pc' = "launch3"
            /\ admission' = IF \E p \in Bank : seenUsed[p] < Used(p)
                            THEN "torn" ELSE "checked"
       ELSE pc' = "pressure" /\ UNCHANGED admission
    /\ seenUsed' = [p \in Bank |-> 0]
    /\ UNCHANGED <<returnTo, depth, cursor, progressed, ringsCompleted,
                   stopRequested, flushRound, ringVars, queueVars, slotVars,
                   s3Vars, bankVars, thresholdVars, beam>>

\* Backpressure: choose banks to sort, queue and launch them.
PressureBuild ==
    /\ pc = "pressure"
    /\ BuildReadyQueue(FALSE)
    /\ pc' = "pressureAppend"
    /\ UNCHANGED <<returnTo, depth, cursor, progressed, ringsCompleted,
                   stopRequested, flushRound, seenUsed, admission, ringVars,
                   queueVars, slotVars, s3Vars, clean, dirty, hist,
                   thresholdVars, beam>>

PressureAppend ==
    /\ pc = "pressureAppend"
    /\ IF fatal
       THEN pc' = "failed" /\ UNCHANGED <<returnTo, progressed, pending, ready>>
       ELSE /\ AppendReadyQueue(ready)
            /\ progressed' = (progressed \/ ~(ready \subseteq pending))
            /\ pc' = "launch" /\ returnTo' = "pressureEnd"
    /\ UNCHANGED <<depth, cursor, ringsCompleted, stopRequested, flushRound,
                   seenUsed, admission, ringVars, logicalRunning, jobs, slotVars,
                   s3Vars, clean, dirty, processing, writeIdx, hist,
                   thresholdVars, beam>>

\* With nothing queued and nothing sorting, Stream 3 is launched regardless.
PressureEnd ==
    /\ pc = "pressureEnd"
    /\ IF pending # {} \/ BusySlots # {}
       THEN pc' = "update2" /\ UNCHANGED admission
       ELSE pc' = "launch3" /\ admission' = "bypassed"
    /\ UNCHANGED <<returnTo, depth, cursor, progressed, ringsCompleted,
                   stopRequested, flushRound, seenUsed, ringVars,
                   queueVars, slotVars, s3Vars, bankVars, thresholdVars, beam>>

LaunchStream3 ==
    /\ pc = "launch3"
    /\ ringState' = [ringState EXCEPT ![Oldest(RingsIn("ready"))] = "stream3"]
    /\ s3phase' = "launched"
    /\ progressed' = TRUE
    /\ pc' = "update2"
    /\ UNCHANGED <<returnTo, depth, cursor, ringsCompleted, stopRequested,
                   flushRound, seenUsed, admission, ringLoad, ringDone, stopFlag,
                   queueVars, slotVars, s3batch, offered, fatal, bankVars,
                   thresholdVars, beam>>

\* The end of a pass that found nothing to do, stopping or not: wait for
\* Stream 3, else for the oldest ring, else for a Stream 4 slot.
WaitStream3 ==
    /\ Stream3Active /\ s3phase = "done"
    /\ FinishStream3("test")
    /\ UNCHANGED <<stopRequested, ringLoad, ringDone, stopFlag, logicalRunning,
                   jobs, slotVars, clean, dirty, processing, writeIdx, hist>>

WaitOldestRingBlindly ==
    /\ ~Stream3Active /\ RingsIn("stream1") # {}
    /\ ringDone[Oldest(RingsIn("stream1"))]
    /\ ringState' = ReadyRings
    /\ pc' = "test"
    /\ UNCHANGED <<stopRequested, ringLoad, ringDone, stopFlag, queueVars, slotVars,
                   s3Vars, bankVars>>

WaitOldestRing ==
    /\ ~Stream3Active /\ RingsIn("stream1") # {}
    /\ ringDone[Oldest(RingsIn("stream1"))]
    /\ ringState' = ReadyRings
    /\ stopRequested' = (stopRequested \/ stopFlag)
    /\ pc' = "test"
    /\ UNCHANGED <<ringLoad, ringDone, stopFlag, queueVars, slotVars, s3Vars, bankVars>>

WaitStream4Slot ==
    /\ ~Stream3Active /\ RingsIn("stream1") = {} /\ DoneSlots # {}
    /\ ReleaseSlots("test")
    /\ UNCHANGED <<stopRequested, ringVars, pending, s3Vars, bankVars>>

\* Nothing to wait for: yield, or, when stopping, drop the rings still ready.
GiveUp ==
    /\ ~Stream3Active /\ RingsIn("stream1") = {} /\ BusySlots = {}
    /\ ringState' = IF pc = "halting" THEN DiscardReady(ringState) ELSE ringState
    /\ pc' = "test"
    /\ UNCHANGED <<stopRequested, ringLoad, ringDone, stopFlag, queueVars,
                   slotVars, s3Vars, bankVars>>

EndPass ==
    /\ pc \in {"idle", "halting"}
    /\ \/ /\ progressed
          /\ pc' = "test"
          /\ UNCHANGED <<stopRequested, ringVars, queueVars, slotVars, s3Vars, bankVars>>
       \/ ~progressed /\ (WaitStream3 \/ WaitOldestRing \/ WaitStream4Slot \/ GiveUp)
    /\ UNCHANGED <<returnTo, depth, cursor, progressed, ringsCompleted,
                   flushRound, seenUsed, admission, thresholdVars, beam>>
-----------------------------------------------------------------------------
(* Draining Stream 4, updating the threshold, and the end of the depth.     *)

\* drain_pending_stream4_shards: release and launch until nothing is queued and
\* no slot is busy; it throws if the queue is stuck.
Drain ==
    /\ pc = "drain"
    /\ \/ /\ DoneSlots # {}
          /\ ReleaseSlots("drain")
          /\ UNCHANGED pending
       \/ /\ FreeSlots # {}
          /\ \E p \in Launchable : LaunchStream4(p)
          /\ UNCHANGED <<pc, jobs>>
       \/ /\ BusySlots = {} /\ Launchable = {}
          /\ pc' = IF pending # {} THEN "error"
                   ELSE IF returnTo = "flushed" THEN "flushed" ELSE "apply"
          /\ UNCHANGED <<slotVars, queueVars>>
    /\ UNCHANGED <<returnTo, depth, cursor, progressed, ringsCompleted,
                   stopRequested, flushRound, seenUsed, admission, ringVars, s3Vars,
                   bankVars, thresholdVars, beam>>

\* The part of bank p's histogram at or below score t.  A bank's histogram counts
\* its rows when it was last sorted, so it is kept as the set of those rows.
Prefix(p, t) == AtMost(hist[p], t)
BothPrefixes(l, t) == Prefix(<<l, 0>>, t) \cup Prefix(<<l, 1>>, t)

\* The larger such part of a shard's two banks.
LargerPrefix(l, t) ==
    IF Cardinality(Prefix(<<l, 0>>, t)) > Cardinality(Prefix(<<l, 1>>, t))
    THEN Prefix(<<l, 0>>, t) ELSE Prefix(<<l, 1>>, t)

\* threshold_conservative_union_kernel: the banks of a shard may hold the same
\* states, so only the larger counts.  Rows of distinct shards are distinct:
\* the sum over the shards is the size of the union.
ConservativeCount(t) == Cardinality(UNION {LargerPrefix(l, t) : l \in Shard})

CutoffNextBucket == 1 + CHOOSE t \in Scores :
    /\ ConservativeCount(t) >= BeamWidth
    /\ \A u \in Scores : ConservativeCount(u) >= BeamWidth => t <= u

\* The first score whose cumulative count reaches the beam width.
Cutoff == CHOOSE t \in Scores :
    /\ ConservativeCount(t) >= BeamWidth
    /\ \A u \in Scores : ConservativeCount(u) >= BeamWidth => t <= u

StaleSlot == IF ~initialized \/ Cutoff < threshold THEN Cutoff ELSE NoThreshold

\* The value threshold_update_periodic_kernel publishes: a cutoff that does not
\* tighten the threshold in force leaves it as it is.
Tightened == IF ~initialized \/ Cutoff < threshold THEN Cutoff ELSE threshold

\* force_periodic_threshold_update and threshold_update_periodic_kernel.
UpdateThreshold ==
    /\ pc = "apply"
    /\ IF Stream3Active
       THEN pc' = "error" /\ UNCHANGED <<returnTo, jobs, thresholdVars>>
       ELSE /\ IF ConservativeCount(NoThreshold) >= BeamWidth
               THEN threshold' = Tightened /\ initialized' = TRUE
               ELSE UNCHANGED thresholdVars
            /\ jobs' = 0
            /\ pc' = CASE returnTo = "update1" -> "launch"
                       [] returnTo = "update2" -> "idle"
                       [] returnTo = "boundary" -> "flush"
                       [] returnTo = "flushed" -> "flushTest"
            /\ returnTo' = IF returnTo = "update1" THEN "fill" ELSE returnTo
    /\ UNCHANGED <<depth, cursor, progressed, ringsCompleted, stopRequested,
                   flushRound, seenUsed, admission, ringVars, pending,
                   logicalRunning, slotVars, s3Vars, bankVars, beam>>

MaxFlushRounds == 4 * Cardinality(Bank) + 8
AnyDirtyReady == \E p \in Bank : DirtyReady(p, FALSE)

AnyDirty == \E p \in Bank : dirty[p] # {}

\* A round of the final flush: every shard sends one non-empty bank to Stream 4.
FlushBuild ==
    /\ pc = "flush"
    /\ BuildReadyQueue(TRUE)
    /\ pc' = "flushAppend"
    /\ UNCHANGED <<returnTo, depth, cursor, progressed, ringsCompleted,
                   stopRequested, flushRound, seenUsed, admission, ringVars,
                   queueVars, slotVars, s3Vars, clean, dirty, hist,
                   thresholdVars, beam>>

FlushAppend ==
    /\ pc = "flushAppend"
    /\ IF fatal THEN pc' = "failed" /\ UNCHANGED <<returnTo, pending, ready>>
       ELSE AppendReadyQueue(ready) /\ pc' = "drain" /\ returnTo' = "flushed"
    /\ UNCHANGED <<depth, cursor, progressed, ringsCompleted, stopRequested,
                   flushRound, seenUsed, admission, ringVars, logicalRunning, jobs,
                   slotVars, s3Vars, clean, dirty, processing, writeIdx, hist,
                   thresholdVars, beam>>

FlushUpdate ==
    /\ pc = "flushed"
    /\ pc' = IF jobs # 0 /\ (PeriodicUpdateDue \/ AnyDirty)
             THEN "apply" ELSE "flushTest"
    /\ UNCHANGED <<returnTo, depth, cursor, progressed, ringsCompleted,
                   stopRequested, flushRound, seenUsed, admission, ringVars,
                   queueVars, slotVars, s3Vars, bankVars, thresholdVars, beam>>

FlushTest ==
    /\ pc = "flushTest"
    /\ IF ~AnyDirty THEN pc' = "finalize" /\ UNCHANGED flushRound
       ELSE IF flushRound + 1 = MaxFlushRounds
       THEN pc' = "error" /\ UNCHANGED flushRound
       ELSE pc' = "flush" /\ flushRound' = flushRound + 1
    /\ UNCHANGED <<returnTo, depth, cursor, progressed, ringsCompleted,
                   stopRequested, seenUsed, admission, ringVars, queueVars, slotVars,
                   s3Vars, bankVars, thresholdVars, beam>>

UnionOfBanks == UNION {clean[p] : p \in Bank}

\* What the union of a shard's banks leaves (dirty rows do not take part), and
\* the score the exact histogram of those rows selects.
Union == UNION {BestPerState(clean[<<l, 0>>] \cup clean[<<l, 1>>]) : l \in Shard}

ReachesWidth(t) == Cardinality(AtMost(Union, t)) >= BeamWidth
FinalThreshold ==
    IF \E t \in Scores : ReachesWidth(t)
    THEN CHOOSE t \in Scores :
            ReachesWidth(t) /\ \A u \in Scores : ReachesWidth(u) => t <= u
    ELSE NoThreshold

\* The rows below the threshold are kept, then rows at it until the beam is
\* full, in storage order; which of the tied rows come first is left open.
IsFinalSelection(F) ==
    LET less == {c \in Union : Score[c] < FinalThreshold}
        equal == {c \in Union : Score[c] = FinalThreshold}
    IN /\ less \subseteq F /\ F \subseteq less \cup equal
       /\ Cardinality(F) =
            Smaller(BeamWidth, Cardinality(less) + Cardinality(equal))

ThresholdKept == UNCHANGED thresholdVars

\* Both threshold slots are reset for the next depth.
ThresholdReset == threshold' = NoThreshold /\ initialized' = FALSE

\* finalize_depth_single_gpu: select the next frontier, clear what the depth left.
Finalize ==
    /\ pc = "finalize"
    /\ pc' = "done"
    /\ beam' \in SUBSET Union /\ IsFinalSelection(beam')
    /\ clean' = [p \in Bank |-> {}] /\ dirty' = [p \in Bank |-> {}]
    /\ hist' = [p \in Bank |-> {}] /\ processing' = [p \in Bank |-> FALSE]
    /\ writeIdx' = [l \in Shard |-> 0] /\ ready' = {}
    /\ ThresholdReset
    /\ offered' = {}
    /\ UNCHANGED <<returnTo, depth, cursor, progressed, ringsCompleted,
                   stopRequested, flushRound, seenUsed, admission, ringVars,
                   queueVars, slotVars, s3phase, s3batch, fatal>>

\* The search calls run_depth_cuda_graphs for the next depth: fresh scheduler
\* state, and the fatal flag is cleared on entry.
StartDepth ==
    /\ pc = "done" /\ depth < Len(Batches)
    /\ depth' = depth + 1 /\ cursor' = 1 /\ pc' = "fill" /\ returnTo' = "test"
    /\ progressed' = FALSE /\ ringsCompleted' = FALSE /\ stopRequested' = FALSE
    /\ flushRound' = 0 /\ seenUsed' = [p \in Bank |-> 0]
    /\ ringState' = [r \in Ring |-> "free"] /\ ringLoad' = [r \in Ring |-> 1]
    /\ ringDone' = [r \in Ring |-> FALSE]
    /\ pending' = {} /\ logicalRunning' = [l \in Shard |-> NoBank] /\ jobs' = 0
    /\ slotPhase' = [s \in Slot |-> "free"] /\ slotBank' = [s \in Slot |-> NoBank]
    /\ fatal' = FALSE /\ offered' = {} /\ admission' = "checked"
    /\ UNCHANGED <<stopFlag, s3phase, s3batch, bankVars, thresholdVars, beam>>

\* The search has returned.
Ended ==
    /\ pc \in {"stopped", "failed", "error"} \/ (pc = "done" /\ depth = Len(Batches))
    /\ UNCHANGED vars

MainLoop ==
    \/ LoopTest \/ ReapStream4 \/ ReapRings \/ ReapStream3 \/ CheckStop
    \/ UpdateBefore \/ LaunchRelease \/ LaunchPending \/ FillRings
    \/ CopyCleanCounts \/ CopyDirtyCounts \/ CopyProcessingFlags
    \/ PressureBuild \/ PressureAppend \/ PressureEnd \/ LaunchStream3
    \/ UpdateAfter \/ EndPass

Host ==
    \/ MainLoop
    \/ Drain \/ UpdateThreshold \/ FlushBuild \/ FlushAppend \/ FlushUpdate
    \/ FlushTest \/ Finalize \/ StartDepth
-----------------------------------------------------------------------------
(* The device streams.                                                     *)

\* Streams 1 and 2 finish the oldest ring load: the done events are recorded on
\* one stream.  Stream 2 raises the stop flag when it finds a goal.
FinishRing ==
    LET waiting == {r \in RingsIn("stream1") : ~ringDone[r]}
        r == Oldest(waiting)
    IN /\ waiting # {}
       /\ ringDone' = [ringDone EXCEPT ![r] = TRUE]
       /\ stopFlag' = (stopFlag \/ <<depth, ringLoad[r]>> \in GoalBatches)
       /\ UNCHANGED <<hostVars, ringState, ringLoad, queueVars, slotVars,
                      s3Vars, bankVars, thresholdVars, beam>>

\* stream3_pack_threshold_device_threshold: keep what the threshold lets pass,
\* the best candidate of each state.
Stream3Pack ==
    LET batch == UNION {Load(r) : r \in RingsIn("stream3")}
    IN /\ s3phase = "launched"
       /\ s3phase' = "packed"
       /\ s3batch' = BestPerState(AtMost(batch, threshold))
       /\ offered' = offered \cup batch
       /\ UNCHANGED <<hostVars, ringVars, queueVars, slotVars, fatal, bankVars,
                      thresholdVars, beam>>

Raw(l) == Cardinality(InShard(s3batch, l))

\* stream3_prepare_partition_counts: the bank for each shard's share, and the
\* fatal flag if one does not fit.
Stream3Prepare ==
    LET target == [l \in Shard |-> WriteBank(l, Raw(l))]
    IN /\ s3phase = "packed"
       /\ s3phase' = "prepared"
       /\ writeIdx' = [l \in Shard |-> IF Raw(l) = 0 THEN writeIdx[l]
                                       ELSE target[l][2]]
       /\ fatal' = (fatal \/ \E l \in Shard : Raw(l) > Available(target[l]))
       /\ UNCHANGED <<hostVars, ringVars, queueVars, slotVars, s3batch, offered,
                      clean, dirty, processing, ready, hist, thresholdVars, beam>>

Appended(p) == IF writeIdx[p[1]] = p[2]
               THEN dirty[p] \cup InShard(s3batch, p[1]) ELSE dirty[p]

AppendIgnoringFatal == [p \in Bank |-> Appended(p)]

AppendUnlessFatal == IF fatal THEN dirty ELSE [p \in Bank |-> Appended(p)]

\* stream3_partition_scatter: append behind the clean and dirty rows, unless the
\* fatal flag is set.
Stream3Scatter ==
    /\ s3phase = "prepared"
    /\ s3phase' = "scattered"
    /\ dirty' = AppendUnlessFatal
    /\ s3batch' = {}
    /\ UNCHANGED <<hostVars, ringVars, queueVars, slotVars, offered, fatal, clean,
                   processing, writeIdx, ready, hist, thresholdVars, beam>>

\* The last kernel of the ring's graph, after which its event fires.
Stream3BuildReady ==
    /\ s3phase = "scattered"
    /\ s3phase' = "done"
    /\ BuildReadyQueue(FALSE)
    /\ UNCHANGED <<hostVars, ringVars, queueVars, slotVars, s3batch, offered,
                   fatal, clean, dirty, hist, thresholdVars, beam>>

SortedDroppingTies(p) ==
    BestPerState({c \in clean[p] \cup dirty[p] : Score[c] < threshold})

\* What Stream 4 leaves of a bank; rows that tie with the threshold survive.
Sorted(p) == BestPerState(AtMost(clean[p] \cup dirty[p], threshold))

\* A Stream 4 job on slot s: prune its bank by the threshold, keep the best row
\* of each state, all of them clean now;
Stream4Sort(s) ==
    LET p == slotBank[s]
    IN /\ slotPhase[s] = "running"
       /\ slotPhase' = [slotPhase EXCEPT ![s] = "sorted"]
       /\ clean' = [clean EXCEPT ![p] = Sorted(p)]
       /\ dirty' = [dirty EXCEPT ![p] = {}]
       /\ UNCHANGED <<hostVars, ringVars, queueVars, slotBank, s3Vars, processing,
                      writeIdx, ready, hist, thresholdVars, beam>>

\* then flip the bank's histogram and give the bank back;
Stream4Publish(s) ==
    LET p == slotBank[s]
    IN /\ slotPhase[s] = "sorted"
       /\ slotPhase' = [slotPhase EXCEPT ![s] = "published"]
       /\ hist' = [hist EXCEPT ![p] = clean[p]]
       /\ processing' = [processing EXCEPT ![p] = FALSE]
       /\ UNCHANGED <<hostVars, ringVars, queueVars, slotBank, s3Vars, clean,
                      dirty, writeIdx, ready, thresholdVars, beam>>

\* then the slot's event fires.
Stream4Signal(s) ==
    /\ slotPhase[s] = "published"
    /\ slotPhase' = [slotPhase EXCEPT ![s] = "done"]
    /\ UNCHANGED <<hostVars, ringVars, queueVars, slotBank, s3Vars, bankVars,
                   thresholdVars, beam>>

Stream3 == Stream3Pack \/ Stream3Prepare \/ Stream3Scatter \/ Stream3BuildReady
Stream4(s) == Stream4Sort(s) \/ Stream4Publish(s) \/ Stream4Signal(s)

Next == Host \/ Ended \/ FinishRing \/ Stream3 \/ \E s \in Slot : Stream4(s)

Spec == Init /\ [][Next]_vars

\* The host thread runs, and the device makes progress on every stream.
FairSpec ==
    /\ Spec
    /\ WF_vars(Host) /\ WF_vars(FinishRing) /\ WF_vars(Stream3)
    /\ \A s \in Slot : WF_vars(Stream4(s))
-----------------------------------------------------------------------------
(* Properties.                                                             *)

Positions == {"test", "reap", "rings", "stream3", "stop", "halting", "update1",
    "launch", "launching", "fill", "admit", "copyDirty", "copyProcessing",
    "pressure", "pressureAppend", "pressureEnd", "launch3", "update2", "idle",
    "drain", "apply", "flush", "flushAppend", "flushed", "flushTest", "finalize",
    "done", "stopped", "failed", "error"}

\* Every variable has a value the program's types allow.
TypeOK ==
    /\ pc \in Positions
    /\ returnTo \in {"test", "fill", "pressureEnd", "update1", "update2",
                     "boundary", "flushed"}
    /\ depth \in 1..Len(Batches) /\ cursor \in Nat \ {0}
    /\ progressed \in BOOLEAN /\ ringsCompleted \in BOOLEAN
    /\ stopRequested \in BOOLEAN /\ stopFlag \in BOOLEAN
    /\ fatal \in BOOLEAN /\ initialized \in BOOLEAN
    /\ admission \in {"checked", "torn", "bypassed"}
    /\ ringState \in [Ring -> {"free", "stream1", "ready", "stream3"}]
    /\ ringLoad \in [Ring -> Nat \ {0}] /\ ringDone \in [Ring -> BOOLEAN]
    /\ pending \subseteq Bank /\ logicalRunning \in [Shard -> Bank \cup {NoBank}]
    /\ jobs \in Nat /\ flushRound \in Nat /\ seenUsed \in [Bank -> Nat]
    /\ s3phase \in {"idle", "launched", "packed", "prepared", "scattered", "done"}
    /\ s3batch \subseteq Cand /\ offered \subseteq Cand /\ beam \subseteq Cand
    /\ clean \in [Bank -> SUBSET Cand] /\ dirty \in [Bank -> SUBSET Cand]
    /\ hist \in [Bank -> SUBSET Cand] /\ processing \in [Bank -> BOOLEAN]
    /\ writeIdx \in [Shard -> {0, 1}] /\ ready \subseteq Bank
    /\ slotPhase \in [Slot -> {"free", "running", "sorted", "published", "done"}]
    /\ slotBank \in [Slot -> Bank \cup {NoBank}]
    /\ threshold \in Scores \cup {NoThreshold}

Sorting(p) == \E s \in Slot : slotBank[s] = p /\ slotPhase[s] \in {"running", "sorted"}

\* A bank is flagged as processing exactly while one party holds it: the
\* device's ready list, the host's queue, or one Stream 4 job that has not
\* given it back.  The host may not have noticed yet that it was given back.
Ownership ==
    \A p \in Bank :
        /\ processing[p] <=> (p \in ready \/ p \in pending \/ Sorting(p))
        /\ ~(p \in ready /\ (p \in pending \/ Sorting(p)))
        /\ ~(p \in pending /\ Sorting(p))
        /\ \A s, t \in Slot : slotBank[s] = p /\ slotBank[t] = p => s = t

\* ARCHITECTURE: Stream 4 runs at most one bank per logical shard, so Stream 3
\* always finds the other bank out of Stream 4's hands.
OneBankPerShard ==
    /\ \A p \in Bank : ~(processing[p] /\ processing[Sibling(p)])
    /\ \A s, t \in Slot : s # t /\ slotBank[s] # NoBank /\ slotBank[t] # NoBank
                            => slotBank[s][1] # slotBank[t][1]

\* No bank ever holds more rows than were allocated, whatever Stream 3 decided
\* from counters Stream 4 was changing.
CapacityRespected == \A p \in Bank : Used(p) <= Capacity

\* None of the scheduler's consistency exceptions can be reached.
NoSchedulerThrow == pc # "error"

Held == s3batch \cup UNION {clean[p] \cup dirty[p] : p \in Bank}

\* Whatever Stream 3 took from a ring is still held, by itself or by a candidate
\* of the same state that is no worse, unless the threshold excludes it.
NothingLost ==
    ~fatal => \A c \in offered :
        \/ Score[c] > threshold
        \/ \E h \in Held : StateOf[h] = StateOf[c] /\ Better(h, c)

\* A threshold is only in force when enough distinct states at or below it have
\* been generated to fill the beam, although banks hold duplicates of a state.
ThresholdSound ==
    IF initialized
    THEN Cardinality(States(AtMost(offered, threshold))) >= BeamWidth
    ELSE threshold = NoThreshold

\* Within a depth the threshold is never withdrawn and never loosened.
ThresholdTightens ==
    [][pc # "finalize" /\ initialized => initialized' /\ threshold' <= threshold]_vars

\* A batch that brings no shard more than the write reserve never overflows a
\* bank when the admission check let it through on counters that were all of
\* one moment: what Stream 4 does between check and append only makes room.
CheckedNeverOverflows ==
    (\A d \in 1..Len(Batches) : \A i \in 1..Len(Batches[d]) : \A l \in Shard :
        Cardinality(InShard(Batches[d][i], l)) <= WriteReserve)
    => (fatal => admission # "checked")

\* "Local shard capacity applies before owner exchange as well": Stream 3 is
\* not launched while some shard has no idle bank with the write reserve free.
LaunchedWithRoom ==
    s3phase = "launched" /\ admission = "bypassed" =>
        \A l \in Shard : \E b \in {0, 1} : Available(<<l, b>>) >= WriteReserve

\* Once the host has seen the stop flag nothing new is launched.
NothingLaunchedAfterStop ==
    [][stopRequested /\ pc # "done" =>
        /\ cursor' = cursor
        /\ ~(s3phase = "idle" /\ s3phase' # "idle")
        /\ \A s \in Slot : ~(slotPhase[s] = "free" /\ slotPhase'[s] = "running")]_vars

\* A depth is not completed with a goal flag raised but unseen.
GoalNotMissed == pc = "done" => ~stopFlag

\* When the depth returns, every stream is idle and every ring free; after a
\* completed depth no work is left queued either.
QuiescentOnReturn ==
    /\ pc \in {"finalize", "done", "stopped"} =>
         /\ s3phase = "idle" /\ BusySlots = {}
         /\ \A r \in Ring : ringState[r] = "free"
    /\ pc \in {"finalize", "done"} =>
         /\ pending = {} /\ ready = {} /\ \A p \in Bank : ~processing[p]

GeneratedIn == [d \in 1..Len(Batches) |->
    UNION {Batches[d][i] : i \in 1..Len(Batches[d])}]

\* Whatever the order of kernels, sorts and threshold updates, each finished
\* depth yields a correct beam of everything the depth generated.
Depths == INSTANCE BeamDepth WITH
    Generated <- GeneratedIn,
    depthsDone <- IF pc = "done" THEN depth ELSE depth - 1,
    ended <- pc \in {"stopped", "failed", "error"}

ImplementsBeamDepth == Depths!Spec

\* Every search ends: the last depth is done, or the search stopped or failed.
Terminates == <>(pc \in {"stopped", "failed", "error"}
                 \/ (pc = "done" /\ depth = Len(Batches)))
-----------------------------------------------------------------------------
(* Why the hand-overs are safe: the facts about the scheduler's positions   *)
(* under which Ownership, OneBankPerShard and NoSchedulerThrow are          *)
(* inductive.                                                              *)

\* A slot is busy with the bank the host believes its logical shard runs.
SlotsAgree ==
    /\ \A s \in Slot : slotBank[s] = NoBank <=> slotPhase[s] = "free"
    /\ \A s \in Slot : slotBank[s] # NoBank =>
         logicalRunning[slotBank[s][1]] = slotBank[s]
    /\ \A l \in Shard : logicalRunning[l] # NoBank =>
         \E s \in Slot : slotBank[s] = logicalRunning[l] /\ slotBank[s][1] = l

\* Between the admission check and the launch, while draining and flushing, and
\* after a return, Stream 3 is idle.
Stream3Parked ==
    \/ pc \in {"copyDirty", "copyProcessing", "pressure", "pressureAppend",
               "pressureEnd", "launch3", "drain", "apply", "flush", "flushAppend",
               "flushed", "flushTest", "finalize", "done", "stopped"}
    \/ pc \in {"launch", "launching"} /\ returnTo = "pressureEnd"

Stream3Known ==
    /\ Stream3Parked => s3phase = "idle"
    /\ pc = "failed" => s3phase \in {"idle", "done"}

\* The ready list is only rebuilt when it is empty: it waits for the host after
\* a build, or for good once the search stops.
ReadyListTaken ==
    ready # {} => \/ s3phase = "done"
                  \/ pc \in {"pressureAppend", "flushAppend", "failed"}
                  \/ stopRequested /\ s3phase = "idle"

\* Nothing is launched or selected once a stop is requested.
StopPositions ==
    stopRequested => pc \in {"test", "reap", "rings", "stream3", "stop", "halting",
                             "stopped", "failed", "error"}

\* Past a drain Stream 4 has nothing queued and nothing running.
DrainedPositions ==
    pc \in {"apply", "flush", "flushAppend", "flushed", "flushTest", "finalize", "done"}
    => pending = {} /\ BusySlots = {}

\* The banks a flush round has promised to sort and not sorted yet.
Owed == ready \cup pending \cup
        {p \in Bank : \E s \in Slot : slotBank[s] = p /\ slotPhase[s] = "running"}

Flushing ==
    \/ pc \in {"flushAppend", "flushed", "flushTest"}
    \/ pc \in {"drain", "apply"} /\ returnTo = "flushed"

\* The first round of a flush sorts one of two dirty banks of a shard, the second
\* one the other: no third round is ever needed.
FlushProgress ==
    /\ flushRound \in {0, 1}
    /\ pc \notin {"finalize", "done", "failed", "error", "flush"} /\ ~Flushing
         => flushRound = 0
    /\ pc = "flush" /\ flushRound = 1 =>
         \A p \in Bank : dirty[p] = {} \/ dirty[Sibling(p)] = {}
    /\ Flushing => \A p \in Bank : dirty[p] # {} =>
         \/ p \in Owed
         \/ flushRound = 0 /\ (dirty[Sibling(p)] = {} \/ Sibling(p) \in Owed)

\* The scheduler always knows who holds what: together with the types, the
\* strengthening of Ownership, OneBankPerShard and NoSchedulerThrow.
HandOverInv ==
    /\ SlotsAgree /\ Stream3Known /\ ReadyListTaken /\ StopPositions
    /\ DrainedPositions /\ FlushProgress
=============================================================================
