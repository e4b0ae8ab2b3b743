------------------------ MODULE DepthPipelineProofs -------------------------
(***************************************************************************)
(* How the streams of a depth work together, for all candidates, shards,    *)
(* slots, capacities and ring loads: every variable keeps its type and the  *)
(* threshold only tightens; the hand-over of shard banks between Stream 3,  *)
(* the host's queue and the Stream 4 slots is safe; the scheduler's         *)
(* consistency exceptions are unreachable; and a goal that was found stops  *)
(* the search.  Then what a depth makes of its candidates: no bank ever     *)
(* holds more rows than were allocated for it, although Stream 3 decides    *)
(* from counters Stream 4 is changing; nothing better than the threshold is *)
(* lost, the threshold never cuts below the beam width, and each finished   *)
(* depth is a step of BeamDepth.  Last, the scatter kernel by itself.       *)
(***************************************************************************)
EXTENDS DepthPipeline, Stream3Scatter, CandidateProofs

\* TypeOK by groups of variables, each with what it takes to keep it.
ControlOK ==
    /\ pc \in Positions
    /\ returnTo \in {"test", "fill", "pressureEnd", "update1", "update2",
                     "boundary", "flushed"}
    /\ progressed \in BOOLEAN /\ ringsCompleted \in BOOLEAN
    /\ stopRequested \in BOOLEAN /\ flushRound \in Nat
    /\ admission \in {"checked", "torn", "bypassed"}

\* Where a launch or a drain may return to.
ReturnsRight ==
    /\ pc \in {"launch", "launching"} => returnTo \in {"fill", "pressureEnd"}
    /\ pc \in {"drain", "apply"} =>
         returnTo \in {"update1", "update2", "boundary", "flushed"}
    /\ pc = "flushed" => returnTo = "flushed"

CountersOK ==
    /\ depth \in 1..Len(Batches) /\ cursor \in Nat \ {0}
    /\ seenUsed \in [Bank -> Nat]

RingsOK ==
    /\ ringState \in [Ring -> {"free", "stream1", "ready", "stream3"}]
    /\ ringLoad \in [Ring -> Nat \ {0}]
    /\ ringDone \in [Ring -> BOOLEAN] /\ stopFlag \in BOOLEAN

\* A ring in use holds a load of this depth.
RingsLoaded == \A r \in Ring : ringState[r] # "free" => ringLoad[r] \in 1..Loads

\* From the copied counters to the launch of Stream 3 a ring stays ready.
Admitting ==
    \/ pc \in {"copyDirty", "copyProcessing", "pressure", "pressureAppend",
               "pressureEnd", "launch3"}
    \/ pc \in {"launch", "launching"} /\ returnTo = "pressureEnd"
ReadyWhileAdmitting == Admitting => RingsIn("ready") # {}

QueuesOK ==
    /\ pending \subseteq Bank /\ logicalRunning \in [Shard -> Bank \cup {NoBank}]
    /\ jobs \in Nat

SlotsOK ==
    /\ slotPhase \in [Slot -> {"free", "running", "sorted", "published", "done"}]
    /\ slotBank \in [Slot -> Bank \cup {NoBank}]

Stream3OK ==
    /\ s3phase \in {"idle", "launched", "packed", "prepared", "scattered", "done"}
    /\ s3batch \subseteq Cand /\ offered \subseteq Cand /\ fatal \in BOOLEAN

BanksOK ==
    /\ clean \in [Bank -> SUBSET Cand] /\ dirty \in [Bank -> SUBSET Cand]
    /\ hist \in [Bank -> SUBSET Cand] /\ processing \in [Bank -> BOOLEAN]
    /\ writeIdx \in [Shard -> {0, 1}] /\ ready \subseteq Bank

ThresholdOK ==
    /\ threshold \in Scores \cup {NoThreshold} /\ initialized \in BOOLEAN

BeamOK == beam \subseteq Cand

TypeInv ==
    /\ ControlOK /\ ReturnsRight /\ CountersOK /\ RingsOK /\ RingsLoaded
    /\ ReadyWhileAdmitting /\ QueuesOK /\ SlotsOK /\ Stream3OK /\ BanksOK
    /\ ThresholdOK /\ BeamOK

-----------------------------------------------------------------------------
(* Facts about the data.                                                   *)

LEMMA SlotsFinite ==
    ASSUME NEW S \in SUBSET Slot
    PROVE  IsFiniteSet(S) /\ Cardinality(S) \in Nat
<1>1. IsFiniteSet(Slot)
  BY SizesAssumption, FS_Interval DEF Slot
<1> QED
  BY <1>1, FS_Subset, FS_CardinalityType

LEMMA SiblingIsBank ==
    ASSUME NEW p \in Bank
    PROVE  /\ Sibling(p) \in Bank /\ Sibling(Sibling(p)) = p /\ Sibling(p) # p
           /\ p[1] \in Shard /\ p[2] \in {0, 1} /\ p = <<p[1], p[2]>>
           /\ p # NoBank
  BY DEF Bank, Sibling, NoBank

LEMMA NoBankIsNone == NoBank \notin Bank
  BY DEF Bank, NoBank

\* The oldest of some rings is one of them.
LEMMA OldestIsOne ==
    ASSUME RingsOK, NEW R \in SUBSET Ring, R # {}
    PROVE  Oldest(R) \in R
<1> DEFINE A == {ringLoad[r] : r \in R}
<1>1. A \in SUBSET Nat /\ A # {}
  BY DEF RingsOK
<1>2. PICK m \in A : \A n \in A : m <= n
  <2> HIDE DEF A
  <2> QED
    BY <1>1, LeastNatural
<1>3. \E r \in R : \A q \in R : ringLoad[r] <= ringLoad[q]
  BY <1>2
<1> QED
  BY <1>3 DEF Oldest

LEMMA LoadIsCandidates ==
    ASSUME CountersOK, RingsOK, RingsLoaded
    PROVE  \A r \in RingsIn("stream3") : Load(r) \subseteq Cand
<1> SUFFICES ASSUME NEW r \in RingsIn("stream3") PROVE Load(r) \subseteq Cand
  OBVIOUS
<1>1. Batches[depth] \in Seq(SUBSET Cand)
  BY BatchesAssumption DEF CountersOK
<1>2. ringLoad[r] \in 1..Len(Batches[depth])
  BY DEF RingsIn, RingsLoaded, Loads
<1> QED
  BY <1>1, <1>2 DEF Load

\* If the banks' histograms reach the beam width at all, they do at some score.
LEMMA CutoffIsScore ==
    ASSUME BanksOK, ConservativeCount(NoThreshold) >= BeamWidth
    PROVE  Cutoff \in Scores /\ ConservativeCount(Cutoff) >= BeamWidth
<1>1. Scores # {}
  <2>1. CASE Cand = {}
    <3>1. \A l \in Shard : LargerPrefix(l, NoThreshold) = {}
      BY <2>1 DEF LargerPrefix, Prefix, AtMost, BanksOK, Bank
    <3>2. ConservativeCount(NoThreshold) = 0
      BY <3>1, FS_EmptySet DEF ConservativeCount
    <3> QED
      BY <3>2, WidthAssumption
  <2> QED
    BY <2>1 DEF Scores
<1>2. PICK top \in Scores : \A s \in Scores : s <= top
  <2> DEFINE A == {NoThreshold - s : s \in Scores}
  <2>1. A \in SUBSET Nat /\ A # {}
    <3>1. \A s \in Scores : NoThreshold - s \in Nat
      BY ScoresBounded, CandAssumption
    <3> QED
      BY <1>1, <3>1
  <2>2. PICK m \in A : \A n \in A : m <= n
    <3> HIDE DEF A
    <3> QED
      BY <2>1, LeastNatural
  <2>3. PICK s \in Scores : m = NoThreshold - s
    OBVIOUS
  <2>4. \A t \in Scores : NoThreshold - s <= NoThreshold - t
    BY <2>2, <2>3
  <2> QED
    BY <2>3, <2>4, ScoresBounded, CandAssumption
<1>3. \A p \in Bank : Prefix(p, top) = Prefix(p, NoThreshold)
  <2> SUFFICES ASSUME NEW p \in Bank, NEW c \in hist[p]
               PROVE  Score[c] <= top /\ Score[c] <= NoThreshold
    BY DEF Prefix, AtMost
  <2>1. c \in Cand /\ Score[c] \in Scores
    BY DEF BanksOK, Scores
  <2> QED
    BY <1>2, <2>1, ScoresBounded, CandAssumption
<1>4. ConservativeCount(top) = ConservativeCount(NoThreshold)
  <2>1. \A l \in Shard : LargerPrefix(l, top) = LargerPrefix(l, NoThreshold)
    BY <1>3 DEF LargerPrefix, Bank
  <2>2. {LargerPrefix(l, top) : l \in Shard} = {LargerPrefix(l, NoThreshold) : l \in Shard}
    BY <2>1
  <2> QED
    BY <2>2 DEF ConservativeCount
<1> DEFINE A == {t \in Scores : ConservativeCount(t) >= BeamWidth}
<1>5. A \in SUBSET Nat /\ A # {}
  BY <1>2, <1>4, ScoresBounded
<1>6. PICK m \in A : \A n \in A : m <= n
  <2> HIDE DEF A
  <2> QED
    BY <1>5, LeastNatural
<1>7. \E t \in Scores :
        /\ ConservativeCount(t) >= BeamWidth
        /\ \A u \in Scores : ConservativeCount(u) >= BeamWidth => t <= u
  BY <1>6
<1> QED
  BY <1>7 DEF Cutoff

\* What the threshold update publishes is a score, and no looser than before.
LEMMA TightenedTypes ==
    ASSUME BanksOK, ThresholdOK, ConservativeCount(NoThreshold) >= BeamWidth
    PROVE  /\ Tightened \in Scores \cup {NoThreshold}
           /\ initialized => Tightened <= threshold
<1>1. Cutoff \in Scores
  BY CutoffIsScore
<1>2. Cutoff \in Nat /\ threshold \in Nat
  BY <1>1, ScoresBounded, CandAssumption DEF ThresholdOK
<1> QED
  BY <1>1, <1>2 DEF Tightened, ThresholdOK

-----------------------------------------------------------------------------
(* Types: what the shared pieces of actions leave behind.                  *)

LEMMA ReleaseTypes ==
    ASSUME QueuesOK, SlotsOK, ReleaseDoneSlots
    PROVE  /\ slotPhase' \in [Slot -> {"free", "running", "sorted", "published", "done"}]
           /\ slotBank' \in [Slot -> Bank \cup {NoBank}]
           /\ logicalRunning' \in [Shard -> Bank \cup {NoBank}]
           /\ jobs' \in Nat
<1>1. Cardinality(DoneSlots) \in Nat
  BY SlotsFinite DEF DoneSlots
<1>2. jobs' \in Nat
  BY <1>1, SizesAssumption DEF ReleaseDoneSlots, Smaller, JobsBound, QueuesOK
<1> QED
  BY <1>2 DEF ReleaseDoneSlots, QueuesOK, SlotsOK

LEMMA LaunchTypes ==
    ASSUME QueuesOK, SlotsOK, NEW p \in Launchable, LaunchStream4(p)
    PROVE  /\ SlotsOK' /\ pending' \subseteq Bank
           /\ logicalRunning' \in [Shard -> Bank \cup {NoBank}]
<1>1. p \in Bank /\ p[1] \in Shard
  BY SiblingIsBank DEF Launchable, QueuesOK
<1> QED
  BY <1>1, ZenonT(40) DEF LaunchStream4, QueuesOK, SlotsOK

LEMMA BuildTypes ==
    ASSUME BanksOK, NEW force \in BOOLEAN, BuildReadyQueue(force)
    PROVE  /\ processing' \in [Bank -> BOOLEAN] /\ writeIdx' \in [Shard -> {0, 1}]
           /\ ready' \subseteq Bank
<1>1. \A p \in Bank : (processing[p] \/ p \in SelectedReady(force)) \in BOOLEAN
  OBVIOUS
<1>2. processing' \in [Bank -> BOOLEAN]
  BY <1>1 DEF BuildReadyQueue
<1>3. writeIdx' \in [Shard -> {0, 1}]
  BY DEF BuildReadyQueue, BanksOK
<1>4. ready' \subseteq Bank
  BY DEF BuildReadyQueue, SelectedReady
<1> QED
  BY <1>2, <1>3, <1>4

(* A group of variables a step leaves alone stays typed.                   *)

LEMMA Keep ==
    /\ RingsOK /\ UNCHANGED ringVars => RingsOK'
    /\ QueuesOK /\ UNCHANGED queueVars => QueuesOK'
    /\ SlotsOK /\ UNCHANGED slotVars => SlotsOK'
    /\ Stream3OK /\ UNCHANGED s3Vars => Stream3OK'
    /\ BanksOK /\ UNCHANGED bankVars => BanksOK'
    /\ ThresholdOK /\ UNCHANGED thresholdVars => ThresholdOK'
    /\ BeamOK /\ UNCHANGED beam => BeamOK'
<1>1. RingsOK /\ UNCHANGED ringVars => RingsOK'
  BY DEF RingsOK, ringVars
<1>2. QueuesOK /\ UNCHANGED queueVars => QueuesOK'
  BY DEF QueuesOK, queueVars
<1>3. SlotsOK /\ UNCHANGED slotVars => SlotsOK'
  BY DEF SlotsOK, slotVars
<1>4. Stream3OK /\ UNCHANGED s3Vars => Stream3OK'
  BY DEF Stream3OK, s3Vars
<1>5. BanksOK /\ UNCHANGED bankVars => BanksOK'
  BY DEF BanksOK, bankVars
<1>6. ThresholdOK /\ UNCHANGED thresholdVars => ThresholdOK'
  BY DEF ThresholdOK, thresholdVars
<1> QED
  BY <1>1, <1>2, <1>3, <1>4, <1>5, <1>6 DEF BeamOK

LEMMA KeepHost ==
    /\ CountersOK /\ UNCHANGED <<depth, cursor, seenUsed>> => CountersOK'
    /\ CountersOK /\ ControlOK /\ ReturnsRight /\ UNCHANGED hostVars
         => CountersOK' /\ ControlOK' /\ ReturnsRight'
<1>1. CountersOK /\ UNCHANGED <<depth, cursor, seenUsed>> => CountersOK'
  BY DEF CountersOK
<1>2. ControlOK /\ UNCHANGED hostVars => ControlOK'
  BY DEF ControlOK, hostVars
<1>3. ReturnsRight /\ UNCHANGED hostVars => ReturnsRight'
  BY DEF ReturnsRight, hostVars
<1> QED
  BY <1>1, <1>2, <1>3 DEF hostVars

LEMMA KeepLoaded == RingsLoaded /\ UNCHANGED <<depth, ringVars>> => RingsLoaded'
  BY DEF RingsLoaded, Loads, ringVars

LEMMA KeepAdmitting ==
    ReadyWhileAdmitting /\ UNCHANGED ringVars /\ (Admitting' => Admitting)
    => ReadyWhileAdmitting'
  BY DEF ReadyWhileAdmitting, RingsIn, ringVars

LEMMA FillTypes ==
    ASSUME RingsOK, CountersOK, RingsLoaded, cursor <= Loads, NEW r,
           ringState' = [ringState EXCEPT ![r] = "stream1"],
           ringLoad' = [ringLoad EXCEPT ![r] = cursor],
           ringDone' = [ringDone EXCEPT ![r] = FALSE],
           UNCHANGED <<depth, stopFlag>>
    PROVE  RingsOK' /\ RingsLoaded'
<1>1. RingsOK'
  BY DEF RingsOK, CountersOK
<1>2. Loads' = Loads /\ cursor \in 1..Loads
  BY BatchesAssumption DEF Loads, CountersOK
<1>3. ASSUME NEW q \in Ring, ringState'[q] # "free"
      PROVE  ringLoad'[q] \in 1..Loads
  BY <1>2, <1>3 DEF RingsOK, RingsLoaded
<1> QED
  BY <1>1, <1>2, <1>3 DEF RingsLoaded

-----------------------------------------------------------------------------
(* The inductive step, one case per action; a group the action does not     *)
(* mention is unchanged.                                                    *)

LEMMA TypeStep == TypeInv /\ [Next]_vars => TypeInv'
<1> SUFFICES ASSUME TypeInv, [Next]_vars PROVE TypeInv'
  OBVIOUS
<1> USE DEF TypeInv
<1>1. CASE LoopTest
  <2>1. ControlOK' /\ ReturnsRight'
    BY <1>1 DEF LoopTest, ControlOK, ReturnsRight, Positions
  <2>2. ReadyWhileAdmitting'
    BY <1>1, KeepAdmitting DEF LoopTest, Admitting, ControlOK, ReturnsRight
  <2> QED
    BY <1>1, <2>1, <2>2, Keep, KeepHost, KeepLoaded DEF LoopTest
<1>2. CASE ReapStream4
  <2>1. ControlOK' /\ ReturnsRight'
    BY <1>2 DEF ReapStream4, ReleaseSlots, ReleaseDoneSlots, ControlOK,
         ReturnsRight, Positions
  <2>2. QueuesOK'
    BY <1>2, ReleaseTypes DEF ReapStream4, ReleaseSlots, QueuesOK, BanksOK,
         queueVars
  <2>3. SlotsOK'
    BY <1>2, ReleaseTypes DEF ReapStream4, ReleaseSlots, SlotsOK, slotVars
  <2>4. ReadyWhileAdmitting'
    BY <1>2, KeepAdmitting DEF ReapStream4, ReleaseSlots, ReleaseDoneSlots,
         Admitting, ControlOK, ReturnsRight
  <2> QED
    BY <1>2, <2>1, <2>2, <2>3, <2>4, Keep, KeepHost, KeepLoaded DEF ReapStream4
<1>3. CASE ReapRings
  <2>1. ControlOK' /\ ReturnsRight'
    BY <1>3 DEF ReapRings, ReadyRings, ControlOK, ReturnsRight, Positions
  <2>2. RingsOK'
    BY <1>3 DEF ReapRings, ReadyRings, RingsOK, ringVars
  <2>3. RingsLoaded'
    BY <1>3 DEF ReapRings, ReadyRings, RingsLoaded, Loads, ringVars, RingsOK,
         CountersOK
  <2>4. ReadyWhileAdmitting'
    BY <1>3 DEF ReapRings, ReadyRings, ReadyWhileAdmitting, Admitting, RingsIn,
         ringVars, ControlOK, RingsOK
  <2> QED
    BY <1>3, <2>1, <2>2, <2>3, <2>4, Keep, KeepHost DEF ReapRings
<1>4. CASE ReapStream3
  <2>1. ControlOK' /\ ReturnsRight'
    BY <1>4 DEF ReapStream3, FinishStream3, CompleteStream3, RingReturned,
         AppendReadyQueue, ControlOK, ReturnsRight, Positions
  <2>2. RingsOK'
    BY <1>4 DEF ReapStream3, FinishStream3, CompleteStream3, RingReturned,
         AppendReadyQueue, RingsOK, ringVars
  <2>3. QueuesOK'
    BY <1>4 DEF ReapStream3, FinishStream3, CompleteStream3, RingReturned,
         AppendReadyQueue, QueuesOK, BanksOK, queueVars
  <2>4. Stream3OK'
    BY <1>4 DEF ReapStream3, FinishStream3, CompleteStream3, RingReturned,
         AppendReadyQueue, Stream3OK, s3Vars
  <2>5. BanksOK'
    BY <1>4 DEF ReapStream3, FinishStream3, CompleteStream3, RingReturned,
         AppendReadyQueue, BanksOK, bankVars
  <2>6. RingsLoaded'
    BY <1>4 DEF ReapStream3, FinishStream3, CompleteStream3, RingReturned,
         AppendReadyQueue, RingsLoaded, Loads, ringVars, RingsOK, CountersOK
  <2>7. ReadyWhileAdmitting'
    BY <1>4 DEF ReapStream3, FinishStream3, CompleteStream3, RingReturned,
         AppendReadyQueue, ReadyWhileAdmitting, Admitting, RingsIn, ringVars,
         ControlOK, RingsOK
  <2> QED
    BY <1>4, <2>1, <2>2, <2>3, <2>4, <2>5, <2>6, <2>7, Keep, KeepHost DEF
         ReapStream3
<1>5. CASE CheckStop
  <2>1. ControlOK' /\ ReturnsRight'
    BY <1>5 DEF CheckStop, DiscardReady, Halts, ControlOK, ReturnsRight, Positions
  <2>2. RingsOK'
    BY <1>5 DEF CheckStop, DiscardReady, Halts, RingsOK, ringVars
  <2>3. RingsLoaded'
    BY <1>5 DEF CheckStop, DiscardReady, Halts, RingsLoaded, Loads, ringVars,
         RingsOK, CountersOK
  <2>4. ReadyWhileAdmitting'
    BY <1>5 DEF CheckStop, DiscardReady, Halts, ReadyWhileAdmitting, Admitting,
         RingsIn, ringVars, ControlOK, RingsOK
  <2> QED
    BY <1>5, <2>1, <2>2, <2>3, <2>4, Keep, KeepHost DEF CheckStop
<1>6. CASE UpdateBefore
  <2>1. ControlOK' /\ ReturnsRight'
    BY <1>6 DEF UpdateBefore, MaybeUpdate, ControlOK, ReturnsRight, Positions
  <2>2. ReadyWhileAdmitting'
    BY <1>6, KeepAdmitting DEF UpdateBefore, MaybeUpdate, Admitting, ControlOK,
         ReturnsRight
  <2> QED
    BY <1>6, <2>1, <2>2, Keep, KeepHost, KeepLoaded DEF UpdateBefore, MaybeUpdate
<1>7. CASE LaunchRelease
  <2>1. ControlOK' /\ ReturnsRight'
    BY <1>7 DEF LaunchRelease, ReleaseSlots, ReleaseDoneSlots, ControlOK,
         ReturnsRight, Positions
  <2>2. QueuesOK'
    BY <1>7, ReleaseTypes DEF LaunchRelease, ReleaseSlots, QueuesOK, BanksOK,
         queueVars
  <2>3. SlotsOK'
    BY <1>7, ReleaseTypes DEF LaunchRelease, ReleaseSlots, SlotsOK, slotVars
  <2>4. ReadyWhileAdmitting'
    BY <1>7, KeepAdmitting DEF LaunchRelease, ReleaseSlots, ReleaseDoneSlots,
         Admitting, ControlOK, ReturnsRight
  <2> QED
    BY <1>7, <2>1, <2>2, <2>3, <2>4, Keep, KeepHost, KeepLoaded DEF LaunchRelease
<1>8. CASE LaunchPending
  <2>1. ControlOK' /\ ReturnsRight'
    BY <1>8 DEF LaunchPending, LaunchStream4, Launchable, FreeSlots, ControlOK,
         ReturnsRight, Positions
  <2>2. QueuesOK'
    BY <1>8, LaunchTypes DEF LaunchPending, FreeSlots, QueuesOK, BanksOK, queueVars
  <2>3. SlotsOK'
    BY <1>8, LaunchTypes DEF LaunchPending, FreeSlots, SlotsOK, slotVars
  <2>4. ReadyWhileAdmitting'
    BY <1>8, KeepAdmitting DEF LaunchPending, LaunchStream4, Launchable,
         FreeSlots, Admitting, ControlOK, ReturnsRight
  <2> QED
    BY <1>8, <2>1, <2>2, <2>3, <2>4, Keep, KeepHost, KeepLoaded DEF LaunchPending
<1>9. CASE FillRings
  <2>1. ControlOK' /\ ReturnsRight'
    BY <1>9 DEF FillRings, ControlOK, ReturnsRight, Positions
  <2>2. CountersOK'
    BY <1>9 DEF FillRings, CountersOK
  <2>3. RingsOK' /\ RingsLoaded'
    <3>1. CASE ~stopRequested /\ RingsIn("free") # {} /\ cursor <= Loads
      BY <1>9, <3>1, FillTypes DEF FillRings
    <3>2. CASE ~(~stopRequested /\ RingsIn("free") # {} /\ cursor <= Loads)
      BY <1>9, <3>2, Keep, KeepLoaded DEF FillRings, ringVars
    <3> QED
      BY <3>1, <3>2
  <2>4. ReadyWhileAdmitting'
    BY <1>9 DEF FillRings, ReadyWhileAdmitting, Admitting, RingsIn, ringVars,
         ControlOK, RingsOK
  <2> QED
    BY <1>9, <2>1, <2>2, <2>3, <2>4, Keep DEF FillRings
<1>10. CASE CopyCleanCounts
  <2>1. ControlOK' /\ ReturnsRight'
    BY <1>10 DEF CopyCleanCounts, ControlOK, ReturnsRight, Positions
  <2>2. CountersOK'
    <3>1. \A p \in Bank : Cardinality(clean[p]) \in Nat
      BY RowsFinite DEF BanksOK
    <3> QED
      BY <1>10, <3>1 DEF CopyCleanCounts, CountersOK
  <2>3. ReadyWhileAdmitting'
    BY <1>10 DEF CopyCleanCounts, ReadyWhileAdmitting, Admitting, RingsIn, ringVars
  <2> QED
    BY <1>10, <2>1, <2>2, <2>3, Keep, KeepLoaded DEF CopyCleanCounts
<1>11. CASE CopyDirtyCounts
  <2>1. ControlOK' /\ ReturnsRight'
    BY <1>11 DEF CopyDirtyCounts, ControlOK, ReturnsRight, Positions
  <2>2. CountersOK'
    <3>1. \A p \in Bank : Cardinality(dirty[p]) \in Nat
      BY RowsFinite DEF BanksOK
    <3> QED
      BY <1>11, <3>1 DEF CopyDirtyCounts, CountersOK
  <2>3. ReadyWhileAdmitting'
    BY <1>11, KeepAdmitting DEF CopyDirtyCounts, Admitting, ControlOK, ReturnsRight
  <2> QED
    BY <1>11, <2>1, <2>2, <2>3, Keep, KeepLoaded DEF CopyDirtyCounts
<1>12. CASE CopyProcessingFlags
  <2>1. ControlOK' /\ ReturnsRight'
    BY <1>12 DEF CopyProcessingFlags, ControlOK, ReturnsRight, Positions
  <2>2. CountersOK'
    BY <1>12 DEF CopyProcessingFlags, CountersOK
  <2>3. ReadyWhileAdmitting'
    BY <1>12, KeepAdmitting DEF CopyProcessingFlags, Admitting, ControlOK,
         ReturnsRight
  <2> QED
    BY <1>12, <2>1, <2>2, <2>3, Keep, KeepLoaded DEF CopyProcessingFlags
<1>13. CASE PressureBuild
  <2>1. ControlOK' /\ ReturnsRight'
    BY <1>13 DEF PressureBuild, BuildReadyQueue, SelectedReady, ControlOK,
         ReturnsRight, Positions
  <2>2. BanksOK'
    BY <1>13, BuildTypes DEF PressureBuild, BanksOK, bankVars
  <2>3. ReadyWhileAdmitting'
    BY <1>13, KeepAdmitting DEF PressureBuild, BuildReadyQueue, SelectedReady,
         Admitting, ControlOK, ReturnsRight
  <2> QED
    BY <1>13, <2>1, <2>2, <2>3, Keep, KeepHost, KeepLoaded DEF PressureBuild
<1>14. CASE PressureAppend
  <2>1. ControlOK' /\ ReturnsRight'
    BY <1>14 DEF PressureAppend, AppendReadyQueue, ControlOK, ReturnsRight,
         Positions
  <2>2. QueuesOK'
    BY <1>14 DEF PressureAppend, AppendReadyQueue, QueuesOK, BanksOK, queueVars
  <2>3. BanksOK'
    BY <1>14 DEF PressureAppend, AppendReadyQueue, BanksOK, bankVars
  <2>4. ReadyWhileAdmitting'
    BY <1>14, KeepAdmitting DEF PressureAppend, AppendReadyQueue, Admitting,
         ControlOK, ReturnsRight
  <2> QED
    BY <1>14, <2>1, <2>2, <2>3, <2>4, Keep, KeepHost, KeepLoaded DEF PressureAppend
<1>15. CASE PressureEnd
  <2>1. ControlOK' /\ ReturnsRight'
    BY <1>15 DEF PressureEnd, ControlOK, ReturnsRight, Positions
  <2>2. ReadyWhileAdmitting'
    BY <1>15, KeepAdmitting DEF PressureEnd, Admitting, ControlOK, ReturnsRight
  <2> QED
    BY <1>15, <2>1, <2>2, Keep, KeepHost, KeepLoaded DEF PressureEnd
<1>16. CASE LaunchStream3
  <2>1. ControlOK' /\ ReturnsRight'
    BY <1>16 DEF LaunchStream3, ControlOK, ReturnsRight, Positions
  <2>2. RingsOK'
    BY <1>16 DEF LaunchStream3, RingsOK, ringVars
  <2>3. Stream3OK'
    BY <1>16 DEF LaunchStream3, Stream3OK, s3Vars
  <2>4. RingsLoaded'
    <3>1. Oldest(RingsIn("ready")) \in RingsIn("ready")
      BY <1>16, OldestIsOne DEF LaunchStream3, ReadyWhileAdmitting, Admitting,
           RingsIn
    <3> QED
      BY <1>16, <3>1 DEF LaunchStream3, RingsIn, RingsLoaded, Loads, RingsOK
  <2>5. ReadyWhileAdmitting'
    BY <1>16 DEF LaunchStream3, ReadyWhileAdmitting, Admitting, RingsIn,
         ringVars, ControlOK, RingsOK
  <2> QED
    BY <1>16, <2>1, <2>2, <2>3, <2>4, <2>5, Keep, KeepHost DEF LaunchStream3
<1>17. CASE UpdateAfter
  <2>1. ControlOK' /\ ReturnsRight'
    BY <1>17 DEF UpdateAfter, MaybeUpdate, ControlOK, ReturnsRight, Positions
  <2>2. ReadyWhileAdmitting'
    BY <1>17, KeepAdmitting DEF UpdateAfter, MaybeUpdate, Admitting, ControlOK,
         ReturnsRight
  <2> QED
    BY <1>17, <2>1, <2>2, Keep, KeepHost, KeepLoaded DEF UpdateAfter, MaybeUpdate
<1>18. CASE EndPass
  <2>1. ControlOK' /\ ReturnsRight'
    BY <1>18, ZenonT(40) DEF EndPass, WaitStream3, WaitOldestRing, WaitStream4Slot, GiveUp,
         FinishStream3, CompleteStream3, RingReturned, AppendReadyQueue,
         ReadyRings, DiscardReady, ReleaseSlots, ReleaseDoneSlots, ControlOK,
         ReturnsRight, Positions
  <2>2. RingsOK'
    BY <1>18 DEF EndPass, WaitStream3, WaitOldestRing, WaitStream4Slot, GiveUp,
         FinishStream3, CompleteStream3, RingReturned, AppendReadyQueue,
         ReadyRings, DiscardReady, ReleaseSlots, ReleaseDoneSlots, RingsOK,
         ringVars
  <2>3. QueuesOK'
    BY <1>18, ReleaseTypes DEF EndPass, WaitStream3, WaitOldestRing,
         WaitStream4Slot, GiveUp, FinishStream3, CompleteStream3, RingReturned,
         AppendReadyQueue, ReadyRings, DiscardReady, ReleaseSlots, QueuesOK,
         BanksOK, queueVars
  <2>4. SlotsOK'
    BY <1>18, ReleaseTypes DEF EndPass, WaitStream3, WaitOldestRing,
         WaitStream4Slot, GiveUp, FinishStream3, CompleteStream3, RingReturned,
         AppendReadyQueue, ReadyRings, DiscardReady, ReleaseSlots, SlotsOK,
         slotVars
  <2>5. Stream3OK'
    BY <1>18 DEF EndPass, WaitStream3, WaitOldestRing, WaitStream4Slot, GiveUp,
         FinishStream3, CompleteStream3, RingReturned, AppendReadyQueue,
         ReadyRings, DiscardReady, ReleaseSlots, ReleaseDoneSlots, Stream3OK,
         s3Vars
  <2>6. BanksOK'
    BY <1>18 DEF EndPass, WaitStream3, WaitOldestRing, WaitStream4Slot, GiveUp,
         FinishStream3, CompleteStream3, RingReturned, AppendReadyQueue,
         ReadyRings, DiscardReady, ReleaseSlots, ReleaseDoneSlots, BanksOK,
         bankVars
  <2>7. RingsLoaded'
    BY <1>18 DEF EndPass, WaitStream3, WaitOldestRing, WaitStream4Slot, GiveUp,
         FinishStream3, CompleteStream3, RingReturned, AppendReadyQueue,
         ReadyRings, DiscardReady, ReleaseSlots, ReleaseDoneSlots, RingsLoaded,
         Loads, ringVars, RingsOK, CountersOK
  <2>8. ReadyWhileAdmitting'
    BY <1>18 DEF EndPass, WaitStream3, WaitOldestRing, WaitStream4Slot, GiveUp,
         FinishStream3, CompleteStream3, RingReturned, AppendReadyQueue,
         ReadyRings, DiscardReady, ReleaseSlots, ReleaseDoneSlots,
         ReadyWhileAdmitting, Admitting, RingsIn, ringVars, ControlOK, RingsOK
  <2> QED
    BY <1>18, <2>1, <2>2, <2>3, <2>4, <2>5, <2>6, <2>7, <2>8, Keep, KeepHost DEF
         EndPass
<1>19. CASE Drain
  <2>1. ControlOK' /\ ReturnsRight'
    BY <1>19 DEF Drain, LaunchStream4, Launchable, FreeSlots, ReleaseSlots,
         ReleaseDoneSlots, ControlOK, ReturnsRight, Positions
  <2>2. QueuesOK'
    BY <1>19, ReleaseTypes, LaunchTypes DEF Drain, FreeSlots, ReleaseSlots,
         QueuesOK, BanksOK, queueVars
  <2>3. SlotsOK'
    BY <1>19, ReleaseTypes, LaunchTypes DEF Drain, FreeSlots, ReleaseSlots,
         SlotsOK, slotVars
  <2>4. ReadyWhileAdmitting'
    BY <1>19, KeepAdmitting DEF Drain, LaunchStream4, Launchable, FreeSlots,
         ReleaseSlots, ReleaseDoneSlots, Admitting, ControlOK, ReturnsRight
  <2> QED
    BY <1>19, <2>1, <2>2, <2>3, <2>4, Keep, KeepHost, KeepLoaded DEF Drain
<1>20. CASE UpdateThreshold
  <2>1. ControlOK' /\ ReturnsRight'
    BY <1>20 DEF UpdateThreshold, ControlOK, ReturnsRight, Positions
  <2>2. QueuesOK'
    BY <1>20 DEF UpdateThreshold, QueuesOK, BanksOK, queueVars
  <2>3. ThresholdOK'
    BY <1>20, TightenedTypes DEF UpdateThreshold, ThresholdOK, thresholdVars
  <2>4. ReadyWhileAdmitting'
    BY <1>20, KeepAdmitting DEF UpdateThreshold, Admitting, ControlOK, ReturnsRight
  <2> QED
    BY <1>20, <2>1, <2>2, <2>3, <2>4, Keep, KeepHost, KeepLoaded DEF UpdateThreshold
<1>21. CASE FlushBuild
  <2>1. ControlOK' /\ ReturnsRight'
    BY <1>21 DEF FlushBuild, BuildReadyQueue, SelectedReady, ControlOK,
         ReturnsRight, Positions
  <2>2. BanksOK'
    BY <1>21, BuildTypes DEF FlushBuild, BanksOK, bankVars
  <2>3. ReadyWhileAdmitting'
    BY <1>21, KeepAdmitting DEF FlushBuild, BuildReadyQueue, SelectedReady,
         Admitting, ControlOK, ReturnsRight
  <2> QED
    BY <1>21, <2>1, <2>2, <2>3, Keep, KeepHost, KeepLoaded DEF FlushBuild
<1>22. CASE FlushAppend
  <2>1. ControlOK' /\ ReturnsRight'
    BY <1>22 DEF FlushAppend, AppendReadyQueue, ControlOK, ReturnsRight, Positions
  <2>2. QueuesOK'
    BY <1>22 DEF FlushAppend, AppendReadyQueue, QueuesOK, BanksOK, queueVars
  <2>3. BanksOK'
    BY <1>22 DEF FlushAppend, AppendReadyQueue, BanksOK, bankVars
  <2>4. ReadyWhileAdmitting'
    BY <1>22, KeepAdmitting DEF FlushAppend, AppendReadyQueue, Admitting,
         ControlOK, ReturnsRight
  <2> QED
    BY <1>22, <2>1, <2>2, <2>3, <2>4, Keep, KeepHost, KeepLoaded DEF FlushAppend
<1>23. CASE FlushUpdate
  <2>1. ControlOK' /\ ReturnsRight'
    BY <1>23 DEF FlushUpdate, ControlOK, ReturnsRight, Positions
  <2>2. ReadyWhileAdmitting'
    BY <1>23, KeepAdmitting DEF FlushUpdate, Admitting, ControlOK, ReturnsRight
  <2> QED
    BY <1>23, <2>1, <2>2, Keep, KeepHost, KeepLoaded DEF FlushUpdate
<1>24. CASE FlushTest
  <2>1. ControlOK' /\ ReturnsRight'
    BY <1>24 DEF FlushTest, ControlOK, ReturnsRight, Positions
  <2>2. ReadyWhileAdmitting'
    BY <1>24, KeepAdmitting DEF FlushTest, Admitting, ControlOK, ReturnsRight
  <2> QED
    BY <1>24, <2>1, <2>2, Keep, KeepHost, KeepLoaded DEF FlushTest
<1>25. CASE Finalize
  <2>1. ControlOK' /\ ReturnsRight'
    BY <1>25 DEF Finalize, ThresholdReset, ControlOK, ReturnsRight, Positions
  <2>2. Stream3OK'
    BY <1>25 DEF Finalize, ThresholdReset, Stream3OK, s3Vars
  <2>3. BanksOK'
    BY <1>25 DEF Finalize, ThresholdReset, BanksOK, bankVars
  <2>4. ThresholdOK'
    BY <1>25 DEF Finalize, ThresholdReset, ThresholdOK, thresholdVars
  <2>5. BeamOK'
    <3>1. Union \subseteq Cand
      BY DEF Union, BestPerState, BanksOK, Bank
    <3> QED
      BY <1>25, <3>1 DEF Finalize, BeamOK
  <2>6. ReadyWhileAdmitting'
    BY <1>25, KeepAdmitting DEF Finalize, ThresholdReset, Admitting, ControlOK,
         ReturnsRight
  <2> QED
    BY <1>25, <2>1, <2>2, <2>3, <2>4, <2>5, <2>6, Keep, KeepHost, KeepLoaded DEF
         Finalize
<1>26. CASE StartDepth
  <2>1. ControlOK' /\ ReturnsRight'
    BY <1>26 DEF StartDepth, ControlOK, ReturnsRight, Positions
  <2>2. CountersOK'
    BY <1>26 DEF StartDepth, CountersOK
  <2>3. RingsOK'
    BY <1>26 DEF StartDepth, RingsOK, ringVars
  <2>4. QueuesOK'
    BY <1>26 DEF StartDepth, QueuesOK, BanksOK, queueVars
  <2>5. SlotsOK'
    BY <1>26 DEF StartDepth, SlotsOK, slotVars
  <2>6. Stream3OK'
    BY <1>26 DEF StartDepth, Stream3OK, s3Vars
  <2>7. RingsLoaded'
    BY <1>26 DEF StartDepth, RingsLoaded, Loads, ringVars, RingsOK, CountersOK
  <2>8. ReadyWhileAdmitting'
    BY <1>26 DEF StartDepth, ReadyWhileAdmitting, Admitting, RingsIn, ringVars,
         ControlOK, RingsOK
  <2> QED
    BY <1>26, <2>1, <2>2, <2>3, <2>4, <2>5, <2>6, <2>7, <2>8, Keep DEF StartDepth
<1>27. CASE FinishRing
  <2>1. RingsOK'
    BY <1>27 DEF FinishRing, RingsOK, ringVars
  <2>2. RingsLoaded' /\ ReadyWhileAdmitting'
    BY <1>27 DEF FinishRing, RingsLoaded, ReadyWhileAdmitting, Admitting, RingsIn,
                 Loads, hostVars
  <2> QED
    BY <1>27, <2>1, <2>2, Keep, KeepHost DEF FinishRing, Admitting, hostVars
<1>28. CASE Stream3Pack
  <2>1. Stream3OK'
    <3> DEFINE batch == UNION {Load(r) : r \in RingsIn("stream3")}
    <3>1. batch \subseteq Cand
      BY LoadIsCandidates
    <3>2. BestPerState(AtMost(batch, threshold)) \subseteq Cand
      BY <3>1, ReductionsAreRows
    <3> QED
      BY <1>28, <3>1, <3>2 DEF Stream3Pack, Stream3OK
  <2> QED
    BY <1>28, <2>1, Keep, KeepHost, KeepLoaded, KeepAdmitting DEF Stream3Pack,
         Admitting, hostVars
<1>29. CASE Stream3Prepare
  <2>1. Stream3OK'
    BY <1>29 DEF Stream3Prepare, Stream3OK, s3Vars
  <2>2. BanksOK'
    <3>1. \A l \in Shard : WriteBank(l, Raw(l))[2] \in {0, 1}
      BY DEF WriteBank, Sibling, BanksOK
    <3> QED
      BY <1>29, <3>1 DEF Stream3Prepare, BanksOK
  <2> QED
    BY <1>29, <2>1, <2>2, Keep, KeepHost, KeepLoaded, KeepAdmitting DEF
         Stream3Prepare, Admitting, hostVars
<1>30. CASE Stream3Scatter
  <2>1. Stream3OK'
    BY <1>30 DEF Stream3Scatter, AppendUnlessFatal, Appended, Stream3OK, s3Vars
  <2>2. BanksOK'
    <3>1. \A p \in Bank : Appended(p) \subseteq Cand
      BY ReductionsAreRows DEF Appended, BanksOK, Stream3OK
    <3> QED
      BY <1>30, <3>1 DEF Stream3Scatter, AppendUnlessFatal, BanksOK
  <2> QED
    BY <1>30, <2>1, <2>2, Keep, KeepHost, KeepLoaded, KeepAdmitting DEF
         Stream3Scatter, Admitting, hostVars
<1>31. CASE Stream3BuildReady
  <2>1. Stream3OK'
    BY <1>31 DEF Stream3BuildReady, BuildReadyQueue, SelectedReady, Stream3OK,
         s3Vars
  <2>2. BanksOK'
    BY <1>31, BuildTypes DEF Stream3BuildReady, BanksOK, bankVars
  <2> QED
    BY <1>31, <2>1, <2>2, Keep, KeepHost, KeepLoaded, KeepAdmitting DEF
         Stream3BuildReady, Admitting, hostVars
<1>32. ASSUME NEW s \in Slot, Stream4Sort(s) PROVE TypeInv'
  <2>1. SlotsOK'
    BY <1>32 DEF Stream4Sort, SlotsOK, slotVars
  <2>2. BanksOK'
    <3> DEFINE p == slotBank[s]
    <3>1. p \in Bank => clean[p] \cup dirty[p] \in SUBSET Cand
      BY DEF BanksOK
    <3>2. p \in Bank => Sorted(p) \subseteq Cand
      BY <3>1, ReductionsAreRows DEF Sorted
    <3> HIDE DEF p
    <3>3. \A f, S : f \in [Bank -> SUBSET Cand] /\ (p \in Bank => S \subseteq Cand)
                 => [f EXCEPT ![p] = S] \in [Bank -> SUBSET Cand]
      OBVIOUS
    <3>4. clean' \in [Bank -> SUBSET Cand] /\ dirty' \in [Bank -> SUBSET Cand]
      BY <1>32, <3>2, <3>3 DEF Stream4Sort, BanksOK, p
    <3> QED
      BY <1>32, <3>4 DEF Stream4Sort, BanksOK
  <2> QED
    BY <1>32, <2>1, <2>2, Keep, KeepHost, KeepLoaded, KeepAdmitting DEF
         Stream4Sort, Admitting, hostVars
<1>33. ASSUME NEW s \in Slot, Stream4Publish(s) PROVE TypeInv'
  <2>1. SlotsOK'
    BY <1>33 DEF Stream4Publish, SlotsOK, slotVars
  <2>2. BanksOK'
    BY <1>33 DEF Stream4Publish, BanksOK, bankVars
  <2> QED
    BY <1>33, <2>1, <2>2, Keep, KeepHost, KeepLoaded, KeepAdmitting DEF
         Stream4Publish, Admitting, hostVars
<1>34. ASSUME NEW s \in Slot, Stream4Signal(s) PROVE TypeInv'
  <2>1. SlotsOK'
    BY <1>34 DEF Stream4Signal, SlotsOK, slotVars
  <2> QED
    BY <1>34, <2>1, Keep, KeepHost, KeepLoaded, KeepAdmitting DEF Stream4Signal,
         Admitting, hostVars
<1>35. CASE UNCHANGED vars
  BY <1>35, Keep, KeepHost, KeepLoaded, KeepAdmitting DEF vars, hostVars, Admitting
<1> QED
  BY <1>1, <1>2, <1>3, <1>4, <1>5, <1>6, <1>7, <1>8, <1>9, <1>10, <1>11, <1>12,
       <1>13, <1>14, <1>15, <1>16, <1>17, <1>18, <1>19, <1>20, <1>21, <1>22,
       <1>23, <1>24, <1>25, <1>26, <1>27, <1>28, <1>29, <1>30, <1>31, <1>32,
       <1>33, <1>34, <1>35 DEF Next, Host, MainLoop, Stream3, Stream4, Ended

LEMMA TypeInit == Init => TypeInv
<1> SUFFICES ASSUME Init PROVE TypeInv
  OBVIOUS
<1>1. ControlOK /\ ReturnsRight /\ ReadyWhileAdmitting
  BY DEF Init, ControlOK, Positions, ReturnsRight, ReadyWhileAdmitting, Admitting
<1>2. CountersOK
  <2>1. Len(Batches) \in Nat /\ 1 \in 1..Len(Batches)
    BY BatchesAssumption
  <2> QED
    BY <2>1 DEF Init, CountersOK
<1>3. RingsOK /\ RingsLoaded
  <2>1. ringDone \in [Ring -> BOOLEAN] /\ stopFlag \in BOOLEAN
    BY DEF Init
  <2>2. /\ ringState \in [Ring -> {"free", "stream1", "ready", "stream3"}]
        /\ ringLoad \in [Ring -> Nat \ {0}]
    BY DEF Init
  <2>3. RingsLoaded
    BY DEF Init, RingsLoaded
  <2> QED
    BY <2>1, <2>2, <2>3 DEF RingsOK
<1>4. QueuesOK
  BY DEF Init, QueuesOK
<1>5. SlotsOK
  BY DEF Init, SlotsOK
<1>6. Stream3OK /\ BanksOK /\ ThresholdOK /\ BeamOK
  BY DEF Init, Stream3OK, BanksOK, ThresholdOK, BeamOK
<1> QED
  BY <1>1, <1>2, <1>3, <1>4, <1>5, <1>6 DEF TypeInv

\* The typed invariant, with what it takes to keep it, holds in every reachable
\* state of run_depth_cuda_graphs and its streams.
THEOREM TypesHold == Spec => []TypeInv
  BY TypeInit, TypeStep, PTL DEF Spec

\* Every variable keeps the type the program gives it: for any candidates, any
\* shards and any sizes, in every reachable state of the depth pipeline.
THEOREM TypeCorrect == Spec => []TypeOK
<1>1. TypeInv => TypeOK
  BY DEF TypeInv, TypeOK, ControlOK, CountersOK, RingsOK, QueuesOK, SlotsOK,
         Stream3OK, BanksOK, ThresholdOK, BeamOK
<1> QED
  BY <1>1, TypesHold, PTL

LEMMA TightensStep ==
    ASSUME TypeInv, [Next]_vars, pc # "finalize", initialized
    PROVE  initialized' /\ threshold' <= threshold
<1>1. threshold \in Nat
  BY ScoresBounded, CandAssumption DEF TypeInv, ThresholdOK
<1>2. CASE UpdateThreshold
  <2>1. CASE UNCHANGED thresholdVars
    BY <1>1, <2>1 DEF thresholdVars
  <2>2. CASE /\ ConservativeCount(NoThreshold) >= BeamWidth
             /\ threshold' = Tightened /\ initialized' = TRUE
    BY <2>2, TightenedTypes DEF TypeInv
  <2> QED
    BY <1>2, <2>1, <2>2 DEF UpdateThreshold
<1>3. CASE UNCHANGED thresholdVars
  BY <1>1, <1>3 DEF thresholdVars
<1>4. UpdateThreshold \/ Finalize \/ UNCHANGED thresholdVars
  <2>1. CASE MainLoop
    BY <2>1 DEF MainLoop, LoopTest, ReapStream4, ReapRings, ReapStream3, CheckStop,
         UpdateBefore, UpdateAfter, MaybeUpdate, LaunchRelease, LaunchPending,
         FillRings, CopyCleanCounts, CopyDirtyCounts, CopyProcessingFlags,
         PressureBuild, PressureAppend, PressureEnd, LaunchStream3, EndPass
  <2>2. CASE Host /\ ~MainLoop
    BY <2>2 DEF Host, Drain, FlushBuild, FlushAppend, FlushUpdate, FlushTest,
         StartDepth
  <2>3. CASE FinishRing \/ Stream3
    BY <2>3 DEF FinishRing, Stream3, Stream3Pack, Stream3Prepare, Stream3Scatter,
         Stream3BuildReady
  <2>4. ASSUME NEW s \in Slot, Stream4(s) PROVE UNCHANGED thresholdVars
    BY <2>4 DEF Stream4, Stream4Sort, Stream4Publish, Stream4Signal
  <2>5. CASE UNCHANGED vars
    BY <2>5 DEF vars
  <2> QED
    BY <2>1, <2>2, <2>3, <2>4, <2>5 DEF Next, Ended
<1> QED
  BY <1>2, <1>3, <1>4 DEF Finalize

\* A threshold once published in a depth is never withdrawn and never loosened,
\* whatever the banks hold when threshold_update_periodic_kernel reads them: a
\* candidate pruned early would be pruned by every later threshold too.
THEOREM ThresholdOnlyTightens == Spec => ThresholdTightens
<1>1. TypeInv /\ [Next]_vars
      => [pc # "finalize" /\ initialized => initialized' /\ threshold' <= threshold]_vars
  BY TightensStep
<1> QED
  BY <1>1, TypesHold, PTL DEF Spec, ThresholdTightens
-----------------------------------------------------------------------------
(* The hand-over of shard banks.                                           *)

\* Who holds which bank, apart from where the host stands.
Holders == Ownership /\ OneBankPerShard /\ SlotsAgree

\* What the host's position says of the streams.
Positioned ==
    /\ Stream3Known /\ ReadyListTaken /\ StopPositions /\ DrainedPositions
    /\ NoSchedulerThrow

SafeInv == TypeInv /\ Holders /\ Positioned /\ FlushProgress

holderVars == <<processing, ready, pending, logicalRunning, slotVars>>
-----------------------------------------------------------------------------
(* Who holds a bank: one lemma for each way it changes hands.               *)

LEMMA KeepHolders == Holders /\ UNCHANGED holderVars => Holders'
  BY DEF Holders, holderVars, slotVars, Ownership, OneBankPerShard, SlotsAgree,
       Sorting

\* Of two ready banks of a shard exactly one is preferred.
LEMMA PreferenceIsStrict ==
    ASSUME BanksOK, NEW p \in Bank, NEW force \in BOOLEAN
    PROVE  ~(Preferred(p, Sibling(p), force) /\ Preferred(Sibling(p), p, force))
<1> DEFINE q == Sibling(p)
<1>1. Available(p) \in Int /\ Available(q) \in Int
  <2>1. q \in Bank
    BY SiblingIsBank
  <2>2. \A b \in Bank : Cardinality(clean[b]) \in Nat /\ Cardinality(dirty[b]) \in Nat
    BY RowsFinite DEF BanksOK
  <2> QED
    BY <2>1, <2>2, SizesAssumption DEF Available, Used
<1>2. p[1] = q[1] /\ p[2] \in {0, 1} /\ q[2] = 1 - p[2] /\ writeIdx[p[1]] \in {0, 1}
  BY SiblingIsBank DEF Sibling, BanksOK
<1> HIDE DEF q
<1>3. ~(Preferred(p, q, force) /\ Preferred(q, p, force))
  BY <1>1, <1>2 DEF Preferred
<1> QED
  BY <1>3 DEF q

LEMMA BuildHolders ==
    ASSUME BanksOK, QueuesOK, SlotsOK, Holders, ready = {}, NEW force \in BOOLEAN,
           BuildReadyQueue(force), UNCHANGED <<pending, logicalRunning, slotVars>>
    PROVE  Holders'
<1> DEFINE sel == SelectedReady(force)
<1>1. /\ sel \subseteq Bank /\ ready' = sel
      /\ processing' = [p \in Bank |-> processing[p] \/ p \in sel]
  BY DEF BuildReadyQueue, SelectedReady
<1>2. \A p \in sel : ~processing[p] /\ ~processing[Sibling(p)]
  BY DEF SelectedReady
<1>3. \A p \in sel : Sibling(p) \notin sel
  BY PreferenceIsStrict, SiblingIsBank DEF SelectedReady
<1>4. slotBank' = slotBank /\ slotPhase' = slotPhase /\ pending' = pending
      /\ logicalRunning' = logicalRunning
  BY DEF slotVars
<1> HIDE DEF sel
<1>5. Ownership'
  <2>1. \A p : Sorting(p)' <=> Sorting(p)
    BY <1>4 DEF Sorting
  <2>2. \A p \in Bank : processing'[p] <=> (processing[p] \/ p \in sel)
    BY <1>1
  <2> QED
    BY <1>1, <1>2, <1>4, <2>1, <2>2 DEF Holders, Ownership
<1>6. OneBankPerShard'
  BY <1>1, <1>2, <1>3, <1>4, SiblingIsBank, ZenonT(40) DEF Holders, OneBankPerShard
<1> QED
  BY <1>4, <1>5, <1>6 DEF Holders, SlotsAgree

LEMMA AppendHolders ==
    ASSUME Holders, AppendReadyQueue(ready),
           UNCHANGED <<processing, logicalRunning, slotVars>>
    PROVE  Holders'
<1>1. Ownership'
  BY DEF AppendReadyQueue, Holders, Ownership, Sorting, slotVars
<1> QED
  BY <1>1 DEF Holders, OneBankPerShard, SlotsAgree, slotVars

\* A slot that is done runs the bank the host believes, so completing it cannot
\* throw.
LEMMA CompletionsMatch == SlotsOK /\ Holders => ~CompletionMismatch
  BY DEF Holders, SlotsAgree, CompletionMismatch, DoneSlots

LEMMA ReleaseHolders ==
    ASSUME QueuesOK, SlotsOK, Holders, ReleaseDoneSlots,
           UNCHANGED <<processing, ready, pending>>
    PROVE  Holders'
<1>1. \A s \in Slot : slotBank'[s] = IF s \in DoneSlots THEN NoBank ELSE slotBank[s]
  BY DEF ReleaseDoneSlots
<1>2. \A s \in Slot : slotPhase'[s] = IF s \in DoneSlots THEN "free" ELSE slotPhase[s]
  BY DEF ReleaseDoneSlots
<1>3. \A l \in Shard : logicalRunning'[l] =
        IF \E s \in DoneSlots : slotBank[s][1] = l THEN NoBank ELSE logicalRunning[l]
  BY DEF ReleaseDoneSlots
<1>4. \A p : Sorting(p)' <=> Sorting(p)
  BY <1>1, <1>2, NoBankIsNone DEF Sorting, DoneSlots
<1>5. Ownership'
  BY <1>1, <1>4, NoBankIsNone DEF Holders, Ownership
<1>6. OneBankPerShard'
  BY <1>1 DEF Holders, OneBankPerShard
<1>7. SlotsAgree'
  <2>1. \A s \in Slot : slotBank'[s] = NoBank <=> slotPhase'[s] = "free"
    BY <1>1, <1>2 DEF Holders, SlotsAgree
  <2>2. ASSUME NEW s \in Slot, slotBank'[s] # NoBank
        PROVE  logicalRunning'[slotBank'[s][1]] = slotBank'[s]
    <3>1. s \notin DoneSlots /\ slotBank'[s] = slotBank[s] /\ slotBank[s] \in Bank
      BY <1>1, <2>2 DEF SlotsOK
    <3>2. \A t \in DoneSlots : slotBank[t][1] # slotBank[s][1]
      BY <3>1, <2>2 DEF Holders, OneBankPerShard, SlotsAgree, DoneSlots
    <3> QED
      BY <1>3, <2>2, <3>1, <3>2, SiblingIsBank DEF Holders, SlotsAgree
  <2>3. ASSUME NEW l \in Shard, logicalRunning'[l] # NoBank
        PROVE  \E s \in Slot : slotBank'[s] = logicalRunning'[l] /\ slotBank'[s][1] = l
    <3>1. /\ logicalRunning'[l] = logicalRunning[l]
          /\ \A s \in DoneSlots : slotBank[s][1] # l
      BY <1>3, <2>3
    <3>2. PICK s \in Slot : slotBank[s] = logicalRunning[l] /\ slotBank[s][1] = l
      BY <2>3, <3>1 DEF Holders, SlotsAgree
    <3> QED
      BY <1>1, <3>1, <3>2
  <2> QED
    BY <2>1, <2>2, <2>3 DEF SlotsAgree
<1> QED
  BY <1>5, <1>6, <1>7 DEF Holders

LEMMA LaunchHolders ==
    ASSUME QueuesOK, SlotsOK, Holders, NEW p \in Launchable, LaunchStream4(p),
           UNCHANGED <<processing, ready>>
    PROVE  Holders'
<1>1. PICK s \in FreeSlots :
        /\ slotBank' = [slotBank EXCEPT ![s] = p]
        /\ slotPhase' = [slotPhase EXCEPT ![s] = "running"]
        /\ logicalRunning' = [logicalRunning EXCEPT ![p[1]] = p]
        /\ pending' = pending \ {p}
  BY DEF LaunchStream4
<1>2. s \in Slot /\ slotBank[s] = NoBank /\ slotPhase[s] = "free"
  BY DEF FreeSlots, Holders, SlotsAgree
<1>3. p \in pending /\ p \in Bank /\ p[1] \in Shard /\ p # NoBank
      /\ logicalRunning[p[1]] = NoBank
  BY SiblingIsBank DEF Launchable, QueuesOK
<1>4. \A t \in Slot : slotBank[t] # NoBank => slotBank[t][1] # p[1]
  BY <1>3 DEF Holders, SlotsAgree
<1>5. /\ \A t \in Slot : slotBank'[t] = IF t = s THEN p ELSE slotBank[t]
      /\ \A t \in Slot : slotPhase'[t] = IF t = s THEN "running" ELSE slotPhase[t]
      /\ \A l \in Shard : logicalRunning'[l] = IF l = p[1] THEN p ELSE logicalRunning[l]
  BY <1>1, <1>2, <1>3 DEF SlotsOK, QueuesOK
<1>6. Ownership'
  <2>1. \A q \in Bank : q # p => (Sorting(q)' <=> Sorting(q))
    BY <1>2, <1>5, NoBankIsNone DEF Sorting
  <2>2. Sorting(p)' /\ ~Sorting(p)
    BY <1>2, <1>3, <1>4, <1>5 DEF Sorting
  <2>3. \A q \in Bank, t, u \in Slot : slotBank'[t] = q /\ slotBank'[u] = q => t = u
    BY <1>2, <1>3, <1>4, <1>5 DEF Holders, Ownership
  <2> QED
    BY <1>1, <1>3, <2>1, <2>2, <2>3 DEF Holders, Ownership
<1>7. OneBankPerShard'
  BY <1>2, <1>3, <1>4, <1>5 DEF Holders, OneBankPerShard
<1>8. SlotsAgree'
  <2>1. \A t \in Slot : slotBank'[t] = NoBank <=> slotPhase'[t] = "free"
    BY <1>3, <1>5 DEF Holders, SlotsAgree
  <2>2. ASSUME NEW t \in Slot, slotBank'[t] # NoBank
        PROVE  logicalRunning'[slotBank'[t][1]] = slotBank'[t]
    <3>1. CASE t = s
      BY <1>3, <1>5, <3>1
    <3>2. CASE t # s
      <4>1. slotBank'[t] = slotBank[t] /\ slotBank[t] \in Bank /\ slotBank[t][1] # p[1]
        BY <1>4, <1>5, <2>2, <3>2 DEF SlotsOK
      <4> QED
        BY <1>5, <2>2, <4>1, SiblingIsBank DEF Holders, SlotsAgree
    <3> QED
      BY <3>1, <3>2
  <2>3. ASSUME NEW l \in Shard, logicalRunning'[l] # NoBank
        PROVE  \E t \in Slot : slotBank'[t] = logicalRunning'[l] /\ slotBank'[t][1] = l
    <3>1. CASE l = p[1]
      BY <1>2, <1>5, <3>1
    <3>2. CASE l # p[1]
      <4>1. PICK t \in Slot : slotBank[t] = logicalRunning[l] /\ slotBank[t][1] = l
        BY <1>5, <2>3, <3>2 DEF Holders, SlotsAgree
      <4> QED
        BY <1>2, <1>5, <2>3, <3>2, <4>1
    <3> QED
      BY <3>1, <3>2
  <2> QED
    BY <2>1, <2>2, <2>3 DEF SlotsAgree
<1> QED
  BY <1>6, <1>7, <1>8 DEF Holders

\* A job that only moves on, with the flag of its bank, gives nothing away yet.
LEMMA SortHolders ==
    ASSUME SlotsOK, Holders, NEW s \in Slot, Stream4Sort(s)
    PROVE  Holders'
<1>1. \A t \in Slot : slotPhase'[t] = IF t = s THEN "sorted" ELSE slotPhase[t]
  BY DEF Stream4Sort, SlotsOK
<1>2. UNCHANGED <<slotBank, processing, ready, pending, logicalRunning>>
      /\ slotPhase[s] = "running"
  BY DEF Stream4Sort, queueVars
<1>3. \A p : Sorting(p)' <=> Sorting(p)
  BY <1>1, <1>2 DEF Sorting
<1>4. Ownership'
  BY <1>2, <1>3 DEF Holders, Ownership
<1> QED
  BY <1>1, <1>2, <1>4 DEF Holders, OneBankPerShard, SlotsAgree

LEMMA PublishHolders ==
    ASSUME SlotsOK, BanksOK, Holders, NEW s \in Slot, Stream4Publish(s)
    PROVE  Holders'
<1>1. \A t \in Slot : slotPhase'[t] = IF t = s THEN "published" ELSE slotPhase[t]
  BY DEF Stream4Publish, SlotsOK
<1>2. UNCHANGED <<slotBank, ready, pending, logicalRunning>> /\ slotPhase[s] = "sorted"
  BY DEF Stream4Publish, queueVars
<1>3. PICK p \in Bank : p = slotBank[s]
  BY <1>2 DEF SlotsOK, Holders, SlotsAgree
<1>4. \A q \in Bank : processing'[q] = IF q = p THEN FALSE ELSE processing[q]
  BY <1>3 DEF Stream4Publish, BanksOK
<1>5. Sorting(p) /\ ~Sorting(p)'
  BY <1>1, <1>2, <1>3 DEF Sorting, Holders, Ownership
<1>6. \A q \in Bank : q # p => (Sorting(q)' <=> Sorting(q))
  BY <1>1, <1>2, <1>3 DEF Sorting
<1>7. Ownership'
  <2>1. p \notin ready /\ p \notin pending
    BY <1>3, <1>5 DEF Holders, Ownership
  <2>2. \A q \in Bank : processing'[q] <=> (q \in ready \/ q \in pending \/ Sorting(q)')
    BY <1>3, <1>4, <1>5, <1>6, <2>1 DEF Holders, Ownership
  <2> QED
    BY <1>2, <1>5, <1>6, <2>2 DEF Holders, Ownership
<1>8. OneBankPerShard'
  BY <1>2, <1>4, SiblingIsBank DEF Holders, OneBankPerShard
<1>9. SlotsAgree'
  BY <1>1, <1>2 DEF Holders, SlotsAgree
<1> QED
  BY <1>7, <1>8, <1>9 DEF Holders

LEMMA SignalHolders ==
    ASSUME SlotsOK, Holders, NEW s \in Slot, Stream4Signal(s)
    PROVE  Holders'
<1>1. \A t \in Slot : slotPhase'[t] = IF t = s THEN "done" ELSE slotPhase[t]
  BY DEF Stream4Signal, SlotsOK
<1>2. UNCHANGED <<slotBank, processing, ready, pending, logicalRunning>>
      /\ slotPhase[s] = "published"
  BY DEF Stream4Signal, queueVars, bankVars
<1>3. \A p : Sorting(p)' <=> Sorting(p)
  BY <1>1, <1>2 DEF Sorting
<1>4. Ownership'
  BY <1>2, <1>3 DEF Holders, Ownership
<1> QED
  BY <1>1, <1>2, <1>4 DEF Holders, OneBankPerShard, SlotsAgree

\* With nothing queued, ready or running, no bank is flagged: the depth's clean-up
\* may clear the flags and the next depth may start from fresh scheduler state.
LEMMA IdleHolders ==
    ASSUME SlotsOK', QueuesOK', ready' = {}, pending' = {},
           \A s \in Slot : slotBank'[s] = NoBank /\ slotPhase'[s] = "free",
           \A l \in Shard : logicalRunning'[l] = NoBank,
           \A p \in Bank : ~processing'[p]
    PROVE  Holders'
<1>1. \A p : ~Sorting(p)'
  BY DEF Sorting
<1>2. Ownership'
  BY <1>1, NoBankIsNone DEF Ownership
<1> QED
  BY <1>2, SiblingIsBank DEF Holders, OneBankPerShard, SlotsAgree

-----------------------------------------------------------------------------
(* What the host's position says.                                          *)

\* While Stream 3 works, or the host stands where a stop or a full ready list is
\* impossible, the ready list is empty.
LEMMA ReadyListEmpty ==
    ASSUME Positioned,
           \/ s3phase \in {"launched", "packed", "prepared", "scattered"}
           \/ pc \in {"pressure", "launch3", "flush", "flushed", "flushTest",
                      "finalize", "done"}
    PROVE  ready = {}
  BY DEF Positioned, Stream3Known, Stream3Parked, ReadyListTaken, StopPositions

\* With no slot busy every queued bank can be launched: the drain is never stuck.
LEMMA DrainNotStuck == SlotsOK /\ QueuesOK /\ Holders /\ BusySlots = {} => Launchable = pending
<1> SUFFICES ASSUME SlotsOK, QueuesOK, Holders, BusySlots = {},
                    NEW p \in pending
             PROVE  logicalRunning[p[1]] = NoBank
  BY DEF Launchable
<1>1. \A s \in Slot : slotBank[s] = NoBank
  BY DEF BusySlots, FreeSlots
<1>2. p[1] \in Shard
  BY SiblingIsBank DEF QueuesOK
<1> QED
  BY <1>1, <1>2 DEF Holders, SlotsAgree

LEMMA NothingProcessing ==
    ASSUME BanksOK, Holders, ready = {}, pending = {}, BusySlots = {}
    PROVE  \A p \in Bank : ~processing[p]
<1>1. \A s \in Slot : slotBank[s] = NoBank
  BY DEF BusySlots, FreeSlots
<1>2. \A p \in Bank : ~Sorting(p)
  BY <1>1, NoBankIsNone DEF Sorting
<1> QED
  BY <1>2 DEF Holders, Ownership

LEMMA NothingOwed ==
    ASSUME ready = {}, pending = {}, BusySlots = {}
    PROVE  Owed = {}
<1>1. \A s \in Slot : slotBank[s] = NoBank
  BY DEF BusySlots, FreeSlots
<1> QED
  BY <1>1, NoBankIsNone DEF Owed

LEMMA ManyRounds == MaxFlushRounds \in Nat /\ MaxFlushRounds >= 8
<1>1. IsFiniteSet({0, 1})
  <2>1. 0..1 = {0, 1}
    OBVIOUS
  <2>2. \A n \in Nat : IsFiniteSet(0..n)
    BY FS_Interval
  <2> QED
    BY <2>1, <2>2
<1>2. IsFiniteSet(Bank)
  BY <1>1, ShardAssumption, FS_Product DEF Bank
<1> QED
  BY <1>2, FS_CardinalityType DEF MaxFlushRounds

\* A forced build takes a dirty bank of every shard that has one.
LEMMA FlushSelects ==
    ASSUME BanksOK, \A p \in Bank : ~processing[p],
           NEW p \in Bank, dirty[p] # {}
    PROVE  \/ p \in SelectedReady(TRUE)
           \/ dirty[Sibling(p)] # {} /\ Sibling(p) \in SelectedReady(TRUE)
<1> DEFINE q == Sibling(p)
<1>1. q \in Bank /\ Sibling(p) = q /\ Sibling(q) = p /\ p[1] = q[1] /\ p[2] \in {0, 1} /\ q[2] = 1 - p[2]
  BY SiblingIsBank DEF Sibling
<1>2. DirtyReady(p, TRUE) /\ (DirtyReady(q, TRUE) <=> dirty[q] # {})
  BY DEF DirtyReady
<1>3. IsReady(p, TRUE) /\ (dirty[q] # {} => IsReady(q, TRUE))
  BY <1>2 DEF IsReady
<1>4. CASE dirty[q] = {}
  <2>1. Preferred(p, q, TRUE)
    BY <1>2, <1>4 DEF Preferred
  <2> QED
    BY <1>1, <1>3, <2>1 DEF SelectedReady
<1>5. CASE dirty[q] # {}
  <2>1. Available(p) \in Int /\ Available(q) \in Int
    <3>1. \A b \in Bank : Cardinality(clean[b]) \in Nat /\ Cardinality(dirty[b]) \in Nat
      BY RowsFinite DEF BanksOK
    <3> QED
      BY <1>1, <3>1, SizesAssumption DEF Available, Used
  <2>2. writeIdx[p[1]] \in {0, 1}
    BY SiblingIsBank DEF BanksOK
  <2> HIDE DEF q
  <2>3. dirty[p] # {} /\ dirty[q] # {}
    BY <1>5
  <2>4. writeIdx[p[1]] # p[2] \/ writeIdx[q[1]] # q[2]
    BY <1>1, <2>2
  <2>5. Preferred(p, q, TRUE) \/ Preferred(q, p, TRUE)
    BY <2>1, <2>3, <2>4 DEF Preferred, DirtyReady
  <2>6. p \in SelectedReady(TRUE) \/ q \in SelectedReady(TRUE)
    BY <1>1, <1>3, <1>5, <2>5 DEF SelectedReady
  <2> QED
    BY <1>5, <2>6 DEF q
<1> QED
  BY <1>4, <1>5

-----------------------------------------------------------------------------
(* The inductive step: for each action, who holds what, where the host      *)
(* stands, and the progress of a flush.                                     *)

LEMMA SafeStep == SafeInv /\ [Next]_vars => SafeInv'
<1> SUFFICES ASSUME SafeInv, [Next]_vars PROVE SafeInv'
  OBVIOUS
<1> USE DEF SafeInv
<1>0. TypeInv' /\ ControlOK /\ ReturnsRight /\ QueuesOK /\ SlotsOK /\ Stream3OK /\ BanksOK
  BY TypeStep DEF TypeInv
<1>1. CASE LoopTest
  <2>1. Holders'
    BY <1>1, KeepHolders DEF LoopTest, holderVars, slotVars, queueVars, bankVars
  <2>2. Positioned'
    BY <1>0, <1>1 DEF LoopTest, MoreToDo, Stream3Active, Positioned, Stream3Known,
       Stream3Parked, ReadyListTaken, StopPositions, DrainedPositions, NoSchedulerThrow,
       BusySlots, FreeSlots, hostVars, queueVars, slotVars, s3Vars, bankVars
  <2>3. FlushProgress'
    BY <1>0, <1>1 DEF LoopTest, MoreToDo, Stream3Active, FlushProgress, Flushing,
       hostVars, queueVars, slotVars, s3Vars, bankVars
  <2> QED
    BY <1>0, <2>1, <2>2, <2>3
<1>2. CASE ReapStream4
  <2>1. Holders'
    BY <1>0, <1>2, CompletionsMatch, ReleaseHolders DEF ReapStream4, ReleaseSlots,
       bankVars
  <2>2. Positioned'
    BY <1>0, <1>2, CompletionsMatch DEF ReapStream4, ReleaseSlots, Positioned,
       Stream3Known, Stream3Parked, ReadyListTaken, StopPositions, DrainedPositions,
       NoSchedulerThrow, BusySlots, FreeSlots, hostVars, queueVars, slotVars, s3Vars,
       bankVars
  <2>3. FlushProgress'
    BY <1>0, <1>2 DEF ReapStream4, ReleaseSlots, FlushProgress, Flushing, hostVars,
       queueVars, slotVars, s3Vars, bankVars
  <2> QED
    BY <1>0, <2>1, <2>2, <2>3
<1>3. CASE ReapRings
  <2>1. Holders'
    BY <1>3, KeepHolders DEF ReapRings, holderVars, slotVars, queueVars, bankVars
  <2>2. Positioned'
    BY <1>0, <1>3 DEF ReapRings, Positioned, Stream3Known, Stream3Parked,
       ReadyListTaken, StopPositions, DrainedPositions, NoSchedulerThrow, BusySlots,
       FreeSlots, hostVars, queueVars, slotVars, s3Vars, bankVars
  <2>3. FlushProgress'
    BY <1>0, <1>3 DEF ReapRings, FlushProgress, Flushing, hostVars, queueVars,
         slotVars,
       s3Vars, bankVars
  <2> QED
    BY <1>0, <2>1, <2>2, <2>3
<1>4. CASE ReapStream3
  <2>1. Holders'
    <3>1. CASE AppendReadyQueue(ready) /\ UNCHANGED <<processing, logicalRunning, slotVars>>
      BY <3>1, AppendHolders
    <3>2. CASE UNCHANGED holderVars
      BY <3>2, KeepHolders
    <3> QED
      BY <1>4, <3>1, <3>2 DEF ReapStream3, FinishStream3, CompleteStream3,
           holderVars
  <2>2. Positioned'
    BY <1>0, <1>4 DEF ReapStream3, FinishStream3, CompleteStream3, AppendReadyQueue,
       Positioned, Stream3Known, Stream3Parked, ReadyListTaken, StopPositions,
       DrainedPositions, NoSchedulerThrow, BusySlots, FreeSlots, hostVars, queueVars,
       slotVars, s3Vars, bankVars
  <2>3. FlushProgress'
    BY <1>0, <1>4 DEF ReapStream3, FinishStream3, CompleteStream3, AppendReadyQueue,
       FlushProgress, Flushing, hostVars, queueVars, slotVars, s3Vars, bankVars
  <2> QED
    BY <1>0, <2>1, <2>2, <2>3
<1>5. CASE CheckStop
  <2>1. Holders'
    BY <1>5, KeepHolders DEF CheckStop, holderVars, slotVars, queueVars, bankVars
  <2>2. Positioned'
    BY <1>0, <1>5 DEF CheckStop, Halts, Positioned, Stream3Known, Stream3Parked,
       ReadyListTaken, StopPositions, DrainedPositions, NoSchedulerThrow, BusySlots,
       FreeSlots, hostVars, queueVars, slotVars, s3Vars, bankVars
  <2>3. FlushProgress'
    BY <1>0, <1>5 DEF CheckStop, Halts, FlushProgress, Flushing, hostVars,
         queueVars,
       slotVars, s3Vars, bankVars
  <2> QED
    BY <1>0, <2>1, <2>2, <2>3
<1>6. CASE UpdateBefore
  <2>1. Holders'
    BY <1>6, KeepHolders DEF UpdateBefore, MaybeUpdate, holderVars, slotVars,
         queueVars,
       bankVars
  <2>2. Positioned'
    BY <1>0, <1>6 DEF UpdateBefore, MaybeUpdate, Stream3Active, Positioned,
       Stream3Known, Stream3Parked, ReadyListTaken, StopPositions, DrainedPositions,
       NoSchedulerThrow, BusySlots, FreeSlots, hostVars, queueVars, slotVars, s3Vars,
       bankVars
  <2>3. FlushProgress'
    BY <1>0, <1>6 DEF UpdateBefore, MaybeUpdate, Stream3Active, FlushProgress,
         Flushing,
       hostVars, queueVars, slotVars, s3Vars, bankVars
  <2> QED
    BY <1>0, <2>1, <2>2, <2>3
<1>7. CASE LaunchRelease
  <2>1. Holders'
    BY <1>0, <1>7, CompletionsMatch, ReleaseHolders DEF LaunchRelease, ReleaseSlots,
       bankVars
  <2>2. Positioned'
    BY <1>0, <1>7, CompletionsMatch DEF LaunchRelease, ReleaseSlots, ReturnsRight,
       Positioned, Stream3Known, Stream3Parked, ReadyListTaken, StopPositions,
       DrainedPositions, NoSchedulerThrow, BusySlots, FreeSlots, hostVars, queueVars,
       slotVars, s3Vars, bankVars
  <2>3. FlushProgress'
    BY <1>0, <1>7 DEF LaunchRelease, ReleaseSlots, ReturnsRight, FlushProgress,
       Flushing, hostVars, queueVars, slotVars, s3Vars, bankVars
  <2> QED
    BY <1>0, <2>1, <2>2, <2>3
<1>8. CASE LaunchPending
  <2>1. Holders'
    <3>1. CASE (\E p \in Launchable : LaunchStream4(p)) /\ UNCHANGED <<processing, ready>>
      BY <1>0, <3>1, LaunchHolders
    <3>2. CASE UNCHANGED holderVars
      BY <3>2, KeepHolders
    <3> QED
      BY <1>8, <3>1, <3>2 DEF LaunchPending, holderVars, bankVars
  <2>2. Positioned'
    BY <1>0, <1>8 DEF LaunchPending, ReturnsRight, Positioned, Stream3Known,
       Stream3Parked, ReadyListTaken, StopPositions, DrainedPositions, NoSchedulerThrow,
       BusySlots, FreeSlots, hostVars, queueVars, slotVars, s3Vars, bankVars
  <2>3. FlushProgress'
    BY <1>0, <1>8 DEF LaunchPending, ReturnsRight, FlushProgress, Flushing,
         hostVars,
       queueVars, slotVars, s3Vars, bankVars
  <2> QED
    BY <1>0, <2>1, <2>2, <2>3
<1>9. CASE FillRings
  <2>1. Holders'
    BY <1>9, KeepHolders DEF FillRings, holderVars, slotVars, queueVars, bankVars
  <2>2. Positioned'
    BY <1>0, <1>9 DEF FillRings, Positioned, Stream3Known, Stream3Parked,
       ReadyListTaken, StopPositions, DrainedPositions, NoSchedulerThrow, BusySlots,
       FreeSlots, hostVars, queueVars, slotVars, s3Vars, bankVars
  <2>3. FlushProgress'
    BY <1>0, <1>9 DEF FillRings, FlushProgress, Flushing, hostVars, queueVars,
         slotVars,
       s3Vars, bankVars
  <2> QED
    BY <1>0, <2>1, <2>2, <2>3
<1>10. CASE CopyCleanCounts
  <2>1. Holders'
    BY <1>10, KeepHolders DEF CopyCleanCounts, holderVars, slotVars, queueVars,
         bankVars
  <2>2. Positioned'
    BY <1>0, <1>10 DEF CopyCleanCounts, Stream3Active, Positioned, Stream3Known,
       Stream3Parked, ReadyListTaken, StopPositions, DrainedPositions, NoSchedulerThrow,
       BusySlots, FreeSlots, hostVars, queueVars, slotVars, s3Vars, bankVars
  <2>3. FlushProgress'
    BY <1>0, <1>10 DEF CopyCleanCounts, Stream3Active, FlushProgress, Flushing,
       hostVars, queueVars, slotVars, s3Vars, bankVars
  <2> QED
    BY <1>0, <2>1, <2>2, <2>3
<1>11. CASE CopyDirtyCounts
  <2>1. Holders'
    BY <1>11, KeepHolders DEF CopyDirtyCounts, holderVars, slotVars, queueVars,
         bankVars
  <2>2. Positioned'
    BY <1>0, <1>11 DEF CopyDirtyCounts, Positioned, Stream3Known, Stream3Parked,
       ReadyListTaken, StopPositions, DrainedPositions, NoSchedulerThrow, BusySlots,
       FreeSlots, hostVars, queueVars, slotVars, s3Vars, bankVars
  <2>3. FlushProgress'
    BY <1>0, <1>11 DEF CopyDirtyCounts, FlushProgress, Flushing, hostVars,
         queueVars,
       slotVars, s3Vars, bankVars
  <2> QED
    BY <1>0, <2>1, <2>2, <2>3
<1>12. CASE CopyProcessingFlags
  <2>1. Holders'
    BY <1>12, KeepHolders DEF CopyProcessingFlags, holderVars, slotVars, queueVars,
       bankVars
  <2>2. Positioned'
    BY <1>0, <1>12 DEF CopyProcessingFlags, Positioned, Stream3Known, Stream3Parked,
       ReadyListTaken, StopPositions, DrainedPositions, NoSchedulerThrow, BusySlots,
       FreeSlots, hostVars, queueVars, slotVars, s3Vars, bankVars
  <2>3. FlushProgress'
    BY <1>0, <1>12 DEF CopyProcessingFlags, FlushProgress, Flushing, hostVars,
       queueVars, slotVars, s3Vars, bankVars
  <2> QED
    BY <1>0, <2>1, <2>2, <2>3
<1>13. CASE PressureBuild
  <2>1. Holders'
    <3>1. ready = {}
      BY <1>13, ReadyListEmpty DEF PressureBuild
    <3> QED
      BY <1>0, <1>13, <3>1, BuildHolders DEF PressureBuild, queueVars
  <2>2. Positioned'
    BY <1>0, <1>13 DEF PressureBuild, Positioned, Stream3Known, Stream3Parked,
       ReadyListTaken, StopPositions, DrainedPositions, NoSchedulerThrow, BusySlots,
       FreeSlots, hostVars, queueVars, slotVars, s3Vars, bankVars
  <2>3. FlushProgress'
    BY <1>0, <1>13 DEF PressureBuild, FlushProgress, Flushing, hostVars, queueVars,
       slotVars, s3Vars, bankVars
  <2> QED
    BY <1>0, <2>1, <2>2, <2>3
<1>14. CASE PressureAppend
  <2>1. Holders'
    <3>1. CASE AppendReadyQueue(ready) /\ UNCHANGED <<processing, logicalRunning, slotVars>>
      BY <3>1, AppendHolders
    <3>2. CASE UNCHANGED holderVars
      BY <3>2, KeepHolders
    <3> QED
      BY <1>14, <3>1, <3>2 DEF PressureAppend, holderVars
  <2>2. Positioned'
    BY <1>0, <1>14 DEF PressureAppend, AppendReadyQueue, Positioned, Stream3Known,
       Stream3Parked, ReadyListTaken, StopPositions, DrainedPositions, NoSchedulerThrow,
       BusySlots, FreeSlots, hostVars, queueVars, slotVars, s3Vars, bankVars
  <2>3. FlushProgress'
    BY <1>0, <1>14 DEF PressureAppend, AppendReadyQueue, FlushProgress, Flushing,
       hostVars, queueVars, slotVars, s3Vars, bankVars
  <2> QED
    BY <1>0, <2>1, <2>2, <2>3
<1>15. CASE PressureEnd
  <2>1. Holders'
    BY <1>15, KeepHolders DEF PressureEnd, holderVars, slotVars, queueVars, bankVars
  <2>2. Positioned'
    BY <1>0, <1>15 DEF PressureEnd, Positioned, Stream3Known, Stream3Parked,
       ReadyListTaken, StopPositions, DrainedPositions, NoSchedulerThrow, BusySlots,
       FreeSlots, hostVars, queueVars, slotVars, s3Vars, bankVars
  <2>3. FlushProgress'
    BY <1>0, <1>15 DEF PressureEnd, FlushProgress, Flushing, hostVars, queueVars,
       slotVars, s3Vars, bankVars
  <2> QED
    BY <1>0, <2>1, <2>2, <2>3
<1>16. CASE LaunchStream3
  <2>1. Holders'
    BY <1>16, KeepHolders DEF LaunchStream3, holderVars, slotVars, queueVars,
         bankVars
  <2>2. Positioned'
    BY <1>0, <1>16, ReadyListEmpty DEF LaunchStream3, Positioned, Stream3Known,
       Stream3Parked, ReadyListTaken, StopPositions, DrainedPositions, NoSchedulerThrow,
       BusySlots, FreeSlots, hostVars, queueVars, slotVars, s3Vars, bankVars
  <2>3. FlushProgress'
    BY <1>0, <1>16 DEF LaunchStream3, FlushProgress, Flushing, hostVars, queueVars,
       slotVars, s3Vars, bankVars
  <2> QED
    BY <1>0, <2>1, <2>2, <2>3
<1>17. CASE UpdateAfter
  <2>1. Holders'
    BY <1>17, KeepHolders DEF UpdateAfter, MaybeUpdate, holderVars, slotVars,
         queueVars,
       bankVars
  <2>2. Positioned'
    BY <1>0, <1>17 DEF UpdateAfter, MaybeUpdate, Stream3Active, Positioned,
       Stream3Known, Stream3Parked, ReadyListTaken, StopPositions, DrainedPositions,
       NoSchedulerThrow, BusySlots, FreeSlots, hostVars, queueVars, slotVars, s3Vars,
       bankVars
  <2>3. FlushProgress'
    BY <1>0, <1>17 DEF UpdateAfter, MaybeUpdate, Stream3Active, FlushProgress,
         Flushing,
       hostVars, queueVars, slotVars, s3Vars, bankVars
  <2> QED
    BY <1>0, <2>1, <2>2, <2>3
<1>18. CASE EndPass
  <2>1. Holders'
    <3>1. CASE AppendReadyQueue(ready) /\ UNCHANGED <<processing, logicalRunning, slotVars>>
      BY <3>1, AppendHolders
    <3>2. CASE ReleaseSlots("test") /\ UNCHANGED <<processing, ready, pending>>
      BY <1>0, <3>2, CompletionsMatch, ReleaseHolders DEF ReleaseSlots
    <3>3. CASE UNCHANGED holderVars
      BY <3>3, KeepHolders
    <3> QED
      BY <1>18, <3>1, <3>2, <3>3
      DEF EndPass, WaitStream3, WaitOldestRing, WaitStream4Slot, GiveUp, FinishStream3,
          CompleteStream3, holderVars, bankVars, queueVars
  <2>2. Positioned'
    <3>1. /\ pc \in {"idle", "halting"} /\ pc' \in {"test", "failed"}
          /\ returnTo' = returnTo
      BY <1>0, <1>18, CompletionsMatch DEF EndPass, WaitStream3, WaitOldestRing,
         WaitStream4Slot, GiveUp, FinishStream3, CompleteStream3, ReleaseSlots
    <3> USE <3>1 DEF Positioned, Stream3Known, Stream3Parked, ReadyListTaken,
         StopPositions, DrainedPositions, NoSchedulerThrow
    <3>2. CASE WaitStream3
      BY <3>2 DEF WaitStream3, FinishStream3, CompleteStream3, AppendReadyQueue,
           s3Vars
    <3>3. CASE WaitOldestRing
      <4>1. s3phase = "idle" /\ UNCHANGED <<s3phase, ready>> /\ pc' = "test"
        BY <3>3 DEF WaitOldestRing, Stream3Active, s3Vars, bankVars
      <4>2. stopRequested => stopRequested'
        BY <3>3 DEF WaitOldestRing
      <4> QED
        BY <4>1, <4>2
    <3>4. CASE UNCHANGED <<s3phase, ready, stopRequested>> /\ pc' = "test"
      BY <3>4
    <3> QED
      BY <1>0, <1>18, <3>2, <3>3, <3>4, CompletionsMatch
      DEF EndPass, WaitStream4Slot, GiveUp, ReleaseSlots, s3Vars, bankVars
  <2>3. FlushProgress'
    BY <1>0, <1>18 DEF EndPass, WaitStream3, WaitOldestRing, WaitStream4Slot,
         GiveUp,
       FinishStream3, CompleteStream3, AppendReadyQueue, ReleaseSlots, Stream3Active,
       FlushProgress, Flushing, hostVars, queueVars, slotVars, s3Vars, bankVars
  <2> QED
    BY <1>0, <2>1, <2>2, <2>3
<1>19. CASE Drain
  <2>1. Holders'
    <3>1. CASE (\E p \in Launchable : LaunchStream4(p)) /\ UNCHANGED <<processing, ready>>
      BY <1>0, <3>1, LaunchHolders
    <3>2. CASE ReleaseSlots("drain") /\ UNCHANGED <<processing, ready, pending>>
      BY <1>0, <3>2, CompletionsMatch, ReleaseHolders DEF ReleaseSlots
    <3>3. CASE UNCHANGED holderVars
      BY <3>3, KeepHolders
    <3> QED
      BY <1>19, <3>1, <3>2, <3>3 DEF Drain, holderVars, bankVars, queueVars
  <2>2. Positioned'
    BY <1>0, <1>19, CompletionsMatch, DrainNotStuck DEF Drain, ReleaseSlots,
         Positioned,
       Stream3Known, Stream3Parked, ReadyListTaken, StopPositions, DrainedPositions,
       NoSchedulerThrow, BusySlots, FreeSlots, hostVars, queueVars, slotVars, s3Vars,
       bankVars
  <2>3. FlushProgress'
    <3>1. Owed' = Owed
      <4>1. CASE \E p \in Launchable : LaunchStream4(p)
        <5>1. PICK p \in Launchable, s \in FreeSlots :
                /\ slotBank' = [slotBank EXCEPT ![s] = p]
                /\ slotPhase' = [slotPhase EXCEPT ![s] = "running"]
                /\ pending' = pending \ {p}
          BY <4>1 DEF LaunchStream4
        <5>2. /\ p \in pending /\ p \in Bank /\ s \in Slot
              /\ slotBank[s] = NoBank /\ NoBank \notin Bank
          BY <1>0, <5>1, NoBankIsNone DEF Launchable, FreeSlots, QueuesOK
        <5>3. /\ \A t \in Slot : slotBank'[t] = IF t = s THEN p ELSE slotBank[t]
              /\ \A t \in Slot : slotPhase'[t] = IF t = s THEN "running" ELSE slotPhase[t]
          BY <1>0, <5>1, <5>2 DEF SlotsOK
        <5>4. ready' = ready
          BY <1>19 DEF Drain, bankVars
        <5> QED
          BY <5>1, <5>2, <5>3, <5>4 DEF Owed
      <4>2. CASE ReleaseDoneSlots /\ UNCHANGED <<ready, pending>>
        <5>1. \A s \in Slot :
                /\ slotBank'[s] = IF s \in DoneSlots THEN NoBank ELSE slotBank[s]
                /\ slotPhase'[s] = IF s \in DoneSlots THEN "free" ELSE slotPhase[s]
          BY <4>2 DEF ReleaseDoneSlots
        <5> QED
          BY <4>2, <5>1, NoBankIsNone DEF Owed, DoneSlots
      <4>3. CASE UNCHANGED <<ready, pending, slotVars>>
        BY <4>3 DEF Owed, slotVars
      <4> QED
        BY <1>19, <4>1, <4>2, <4>3, CompletionsMatch, <1>0
        DEF Drain, ReleaseSlots, bankVars, queueVars
    <3>2. pc' \in {"drain", "error", "flushed", "apply"} /\ returnTo' = returnTo
          /\ flushRound' = flushRound /\ dirty' = dirty
          /\ (pc' = "flushed" => returnTo = "flushed")
      BY <1>19 DEF Drain, ReleaseSlots, bankVars
    <3> QED
      BY <1>19, <3>1, <3>2 DEF Drain, FlushProgress, Flushing
  <2> QED
    BY <1>0, <2>1, <2>2, <2>3
<1>20. CASE UpdateThreshold
  <2>1. Holders'
    BY <1>20, KeepHolders DEF UpdateThreshold, holderVars, slotVars, queueVars,
         bankVars
  <2>2. Positioned'
    BY <1>0, <1>20 DEF UpdateThreshold, Stream3Active, ReturnsRight, Positioned,
       Stream3Known, Stream3Parked, ReadyListTaken, StopPositions, DrainedPositions,
       NoSchedulerThrow, BusySlots, FreeSlots, hostVars, queueVars, slotVars, s3Vars,
       bankVars
  <2>3. FlushProgress'
    <3>1. Owed' = Owed
      BY <1>20 DEF UpdateThreshold, Owed, queueVars, slotVars, bankVars
    <3> QED
      BY <1>0, <1>20, <3>1 DEF UpdateThreshold, Stream3Active, Positioned,
           Stream3Known,
           Stream3Parked, ReturnsRight, FlushProgress, Flushing, bankVars
  <2> QED
    BY <1>0, <2>1, <2>2, <2>3
<1>21. CASE FlushBuild
  <2>1. Holders'
    <3>1. ready = {}
      BY <1>21, ReadyListEmpty DEF FlushBuild
    <3> QED
      BY <1>0, <1>21, <3>1, BuildHolders DEF FlushBuild, queueVars
  <2>2. Positioned'
    BY <1>0, <1>21 DEF FlushBuild, Positioned, Stream3Known, Stream3Parked,
       ReadyListTaken, StopPositions, DrainedPositions, NoSchedulerThrow, BusySlots,
       FreeSlots, hostVars, queueVars, slotVars, s3Vars, bankVars
  <2>3. FlushProgress'
    <3>1. ready = {} /\ pending = {} /\ BusySlots = {}
      BY <1>21, ReadyListEmpty DEF FlushBuild, Positioned, DrainedPositions
    <3>2. \A p \in Bank : dirty[p] # {} =>
            \/ p \in ready'
            \/ dirty[Sibling(p)] # {} /\ Sibling(p) \in ready'
      BY <1>0, <1>21, <3>1, NothingProcessing, FlushSelects DEF FlushBuild,
         BuildReadyQueue
    <3>3. ready' \subseteq Owed'
      BY DEF Owed
    <3> QED
      BY <1>21, <3>2, <3>3 DEF FlushBuild, FlushProgress, Flushing
  <2> QED
    BY <1>0, <2>1, <2>2, <2>3
<1>22. CASE FlushAppend
  <2>1. Holders'
    <3>1. CASE AppendReadyQueue(ready) /\ UNCHANGED <<processing, logicalRunning, slotVars>>
      BY <3>1, AppendHolders
    <3>2. CASE UNCHANGED holderVars
      BY <3>2, KeepHolders
    <3> QED
      BY <1>22, <3>1, <3>2 DEF FlushAppend, holderVars
  <2>2. Positioned'
    BY <1>0, <1>22 DEF FlushAppend, AppendReadyQueue, Positioned, Stream3Known,
       Stream3Parked, ReadyListTaken, StopPositions, DrainedPositions, NoSchedulerThrow,
       BusySlots, FreeSlots, hostVars, queueVars, slotVars, s3Vars, bankVars
  <2>3. FlushProgress'
    <3>1. CASE fatal
      BY <1>22, <3>1 DEF FlushAppend, FlushProgress, Flushing
    <3>2. CASE ~fatal
      <4>1. Owed' = Owed
        BY <1>22, <3>2 DEF FlushAppend, AppendReadyQueue, Owed, slotVars
      <4> QED
        BY <1>22, <3>2, <4>1 DEF FlushAppend, FlushProgress, Flushing
    <3> QED
      BY <3>1, <3>2
  <2> QED
    BY <1>0, <2>1, <2>2, <2>3
<1>23. CASE FlushUpdate
  <2>1. Holders'
    BY <1>23, KeepHolders DEF FlushUpdate, holderVars, slotVars, queueVars, bankVars
  <2>2. Positioned'
    BY <1>0, <1>23 DEF FlushUpdate, Positioned, Stream3Known, Stream3Parked,
       ReadyListTaken, StopPositions, DrainedPositions, NoSchedulerThrow, BusySlots,
       FreeSlots, hostVars, queueVars, slotVars, s3Vars, bankVars
  <2>3. FlushProgress'
    <3>1. Owed' = Owed
      BY <1>23 DEF FlushUpdate, Owed, queueVars, slotVars, bankVars
    <3>2. returnTo = "flushed"
      BY <1>0, <1>23 DEF FlushUpdate, ReturnsRight
    <3> QED
      BY <1>23, <3>1, <3>2 DEF FlushUpdate, FlushProgress, Flushing, bankVars
  <2> QED
    BY <1>0, <2>1, <2>2, <2>3
<1>24. CASE FlushTest
  <2>1. Holders'
    BY <1>24, KeepHolders DEF FlushTest, holderVars, slotVars, queueVars, bankVars
  <2>2. Positioned'
    <3>1. Owed = {}
      BY <1>24, ReadyListEmpty, NothingOwed DEF FlushTest, Positioned,
           DrainedPositions
    <3>2. AnyDirty => flushRound = 0
      BY <1>24, <3>1 DEF FlushTest, AnyDirty, FlushProgress, Flushing
    <3>3. pc' # "error"
      BY <1>24, <3>2, ManyRounds DEF FlushTest
    <3> QED
      BY <1>24, <3>3 DEF FlushTest, Positioned, Stream3Known, Stream3Parked,
         ReadyListTaken,
           StopPositions, DrainedPositions, NoSchedulerThrow, BusySlots, FreeSlots,
           queueVars, slotVars, s3Vars, bankVars
  <2>3. FlushProgress'
    <3>1. Owed = {}
      BY <1>24, ReadyListEmpty, NothingOwed DEF FlushTest, Positioned,
           DrainedPositions
    <3>2. \A p \in Bank : dirty[p] # {} => flushRound = 0 /\ dirty[Sibling(p)] = {}
      BY <1>24, <3>1, SiblingIsBank DEF FlushTest, FlushProgress, Flushing
    <3>3. AnyDirty => flushRound = 0
      BY <3>2 DEF AnyDirty
    <3>4. pc' # "error"
      BY <1>24, <3>3, ManyRounds DEF FlushTest
    <3> QED
      BY <1>24, <3>2, <3>3, <3>4 DEF FlushTest, FlushProgress, Flushing, bankVars
  <2> QED
    BY <1>0, <2>1, <2>2, <2>3
<1>25. CASE Finalize
  <2>1. Holders'
    <3>1. pending' = {} /\ ready' = {} /\ \A s \in Slot : slotBank'[s] = NoBank
      BY <1>25 DEF Finalize, Positioned, DrainedPositions, BusySlots, FreeSlots,
                   queueVars, slotVars
    <3>2. /\ \A s \in Slot : slotPhase'[s] = "free"
          /\ \A l \in Shard : logicalRunning'[l] = NoBank
      BY <1>25, <3>1 DEF Finalize, Holders, SlotsAgree, queueVars, slotVars
    <3>3. \A p \in Bank : ~processing'[p]
      BY <1>25 DEF Finalize
    <3> QED
      BY <1>0, <3>1, <3>2, <3>3, IdleHolders DEF TypeInv
  <2>2. Positioned'
    BY <1>0, <1>25 DEF Finalize, Positioned, Stream3Known, Stream3Parked,
       ReadyListTaken, StopPositions, DrainedPositions, NoSchedulerThrow, BusySlots,
       FreeSlots, hostVars, queueVars, slotVars, s3Vars, bankVars
  <2>3. FlushProgress'
    BY <1>0, <1>25 DEF Finalize, FlushProgress, Flushing, hostVars, queueVars,
         slotVars,
       s3Vars, bankVars
  <2> QED
    BY <1>0, <2>1, <2>2, <2>3
<1>26. CASE StartDepth
  <2>1. Holders'
    <3>1. ready' = {} /\ ready = {}
      BY <1>26, ReadyListEmpty DEF StartDepth, bankVars
    <3>2. pending' = {} /\ \A l \in Shard : logicalRunning'[l] = NoBank
      BY <1>26 DEF StartDepth
    <3>3. \A s \in Slot : slotBank'[s] = NoBank /\ slotPhase'[s] = "free"
      BY <1>26 DEF StartDepth
    <3>4. pending = {} /\ BusySlots = {}
      BY <1>26 DEF StartDepth, Positioned, DrainedPositions
    <3>5. \A p \in Bank : ~processing'[p]
      BY <1>0, <1>26, <3>1, <3>4, NothingProcessing DEF StartDepth, bankVars
    <3> QED
      BY <1>0, <3>1, <3>2, <3>3, <3>5, IdleHolders DEF TypeInv
  <2>2. Positioned'
    BY <1>0, <1>26 DEF StartDepth, Positioned, Stream3Known, Stream3Parked,
       ReadyListTaken, StopPositions, DrainedPositions, NoSchedulerThrow, BusySlots,
       FreeSlots, hostVars, queueVars, slotVars, s3Vars, bankVars
  <2>3. FlushProgress'
    BY <1>0, <1>26 DEF StartDepth, FlushProgress, Flushing, hostVars, queueVars,
       slotVars, s3Vars, bankVars
  <2> QED
    BY <1>0, <2>1, <2>2, <2>3
<1>27. CASE FinishRing
  <2>1. Holders'
    BY <1>27, KeepHolders DEF FinishRing, holderVars, slotVars, queueVars, bankVars
  <2>2. Positioned'
    BY <1>0, <1>27 DEF FinishRing, Positioned, Stream3Known, Stream3Parked,
       ReadyListTaken, StopPositions, DrainedPositions, NoSchedulerThrow, BusySlots,
       FreeSlots, hostVars, queueVars, slotVars, s3Vars, bankVars
  <2>3. FlushProgress'
    <3>1. Owed' = Owed
      BY <1>27 DEF FinishRing, Owed, queueVars, slotVars, bankVars
    <3> QED
      BY <1>27, <3>1 DEF FinishRing, FlushProgress, Flushing, hostVars, bankVars
  <2> QED
    BY <1>0, <2>1, <2>2, <2>3
<1>28. CASE Stream3Pack
  <2>1. Holders'
    BY <1>28, KeepHolders DEF Stream3Pack, holderVars, slotVars, queueVars, bankVars
  <2>2. Positioned'
    <3>1. ~Stream3Parked /\ pc # "failed" /\ ready = {}
      BY <1>28, ReadyListEmpty DEF Stream3Pack, Positioned, Stream3Known
    <3> QED
      BY <1>28, <3>1 DEF Stream3Pack, Positioned, Stream3Known, Stream3Parked,
         ReadyListTaken, StopPositions, DrainedPositions, NoSchedulerThrow, BusySlots,
         FreeSlots, hostVars, queueVars, slotVars, bankVars
  <2>3. FlushProgress'
    <3>1. ~Stream3Parked
      BY <1>28 DEF Stream3Pack, Positioned, Stream3Known
    <3> QED
      BY <1>28, <3>1 DEF Stream3Pack, Stream3Parked, FlushProgress, Flushing,
           hostVars
  <2> QED
    BY <1>0, <2>1, <2>2, <2>3
<1>29. CASE Stream3Prepare
  <2>1. Holders'
    BY <1>29, KeepHolders DEF Stream3Prepare, holderVars, slotVars, queueVars,
         bankVars
  <2>2. Positioned'
    <3>1. ~Stream3Parked /\ pc # "failed" /\ ready = {}
      BY <1>29, ReadyListEmpty DEF Stream3Prepare, Positioned, Stream3Known
    <3> QED
      BY <1>29, <3>1 DEF Stream3Prepare, Positioned, Stream3Known, Stream3Parked,
         ReadyListTaken, StopPositions, DrainedPositions, NoSchedulerThrow, BusySlots,
         FreeSlots, hostVars, queueVars, slotVars, bankVars
  <2>3. FlushProgress'
    <3>1. ~Stream3Parked
      BY <1>29 DEF Stream3Prepare, Positioned, Stream3Known
    <3> QED
      BY <1>29, <3>1 DEF Stream3Prepare, Stream3Parked, FlushProgress, Flushing,
         hostVars
  <2> QED
    BY <1>0, <2>1, <2>2, <2>3
<1>30. CASE Stream3Scatter
  <2>1. Holders'
    BY <1>30, KeepHolders DEF Stream3Scatter, holderVars, slotVars, queueVars,
         bankVars
  <2>2. Positioned'
    <3>1. ~Stream3Parked /\ pc # "failed" /\ ready = {}
      BY <1>30, ReadyListEmpty DEF Stream3Scatter, Positioned, Stream3Known
    <3> QED
      BY <1>30, <3>1 DEF Stream3Scatter, Positioned, Stream3Known, Stream3Parked,
         ReadyListTaken, StopPositions, DrainedPositions, NoSchedulerThrow, BusySlots,
         FreeSlots, hostVars, queueVars, slotVars, bankVars
  <2>3. FlushProgress'
    <3>1. ~Stream3Parked
      BY <1>30 DEF Stream3Scatter, Positioned, Stream3Known
    <3> QED
      BY <1>30, <3>1 DEF Stream3Scatter, Stream3Parked, FlushProgress, Flushing,
         hostVars
  <2> QED
    BY <1>0, <2>1, <2>2, <2>3
<1>31. CASE Stream3BuildReady
  <2>1. Holders'
    <3>1. ready = {}
      BY <1>31, ReadyListEmpty DEF Stream3BuildReady
    <3> QED
      BY <1>0, <1>31, <3>1, BuildHolders DEF Stream3BuildReady, queueVars
  <2>2. Positioned'
    <3>1. ~Stream3Parked /\ pc # "failed" /\ ready = {}
      BY <1>31, ReadyListEmpty DEF Stream3BuildReady, Positioned, Stream3Known
    <3> QED
      BY <1>31, <3>1 DEF Stream3BuildReady, Positioned, Stream3Known, Stream3Parked,
         ReadyListTaken, StopPositions, DrainedPositions, NoSchedulerThrow, BusySlots,
         FreeSlots, hostVars, queueVars, slotVars, bankVars
  <2>3. FlushProgress'
    <3>1. ~Stream3Parked
      BY <1>31 DEF Stream3BuildReady, Positioned, Stream3Known
    <3> QED
      BY <1>31, <3>1 DEF Stream3BuildReady, Stream3Parked, FlushProgress, Flushing,
         hostVars
  <2> QED
    BY <1>0, <2>1, <2>2, <2>3
<1>32. ASSUME NEW s \in Slot, Stream4Sort(s) PROVE SafeInv'
  <2>1. Holders'
    BY <1>0, <1>32, SortHolders
  <2>2. Positioned'
    BY <1>0, <1>32 DEF Stream4Sort, Positioned, Stream3Known, Stream3Parked,
       ReadyListTaken, StopPositions, DrainedPositions, NoSchedulerThrow, BusySlots,
       FreeSlots, hostVars, queueVars, slotVars, s3Vars, bankVars
  <2>3. FlushProgress'
    <3>1. PICK p \in Bank : p = slotBank[s]
      BY <1>0, <1>32 DEF Stream4Sort, SlotsOK, Holders, SlotsAgree
    <3>2. \A q \in Bank : dirty'[q] = IF q = p THEN {} ELSE dirty[q]
      BY <1>0, <1>32, <3>1 DEF Stream4Sort, BanksOK
    <3>3. \A t \in Slot : slotPhase'[t] = IF t = s THEN "sorted" ELSE slotPhase[t]
      BY <1>0, <1>32 DEF Stream4Sort, SlotsOK
    <3>4. \A q \in Bank : q # p /\ q \in Owed => q \in Owed'
      BY <1>32, <3>1, <3>3 DEF Stream4Sort, Owed, queueVars
    <3>5. UNCHANGED <<pc, returnTo, flushRound>>
      BY <1>32 DEF Stream4Sort, hostVars
    <3>6. FlushProgress /\ \A q \in Bank : Sibling(q) \in Bank
      BY SiblingIsBank
    <3> QED
      BY <3>2, <3>4, <3>5, <3>6 DEF FlushProgress, Flushing
  <2> QED
    BY <1>0, <2>1, <2>2, <2>3
<1>33. ASSUME NEW s \in Slot, Stream4Publish(s) PROVE SafeInv'
  <2>1. Holders'
    BY <1>0, <1>33, PublishHolders
  <2>2. Positioned'
    BY <1>0, <1>33 DEF Stream4Publish, Positioned, Stream3Known, Stream3Parked,
       ReadyListTaken, StopPositions, DrainedPositions, NoSchedulerThrow, BusySlots,
       FreeSlots, hostVars, queueVars, slotVars, s3Vars, bankVars
  <2>3. FlushProgress'
    <3>1. \A t \in Slot : slotPhase'[t] = "running" <=> slotPhase[t] = "running"
      BY <1>0, <1>33 DEF Stream4Publish, SlotsOK
    <3>2. Owed' = Owed
      BY <1>33, <3>1 DEF Stream4Publish, Owed, queueVars, bankVars
    <3> QED
      BY <1>33, <3>2 DEF Stream4Publish, FlushProgress, Flushing, hostVars, bankVars
  <2> QED
    BY <1>0, <2>1, <2>2, <2>3
<1>34. ASSUME NEW s \in Slot, Stream4Signal(s) PROVE SafeInv'
  <2>1. Holders'
    BY <1>0, <1>34, SignalHolders
  <2>2. Positioned'
    BY <1>0, <1>34 DEF Stream4Signal, Positioned, Stream3Known, Stream3Parked,
       ReadyListTaken, StopPositions, DrainedPositions, NoSchedulerThrow, BusySlots,
       FreeSlots, hostVars, queueVars, slotVars, s3Vars, bankVars
  <2>3. FlushProgress'
    <3>1. \A t \in Slot : slotPhase'[t] = "running" <=> slotPhase[t] = "running"
      BY <1>0, <1>34 DEF Stream4Signal, SlotsOK
    <3>2. Owed' = Owed
      BY <1>34, <3>1 DEF Stream4Signal, Owed, queueVars, bankVars
    <3> QED
      BY <1>34, <3>2 DEF Stream4Signal, FlushProgress, Flushing, hostVars, bankVars
  <2> QED
    BY <1>0, <2>1, <2>2, <2>3
<1>35. CASE UNCHANGED vars
  <2>1. Holders'
    BY <1>35, KeepHolders DEF vars, holderVars, slotVars, queueVars, bankVars
  <2>2. Positioned' /\ FlushProgress'
    BY <1>35 DEF vars, hostVars, queueVars, slotVars, s3Vars, bankVars, Positioned,
       Stream3Known, Stream3Parked, ReadyListTaken, StopPositions, DrainedPositions,
       NoSchedulerThrow, BusySlots, FreeSlots, FlushProgress, Flushing, Owed
  <2> QED
    BY <1>0, <2>1, <2>2
<1> QED
  BY <1>1, <1>2, <1>3, <1>4, <1>5, <1>6, <1>7, <1>8, <1>9, <1>10, <1>11, <1>12,
       <1>13,
     <1>14, <1>15, <1>16, <1>17, <1>18, <1>19, <1>20, <1>21, <1>22, <1>23, <1>24, <1>25,
     <1>26, <1>27, <1>28, <1>29, <1>30, <1>31, <1>32, <1>33, <1>34, <1>35 DEF Next,
     Host, MainLoop, Stream3, Stream4, Ended

LEMMA SafeInit == Init => SafeInv
<1> SUFFICES ASSUME Init PROVE SafeInv
  OBVIOUS
<1>1. TypeInv
  BY TypeInit
<1>2. Holders
  <2>1. \A s \in Slot : slotBank[s] = NoBank /\ slotPhase[s] = "free"
    BY DEF Init
  <2>2. \A p : ~Sorting(p)
    BY <2>1 DEF Sorting
  <2>3. Ownership
    BY <2>1, <2>2, NoBankIsNone DEF Init, Ownership
  <2> QED
    BY <2>1, <2>3, SiblingIsBank DEF Init, Holders, OneBankPerShard, SlotsAgree
<1>3. Positioned /\ FlushProgress
  BY DEF Init, Positioned, Stream3Known, Stream3Parked, ReadyListTaken,
       StopPositions,
     DrainedPositions, NoSchedulerThrow, FlushProgress, Flushing
<1> QED
  BY <1>1, <1>2, <1>3 DEF SafeInv

\* The inductive invariant holds in every reachable state.
THEOREM SafeInvHolds == Spec => []SafeInv
  BY SafeInit, SafeStep, PTL DEF Spec

\* Between Stream 3's ready list, the host's queue and the Stream 4 slots a bank
\* has one holder, and is flagged as processing exactly while it has one:
\* stream3_build_ready_shard_queue, append_stream3_ready_queue,
\* launch_stream4_shard_on_slot and mark_stream4_slot_complete never lose or
\* duplicate a bank, in any order the streams and the host take.
THEOREM OwnershipHolds == Spec => []Ownership
  BY SafeInvHolds, PTL DEF SafeInv, Holders

\* Stream 4 never holds both banks of a logical shard, so Stream 3 always has one
\* to write to.
THEOREM OneBankPerShardHolds == Spec => []OneBankPerShard
  BY SafeInvHolds, PTL DEF SafeInv, Holders

\* The scheduler's consistency exceptions are unreachable: a completed bank is the
\* one its shard runs, a drain is never stuck, the threshold is only updated with
\* Stream 3 idle, and the final flush needs at most two of its rounds.
THEOREM SchedulerNeverThrows == Spec => []NoSchedulerThrow
  BY SafeInvHolds, PTL DEF SafeInv, Positioned

\* The scheduler knows who holds what at every point of its loop.
THEOREM HandOverHolds == Spec => []HandOverInv
  BY SafeInvHolds, PTL DEF SafeInv, Holders, Positioned, HandOverInv
-----------------------------------------------------------------------------
(* The state the depth returns in.                                         *)

\* Once the loads are done or given up no ring is in use, and a stopped search
\* leaves no slot busy.
RingsReturned ==
    \/ pc \in {"flush", "flushAppend", "flushed", "flushTest", "finalize", "done",
               "stopped"}
    \/ pc \in {"drain", "apply"} /\ returnTo \in {"boundary", "flushed"}

QuietInv ==
    /\ RingsReturned => \A r \in Ring : ringState[r] = "free"
    /\ pc = "stopped" => BusySlots = {}

LEMMA QuietStep == SafeInv /\ QuietInv /\ [Next]_vars => QuietInv'
<1> SUFFICES ASSUME SafeInv, QuietInv, [Next]_vars PROVE QuietInv'
  OBVIOUS
<1> USE DEF QuietInv, RingsReturned
<1>0. ReturnsRight /\ SlotsOK /\ Holders /\ Stream3Known
  BY DEF SafeInv, TypeInv, Positioned
<1>1. CASE LoopTest
  BY <1>0, <1>1 DEF LoopTest, MoreToDo, RingsIn, hostVars, ringVars, slotVars,
     BusySlots, FreeSlots
<1>2. CASE ReapStream4
  BY <1>0, <1>2, CompletionsMatch DEF ReapStream4, ReleaseSlots, ringVars
<1>3. CASE ReapRings
  BY <1>0, <1>3 DEF ReapRings, ringVars
<1>4. CASE ReapStream3
  BY <1>0, <1>4 DEF ReapStream3, FinishStream3, ringVars
<1>5. CASE CheckStop
  BY <1>0, <1>5 DEF CheckStop, ringVars
<1>6. CASE UpdateBefore
  BY <1>0, <1>6 DEF UpdateBefore, MaybeUpdate, ringVars
<1>7. CASE LaunchRelease
  BY <1>0, <1>7, CompletionsMatch DEF LaunchRelease, ReleaseSlots, ringVars
<1>8. CASE LaunchPending
  BY <1>0, <1>8 DEF LaunchPending, ReturnsRight, ringVars
<1>9. CASE FillRings
  BY <1>0, <1>9 DEF FillRings, ringVars
<1>10. CASE CopyCleanCounts
  BY <1>0, <1>10 DEF CopyCleanCounts, ringVars
<1>11. CASE CopyDirtyCounts
  BY <1>0, <1>11 DEF CopyDirtyCounts, ringVars
<1>12. CASE CopyProcessingFlags
  BY <1>0, <1>12 DEF CopyProcessingFlags, ringVars
<1>13. CASE PressureBuild
  BY <1>0, <1>13 DEF PressureBuild, ringVars
<1>14. CASE PressureAppend
  BY <1>0, <1>14 DEF PressureAppend, ringVars
<1>15. CASE PressureEnd
  BY <1>0, <1>15 DEF PressureEnd, ringVars
<1>16. CASE LaunchStream3
  BY <1>0, <1>16 DEF LaunchStream3, ringVars
<1>17. CASE UpdateAfter
  BY <1>0, <1>17 DEF UpdateAfter, MaybeUpdate, ringVars
<1>18. CASE EndPass
  BY <1>0, <1>18, CompletionsMatch DEF EndPass, WaitStream3, WaitOldestRing,
     WaitStream4Slot, GiveUp, FinishStream3, ReleaseSlots, ringVars
<1>19. CASE Drain
  BY <1>0, <1>19, CompletionsMatch DEF Drain, ReleaseSlots, ringVars
<1>20. CASE UpdateThreshold
  BY <1>0, <1>20 DEF UpdateThreshold, ReturnsRight, Stream3Active, Stream3Known,
     Stream3Parked, ringVars
<1>21. CASE FlushBuild
  BY <1>0, <1>21 DEF FlushBuild, ringVars
<1>22. CASE FlushAppend
  BY <1>0, <1>22 DEF FlushAppend, ringVars
<1>23. CASE FlushUpdate
  BY <1>0, <1>23 DEF FlushUpdate, ringVars
<1>24. CASE FlushTest
  BY <1>0, <1>24 DEF FlushTest, ringVars
<1>25. CASE Finalize
  BY <1>0, <1>25 DEF Finalize, ringVars
<1>26. CASE StartDepth
  BY <1>0, <1>26 DEF StartDepth, ringVars
<1>27. CASE FinishRing
  BY <1>0, <1>27 DEF FinishRing, hostVars, ringVars, slotVars, BusySlots, FreeSlots
<1>28. CASE Stream3Pack
  BY <1>0, <1>28 DEF Stream3Pack, hostVars, ringVars, slotVars, BusySlots, FreeSlots
<1>29. CASE Stream3Prepare
  BY <1>0, <1>29 DEF Stream3Prepare, hostVars, ringVars, slotVars, BusySlots,
       FreeSlots
<1>30. CASE Stream3Scatter
  BY <1>0, <1>30 DEF Stream3Scatter, hostVars, ringVars, slotVars, BusySlots,
       FreeSlots
<1>31. CASE Stream3BuildReady
  BY <1>0, <1>31 DEF Stream3BuildReady, hostVars, ringVars, slotVars, BusySlots,
     FreeSlots
<1>32. ASSUME NEW s \in Slot, Stream4Sort(s) PROVE QuietInv'
  BY <1>0, <1>32 DEF Stream4Sort, hostVars, ringVars, slotVars, BusySlots, FreeSlots
<1>33. ASSUME NEW s \in Slot, Stream4Publish(s) PROVE QuietInv'
  BY <1>0, <1>33 DEF Stream4Publish, hostVars, ringVars, slotVars, BusySlots,
       FreeSlots
<1>34. ASSUME NEW s \in Slot, Stream4Signal(s) PROVE QuietInv'
  BY <1>0, <1>34 DEF Stream4Signal, hostVars, ringVars, slotVars, BusySlots,
       FreeSlots
<1>35. CASE UNCHANGED vars
  BY <1>35 DEF vars, hostVars, ringVars, slotVars, BusySlots, FreeSlots
<1> QED
  BY <1>1, <1>2, <1>3, <1>4, <1>5, <1>6, <1>7, <1>8, <1>9, <1>10, <1>11, <1>12,
       <1>13,
     <1>14, <1>15, <1>16, <1>17, <1>18, <1>19, <1>20, <1>21, <1>22, <1>23, <1>24, <1>25,
     <1>26, <1>27, <1>28, <1>29, <1>30, <1>31, <1>32, <1>33, <1>34, <1>35 DEF Next,
     Host, MainLoop, Stream3, Stream4, Ended

\* When run_depth_cuda_graphs returns, with the depth done or on a stop, no ring,
\* no Stream 3 job and no Stream 4 slot is in flight, and a completed depth leaves
\* no bank queued, ready or flagged.
THEOREM QuiescentHolds == Spec => []QuiescentOnReturn
<1>1. Init => QuietInv
  BY DEF Init, QuietInv, RingsReturned
<1>2. SafeInv /\ QuietInv => QuiescentOnReturn
  <2> SUFFICES ASSUME SafeInv, QuietInv PROVE QuiescentOnReturn
    OBVIOUS
  <2>1. BanksOK /\ Holders /\ Positioned
    BY DEF SafeInv, TypeInv
  <2>2. ASSUME pc \in {"finalize", "done"}
        PROVE  /\ s3phase = "idle" /\ BusySlots = {} /\ pending = {} /\ ready = {}
               /\ \A p \in Bank : ~processing[p]
    <3>1. s3phase = "idle" /\ BusySlots = {} /\ pending = {}
      BY <2>1, <2>2 DEF Positioned, Stream3Known, Stream3Parked, DrainedPositions
    <3>2. ready = {}
      BY <2>1, <2>2, ReadyListEmpty
    <3> QED
      BY <2>1, <3>1, <3>2, NothingProcessing
  <2>3. ASSUME pc = "stopped" PROVE s3phase = "idle" /\ BusySlots = {}
    BY <2>1, <2>3 DEF Positioned, Stream3Known, Stream3Parked, QuietInv
  <2>4. ASSUME pc \in {"finalize", "done", "stopped"}
        PROVE  \A r \in Ring : ringState[r] = "free"
    BY <2>4 DEF QuietInv, RingsReturned
  <2> QED
    BY <2>2, <2>3, <2>4 DEF QuiescentOnReturn
<1> QED
  BY <1>1, <1>2, QuietStep, SafeInvHolds, PTL DEF Spec
-----------------------------------------------------------------------------
(* The stop flag.                                                          *)

\* A raised stop flag has been seen, or will be as soon as the host reaps the
\* ring that raised it.
StopSeen ==
    stopFlag => \/ stopRequested \/ pc = "failed"
                \/ \E r \in Ring : ringState[r] = "stream1" /\ ringDone[r]
                \/ ringsCompleted /\ pc \in {"stream3", "stop"}

stopVars == <<ringVars, stopRequested, ringsCompleted>>

\* The lowest of some rings is one of them.
LEMMA FirstIsOne ==
    ASSUME NEW R \in SUBSET Ring, R # {}
    PROVE  (CHOOSE x \in R : \A y \in R : x <= y) \in R
<1>1. R \in SUBSET Nat
  BY SizesAssumption DEF Ring
<1>2. \E x \in R : \A y \in R : x <= y
  BY <1>1, LeastNatural
<1> QED
  BY <1>2

LEMMA StopSeenStep == SafeInv /\ QuietInv /\ StopSeen /\ [Next]_vars => StopSeen'
<1> SUFFICES ASSUME SafeInv, QuietInv, StopSeen, [Next]_vars PROVE StopSeen'
  OBVIOUS
<1>0. RingsOK /\ SlotsOK /\ Holders /\ ReadyWhileAdmitting /\ Positioned
  BY DEF SafeInv, TypeInv
<1>1. ASSUME UNCHANGED stopVars,
             pc' = pc \/ pc \notin {"stream3", "stop", "failed"} \/ pc' = "failed"
      PROVE  StopSeen'
  BY <1>1 DEF StopSeen, stopVars, ringVars
<1>2. CASE LoopTest \/ ReapStream4 \/ UpdateBefore \/ UpdateAfter \/ LaunchRelease
           \/ LaunchPending \/ Drain \/ UpdateThreshold
  BY <1>1, <1>2 DEF LoopTest, ReapStream4, UpdateBefore, UpdateAfter, MaybeUpdate,
     LaunchRelease, LaunchPending, Drain, UpdateThreshold, stopVars
<1>3. CASE CopyCleanCounts \/ CopyDirtyCounts \/ CopyProcessingFlags \/ PressureBuild
           \/ PressureAppend \/ PressureEnd
  BY <1>1, <1>3 DEF CopyCleanCounts, CopyDirtyCounts, CopyProcessingFlags, PressureBuild,
     PressureAppend, PressureEnd, stopVars
<1>4. CASE FlushBuild \/ FlushAppend \/ FlushUpdate \/ FlushTest \/ Finalize
  BY <1>1, <1>4 DEF FlushBuild, FlushAppend, FlushUpdate, FlushTest, Finalize, stopVars
<1>5. CASE ReapRings
  <2>1. CASE stopRequested \/ \E r \in Ring : ringState[r] = "stream1" /\ ringDone[r]
    <3>1. ASSUME NEW r \in Ring, ringState[r] = "stream1", ringDone[r]
          PROVE  ReadyRings # ringState
      <4>1. ReadyRings[r] = "ready"
        BY <3>1 DEF ReadyRings
      <4> QED
        BY <3>1, <4>1
    <3> QED
      BY <1>5, <2>1, <3>1 DEF ReapRings, StopSeen
  <2> QED
    BY <1>5, <2>1 DEF ReapRings, StopSeen
<1>6. CASE ReapStream3
  <2>1. \A r \in Ring : ringState[r] = "stream1" => ringState'[r] = "stream1"
    BY <1>6 DEF ReapStream3, FinishStream3, CompleteStream3, RingReturned
  <2> QED
    BY <1>6, <2>1 DEF ReapStream3, FinishStream3, StopSeen
<1>7. CASE CheckStop
  <2>1. \A r \in Ring : ringState[r] = "stream1" => ringState'[r] = "stream1"
    BY <1>7 DEF CheckStop, DiscardReady
  <2> QED
    BY <1>7, <2>1 DEF CheckStop, StopSeen
<1>8. CASE FillRings
  <2>1. CASE UNCHANGED <<ringState, ringDone>>
    BY <1>8, <2>1 DEF FillRings, StopSeen
  <2>2. ASSUME NEW r, RingsIn("free") # {},
               r = CHOOSE x \in RingsIn("free") : \A y \in RingsIn("free") : x <= y,
               ringState' = [ringState EXCEPT ![r] = "stream1"],
               ringDone' = [ringDone EXCEPT ![r] = FALSE]
        PROVE  StopSeen'
    <3>1. r \in RingsIn("free")
      <4> DEFINE free == RingsIn("free")
      <4>1. free \in SUBSET Ring /\ free # {}
        BY <2>2 DEF RingsIn
      <4>2. r = CHOOSE x \in free : \A y \in free : x <= y
        BY <2>2
      <4> HIDE DEF free
      <4>3. r \in free
        BY <4>1, <4>2, FirstIsOne
      <4> QED
        BY <4>3 DEF free
    <3>2. \A q \in Ring : ringState[q] = "stream1" =>
             ringState'[q] = "stream1" /\ ringDone'[q] = ringDone[q]
      BY <1>0, <2>2, <3>1 DEF RingsOK, RingsIn
    <3> QED
      BY <1>8, <3>2 DEF FillRings, StopSeen
  <2> QED
    BY <1>8, <2>1, <2>2 DEF FillRings
<1>9. CASE LaunchStream3
  <2> DEFINE r == Oldest(RingsIn("ready"))
  <2>1. r \in RingsIn("ready")
    <3>1. RingsIn("ready") # {} /\ RingsIn("ready") \subseteq Ring
      BY <1>0, <1>9 DEF LaunchStream3, ReadyWhileAdmitting, Admitting, RingsIn
    <3> QED
      BY <1>0, <3>1, OldestIsOne
  <2>2. ringState' = [ringState EXCEPT ![r] = "stream3"] /\ ringDone' = ringDone
    BY <1>9 DEF LaunchStream3
  <2> HIDE DEF r
  <2>3. \A q \in Ring : ringState[q] = "stream1" => ringState'[q] = "stream1"
    BY <2>1, <2>2 DEF RingsIn
  <2> QED
    BY <1>9, <2>2, <2>3 DEF LaunchStream3, StopSeen
<1>10. CASE EndPass
  <2>1. CASE progressed \/ WaitStream3
    <3>1. \A r \in Ring : ringState[r] = "stream1" => ringState'[r] = "stream1"
      BY <1>10, <2>1 DEF EndPass, WaitStream3, WaitOldestRing, WaitStream4Slot, GiveUp,
         FinishStream3, CompleteStream3, RingReturned, ringVars
    <3> QED
      BY <1>10, <2>1, <3>1 DEF EndPass, WaitStream3, FinishStream3, StopSeen, ringVars
  <2>2. CASE WaitOldestRing
    BY <1>10, <2>2 DEF EndPass, WaitOldestRing, StopSeen
  <2>3. CASE WaitStream4Slot \/ GiveUp
    <3>1. \A r \in Ring : ringState[r] = "stream1" => ringState'[r] = "stream1"
      BY <2>3 DEF WaitStream4Slot, GiveUp, DiscardReady, ringVars
    <3>2. pc \in {"idle", "halting"} /\ UNCHANGED <<ringDone, stopFlag, stopRequested>>
      BY <1>10, <2>3 DEF EndPass, WaitStream4Slot, GiveUp, ringVars
    <3> QED
      BY <3>1, <3>2 DEF StopSeen
  <2> QED
    BY <1>10, <2>1, <2>2, <2>3 DEF EndPass
<1>11. CASE StartDepth
  <2>1. ~stopRequested /\ \A r \in Ring : ringState[r] = "free"
    BY <1>0, <1>11 DEF StartDepth, Positioned, StopPositions, QuietInv, RingsReturned
  <2> QED
    BY <1>11, <2>1 DEF StartDepth, StopSeen
<1>12. CASE FinishRing
  <2> DEFINE waiting == {r \in RingsIn("stream1") : ~ringDone[r]}
  <2>1. Oldest(waiting) \in waiting
    BY <1>0, <1>12, OldestIsOne DEF FinishRing, RingsIn
  <2>2. ringDone'[Oldest(waiting)] = TRUE /\ ringState' = ringState
    BY <1>0, <1>12, <2>1 DEF FinishRing, RingsOK, RingsIn
  <2>3. Oldest(waiting) \in Ring /\ ringState[Oldest(waiting)] = "stream1"
    BY <2>1 DEF RingsIn
  <2> HIDE DEF waiting
  <2>4. \E r \in Ring : ringState'[r] = "stream1" /\ ringDone'[r]
    BY <2>2, <2>3
  <2> QED
    BY <2>4 DEF StopSeen
<1>13. CASE Stream3 \/ UNCHANGED vars
  BY <1>1, <1>13 DEF Stream3, Stream3Pack, Stream3Prepare, Stream3Scatter,
     Stream3BuildReady, vars, hostVars, stopVars
<1>14. ASSUME NEW s \in Slot, Stream4(s) PROVE StopSeen'
  BY <1>1, <1>14 DEF Stream4, Stream4Sort, Stream4Publish, Stream4Signal, hostVars, stopVars
<1> QED
  BY <1>2, <1>3, <1>4, <1>5, <1>6, <1>7, <1>8, <1>9, <1>10, <1>11, <1>12, <1>13, <1>14
  DEF Next, Host, MainLoop, Ended

\* A depth is not reported as done while a goal that Stream 2 has found is still
\* to be seen: whatever the order of the rings' events and the host's polls,
\* finalize_depth_single_gpu is only reached with the stop flag down.
THEOREM GoalNeverMissed == Spec => []GoalNotMissed
<1>1. Init => QuietInv /\ StopSeen
  BY DEF Init, QuietInv, RingsReturned, StopSeen
<1>2. SafeInv /\ QuietInv /\ StopSeen => GoalNotMissed
  BY DEF GoalNotMissed, StopSeen, SafeInv, Positioned, StopPositions, QuietInv, RingsReturned
<1> QED
  BY <1>1, <1>2, QuietStep, StopSeenStep, SafeInvHolds, PTL DEF Spec

LEMMA NothingLaunchedStep ==
    ASSUME SafeInv, [Next]_vars, stopRequested, pc # "done"
    PROVE  /\ cursor' = cursor
           /\ ~(s3phase = "idle" /\ s3phase' # "idle")
           /\ \A s \in Slot : ~(slotPhase[s] = "free" /\ slotPhase'[s] = "running")
<1>1. pc \in {"test", "reap", "rings", "stream3", "stop", "halting", "stopped", "failed",
              "error"}
  BY DEF SafeInv, Positioned, StopPositions
<1>2. CASE LoopTest \/ ReapRings \/ CheckStop
  BY <1>2 DEF LoopTest, ReapRings, CheckStop, slotVars, s3Vars
<1>3. CASE ReapStream4
  BY <1>3 DEF ReapStream4, ReleaseSlots, ReleaseDoneSlots, slotVars, s3Vars
<1>4. CASE ReapStream3
  BY <1>4 DEF ReapStream3, FinishStream3, CompleteStream3, slotVars, s3Vars
<1>5. CASE EndPass
  BY <1>5 DEF EndPass, WaitStream3, WaitOldestRing, WaitStream4Slot, GiveUp, FinishStream3,
     CompleteStream3, ReleaseSlots, ReleaseDoneSlots, slotVars, s3Vars
<1>6. CASE FinishRing \/ Stream3 \/ UNCHANGED vars
  BY <1>6 DEF FinishRing, Stream3, Stream3Pack, Stream3Prepare, Stream3Scatter,
     Stream3BuildReady, vars, hostVars, slotVars, s3Vars
<1>7. ASSUME NEW s \in Slot, Stream4(s)
      PROVE  /\ cursor' = cursor /\ s3phase' = s3phase
             /\ \A t \in Slot : slotPhase[t] = "free" => slotPhase'[t] = "free"
  BY <1>7 DEF Stream4, Stream4Sort, Stream4Publish, Stream4Signal, hostVars, s3Vars, SafeInv,
     TypeInv, SlotsOK
<1> QED
  BY <1>1, <1>2, <1>3, <1>4, <1>5, <1>6, <1>7
  DEF Next, Host, MainLoop, Ended, UpdateBefore, UpdateAfter, MaybeUpdate, LaunchRelease,
      LaunchPending, FillRings, CopyCleanCounts, CopyDirtyCounts, CopyProcessingFlags,
      PressureBuild, PressureAppend, PressureEnd, LaunchStream3, Drain, UpdateThreshold,
      FlushBuild, FlushAppend, FlushUpdate, FlushTest, Finalize, StartDepth

\* Once the host has seen the stop flag no ring is filled, Stream 3 is not launched
\* and no Stream 4 job is started, although the streams already at work go on.
THEOREM NothingLaunchedHolds == Spec => NothingLaunchedAfterStop
<1>1. SafeInv /\ [Next]_vars
      => [stopRequested /\ pc # "done" =>
            /\ cursor' = cursor
            /\ ~(s3phase = "idle" /\ s3phase' # "idle")
            /\ \A s \in Slot : ~(slotPhase[s] = "free" /\ slotPhase'[s] = "running")]_vars
  BY NothingLaunchedStep
<1> QED
  BY <1>1, SafeInvHolds, PTL DEF Spec, NothingLaunchedAfterStop
-----------------------------------------------------------------------------
(* No bank overflows.                                                      *)

\* From the moment Stream 3 has chosen the banks, each share fits its bank or the
\* fatal flag is up.
ShareFits ==
    s3phase = "prepared" /\ ~fatal =>
        \A l \in Shard : Raw(l) = 0 \/ Used(<<l, writeIdx[l]>>) + Raw(l) <= Capacity

CapacityInv == CapacityRespected /\ ShareFits

occupancyVars == <<clean, dirty, s3phase, s3batch, fatal, writeIdx>>
-----------------------------------------------------------------------------
LEMMA UsedIsNat == BanksOK => \A p \in Bank : Used(p) \in Nat
<1> SUFFICES ASSUME BanksOK, NEW p \in Bank PROVE Used(p) \in Nat
  OBVIOUS
<1>1. Cardinality(clean[p]) \in Nat /\ Cardinality(dirty[p]) \in Nat
  BY RowsFinite DEF BanksOK
<1> QED
  BY <1>1 DEF Used

LEMMA RawIsNat == Stream3OK => \A l \in Shard : Raw(l) \in Nat
<1> SUFFICES ASSUME Stream3OK, NEW l \in Shard PROVE Raw(l) \in Nat
  OBVIOUS
<1>1. InShard(s3batch, l) \in SUBSET Cand
  BY ReductionsAreRows DEF Stream3OK
<1> QED
  BY <1>1, RowsFinite DEF Raw

\* A sort leaves a bank at most as full as it was.
LEMMA SortShrinks ==
    ASSUME BanksOK, NEW p \in Bank
    PROVE  Cardinality(Sorted(p)) <= Used(p)
<1>1. clean[p] \in SUBSET Cand /\ dirty[p] \in SUBSET Cand
  BY DEF BanksOK
<1>2. clean[p] \cup dirty[p] \in SUBSET Cand
  BY <1>1
<1>3. Sorted(p) \in SUBSET (clean[p] \cup dirty[p])
  BY DEF Sorted, BestPerState, AtMost
<1>4. Cardinality(Sorted(p)) <= Cardinality(clean[p] \cup dirty[p])
  BY <1>2, <1>3, RowsFinite, FS_Subset
<1>5. Cardinality(clean[p] \cup dirty[p]) <= Cardinality(clean[p]) + Cardinality(dirty[p])
  BY <1>1, UnionBound
<1>6. Sorted(p) \in SUBSET Cand
  BY <1>2, <1>3
<1>7. /\ Cardinality(Sorted(p)) \in Nat /\ Cardinality(clean[p] \cup dirty[p]) \in Nat
      /\ Cardinality(clean[p]) \in Nat /\ Cardinality(dirty[p]) \in Nat
  BY <1>1, <1>2, <1>6, RowsFinite
<1> QED
  BY <1>4, <1>5, <1>7 DEF Used

LEMMA KeepCapacity == CapacityInv /\ UNCHANGED occupancyVars => CapacityInv'
  BY DEF CapacityInv, CapacityRespected, ShareFits, occupancyVars, Used, Raw

\* The steps that touch neither the rows nor the batch in flight.
LEMMA OtherSteps ==
    ASSUME SafeInv, CapacityInv,
           UNCHANGED <<clean, dirty>>, s3phase' # "prepared"
    PROVE  CapacityInv'
  BY DEF CapacityInv, CapacityRespected, ShareFits, Used

LEMMA PrepareKeeps ==
    ASSUME SafeInv, CapacityInv, Stream3Prepare
    PROVE  CapacityInv'
<1> DEFINE target == [l \in Shard |-> WriteBank(l, Raw(l))]
<1>1. /\ UNCHANGED <<clean, dirty, s3batch>>
      /\ \A l \in Shard : writeIdx'[l] = IF Raw(l) = 0 THEN writeIdx[l] ELSE target[l][2]
      /\ fatal' = (fatal \/ \E l \in Shard : Raw(l) > Available(target[l]))
  BY DEF Stream3Prepare
<1>2. \A l \in Shard : target[l] \in Bank /\ target[l] = <<l, target[l][2]>>
  BY DEF SafeInv, TypeInv, BanksOK, WriteBank, Sibling, Bank
<1>3. \A p \in Bank : Used(p)' = Used(p) /\ Used(p) \in Nat
  BY <1>1, UsedIsNat DEF Used, SafeInv, TypeInv
<1>4. \A l \in Shard : Raw(l)' = Raw(l) /\ Raw(l) \in Nat
  BY <1>1, RawIsNat DEF Raw, SafeInv, TypeInv
<1> HIDE DEF target
<1>5. CapacityRespected'
  BY <1>3 DEF CapacityInv, CapacityRespected
<1>6. ASSUME ~fatal', NEW l \in Shard, Raw(l) # 0
      PROVE  Used(<<l, writeIdx'[l]>>) + Raw(l) <= Capacity
  <2>1. Raw(l) <= Available(target[l])
    <3>1. ~(Raw(l) > Available(target[l]))
      BY <1>1, <1>6
    <3>2. Available(target[l]) \in Int
      BY <1>2, <1>3, SizesAssumption DEF Available
    <3> QED
      BY <1>4, <3>1, <3>2
  <2>2. Available(target[l]) = Capacity - Used(target[l])
    BY <1>2, <1>3, <1>4, <1>6, <2>1 DEF Available
  <2>3. target[l] = <<l, writeIdx'[l]>>
    BY <1>1, <1>2, <1>6
  <2> QED
    BY <1>2, <1>3, <1>4, <2>1, <2>2, <2>3, SizesAssumption
<1>7. \A l \in Shard : <<l, writeIdx'[l]>> \in Bank
  BY TypeStep DEF SafeInv, TypeInv, BanksOK, Bank, Next, Stream3
<1>8. ShareFits'
  <2> SUFFICES ASSUME ~fatal', NEW l \in Shard, Raw(l)' # 0
               PROVE  (Used(<<l, writeIdx[l]>>) + Raw(l) <= Capacity)'
    BY DEF ShareFits
  <2>1. Used(<<l, writeIdx'[l]>>) + Raw(l) <= Capacity
    BY <1>4, <1>6
  <2>2. Used(<<l, writeIdx[l]>>)' = Used(<<l, writeIdx'[l]>>)
    BY <1>1 DEF Used
  <2> QED
    BY <1>4, <2>1, <2>2
<1> QED
  BY <1>5, <1>8 DEF CapacityInv

LEMMA ScatterKeeps ==
    ASSUME SafeInv, CapacityInv, Stream3Scatter
    PROVE  CapacityInv'
<1>1. BanksOK /\ Stream3OK
  BY DEF SafeInv, TypeInv
<1>2. s3phase' # "prepared" /\ clean' = clean
  BY DEF Stream3Scatter
<1>3. ASSUME NEW p \in Bank PROVE Used(p)' <= Capacity
  <2>1. Used(p) <= Capacity /\ Used(p) \in Nat
    BY <1>1, UsedIsNat DEF CapacityInv, CapacityRespected
  <2>2. CASE dirty'[p] = dirty[p]
    BY <1>2, <2>1, <2>2 DEF Used
  <2>3. CASE ~fatal /\ writeIdx[p[1]] = p[2]
             /\ dirty'[p] = dirty[p] \cup InShard(s3batch, p[1])
    <3>1. p = <<p[1], writeIdx[p[1]]>> /\ p[1] \in Shard
      BY <2>3, SiblingIsBank
    <3>2. Raw(p[1]) = 0 \/ Used(p) + Raw(p[1]) <= Capacity
      BY <2>3, <3>1 DEF Stream3Scatter, CapacityInv, ShareFits
    <3>3. /\ clean[p] \in SUBSET Cand /\ dirty[p] \in SUBSET Cand
          /\ InShard(s3batch, p[1]) \in SUBSET Cand
      BY <1>1, ReductionsAreRows DEF BanksOK, Stream3OK
    <3>4. Cardinality(dirty'[p]) <= Cardinality(dirty[p]) + Raw(p[1])
      BY <2>3, <3>3, UnionBound DEF Raw
    <3>5. /\ Cardinality(clean[p]) \in Nat /\ Cardinality(dirty[p]) \in Nat
          /\ Cardinality(dirty'[p]) \in Nat /\ Raw(p[1]) \in Nat
      <4>1. dirty'[p] \in SUBSET Cand
        BY <2>3, <3>3
      <4> QED
        BY <3>3, <4>1, RowsFinite DEF Raw
    <3>6. Used(p)' = Cardinality(clean[p]) + Cardinality(dirty'[p])
          /\ Used(p) = Cardinality(clean[p]) + Cardinality(dirty[p])
      BY <1>2 DEF Used
    <3> QED
      BY <2>1, <3>2, <3>4, <3>5, <3>6, SizesAssumption
  <2> QED
    BY <2>2, <2>3 DEF Stream3Scatter, AppendUnlessFatal, Appended
<1> QED
  BY <1>2, <1>3 DEF CapacityInv, CapacityRespected, ShareFits

\* A sort leaves every bank at most as full as it was.
LEMMA SortUses ==
    ASSUME BanksOK, SlotsOK, Holders, NEW s \in Slot, Stream4Sort(s)
    PROVE  \A q \in Bank : Used(q)' <= Used(q) /\ Used(q)' \in Nat
<1>2. PICK p \in Bank : p = slotBank[s]
  BY DEF Stream4Sort, SlotsOK, Holders, SlotsAgree
<1>3. \A q \in Bank : /\ clean'[q] = IF q = p THEN Sorted(p) ELSE clean[q]
                      /\ dirty'[q] = IF q = p THEN {} ELSE dirty[q]
  BY <1>2 DEF Stream4Sort, BanksOK
<1>4. Cardinality(Sorted(p)) <= Used(p) /\ Cardinality({}) = 0
  BY SortShrinks, FS_EmptySet
<1>5. Sorted(p) \in SUBSET Cand
  BY ReductionsAreRows DEF Sorted, BanksOK
<1>6. Cardinality(Sorted(p)) \in Nat /\ \A q \in Bank : Used(q) \in Nat
  BY <1>5, RowsFinite, UsedIsNat
<1>7. Used(p)' = Cardinality(Sorted(p))
  BY <1>3, <1>4, <1>6 DEF Used
<1>8. \A q \in Bank : q # p => Used(q)' = Used(q)
  BY <1>3 DEF Used
<1>9. \A n \in Nat : n <= n
  OBVIOUS
<1> QED
  BY <1>4, <1>6, <1>7, <1>8, <1>9

LEMMA SortKeeps ==
    ASSUME SafeInv, CapacityInv, NEW s \in Slot, Stream4Sort(s)
    PROVE  CapacityInv'
<1>1. BanksOK /\ Stream3OK /\ SlotsOK /\ Holders
  BY DEF SafeInv, TypeInv
<1>2. UNCHANGED <<s3phase, s3batch, fatal, writeIdx>>
  BY DEF Stream4Sort, s3Vars
<1>3. \A q \in Bank : Used(q)' <= Used(q) /\ Used(q)' \in Nat /\ Used(q) \in Nat
  BY <1>1, SortUses, UsedIsNat
<1>4. CapacityRespected'
  BY <1>3, SizesAssumption DEF CapacityInv, CapacityRespected
<1>5. ShareFits'
  <2> SUFFICES ASSUME s3phase = "prepared", ~fatal, NEW l \in Shard, Raw(l) # 0
               PROVE  Used(<<l, writeIdx[l]>>)' + Raw(l) <= Capacity
    BY <1>2 DEF ShareFits, Raw
  <2>1. <<l, writeIdx[l]>> \in Bank
    BY <1>1 DEF BanksOK, Bank
  <2>2. PICK q \in Bank : q = <<l, writeIdx[l]>>
    BY <2>1
  <2>3. Used(q) + Raw(l) <= Capacity /\ Raw(l) \in Nat
    BY <1>1, <2>2, RawIsNat DEF CapacityInv, ShareFits
  <2>4. Used(<<l, writeIdx[l]>>)' = Used(q)'
    BY <1>2, <2>2 DEF Used
  <2> QED
    BY <1>3, <2>3, <2>4, SizesAssumption
<1> QED
  BY <1>4, <1>5 DEF CapacityInv

LEMMA FinalizeKeeps ==
    ASSUME SafeInv, CapacityInv, Finalize
    PROVE  CapacityInv'
<1>1. s3phase' # "prepared"
  BY DEF Finalize, SafeInv, Positioned, Stream3Known, Stream3Parked
<1>2. \A p \in Bank : clean'[p] = {} /\ dirty'[p] = {}
  BY DEF Finalize
<1>3. \A p \in Bank : Used(p)' = 0
  BY <1>2, FS_EmptySet DEF Used
<1> QED
  BY <1>1, <1>3, SizesAssumption DEF CapacityInv, CapacityRespected, ShareFits

LEMMA CapacityStep == SafeInv /\ CapacityInv /\ [Next]_vars => CapacityInv'
<1> SUFFICES ASSUME SafeInv, CapacityInv, [Next]_vars PROVE CapacityInv'
  OBVIOUS
<1>0. Stream3Known
  BY DEF SafeInv, Positioned
<1>1. CASE LoopTest \/ ReapStream4 \/ ReapRings \/ CheckStop \/ UpdateBefore \/ UpdateAfter
  BY <1>1, KeepCapacity DEF LoopTest, ReapStream4, ReapRings, CheckStop,
       UpdateBefore,
     UpdateAfter, MaybeUpdate, occupancyVars, s3Vars, bankVars
<1>2. CASE LaunchRelease \/ LaunchPending \/ FillRings \/ Drain \/ UpdateThreshold
  BY <1>2, KeepCapacity DEF LaunchRelease, LaunchPending, FillRings, Drain,
     UpdateThreshold, occupancyVars, s3Vars, bankVars
<1>3. CASE CopyCleanCounts \/ CopyDirtyCounts \/ CopyProcessingFlags \/ PressureEnd
           \/ FlushUpdate \/ FlushTest
  BY <1>3, KeepCapacity DEF CopyCleanCounts, CopyDirtyCounts, CopyProcessingFlags,
     PressureEnd, FlushUpdate, FlushTest, occupancyVars, s3Vars, bankVars
<1>4. CASE PressureAppend \/ FlushAppend
  BY <1>4, KeepCapacity DEF PressureAppend, FlushAppend, occupancyVars, s3Vars
<1>5. CASE PressureBuild \/ FlushBuild
  BY <1>0, <1>5, OtherSteps DEF PressureBuild, FlushBuild, Stream3Known,
       Stream3Parked,
     s3Vars
<1>6. CASE ReapStream3
  <2>1. UNCHANGED <<clean, dirty, s3batch, fatal, writeIdx>>
    BY <1>6 DEF ReapStream3, FinishStream3, CompleteStream3, s3Vars
  <2>2. s3phase' = s3phase \/ s3phase' = "idle"
    BY <1>6 DEF ReapStream3, FinishStream3, CompleteStream3, s3Vars
  <2> QED
    BY <2>1, <2>2, KeepCapacity, OtherSteps DEF occupancyVars
<1>7. CASE EndPass
  <2>1. UNCHANGED <<clean, dirty, s3batch, fatal, writeIdx>>
    BY <1>7 DEF EndPass, WaitStream3, WaitOldestRing, WaitStream4Slot, GiveUp,
       FinishStream3, CompleteStream3, s3Vars, bankVars
  <2>2. s3phase' = s3phase \/ s3phase' = "idle"
    BY <1>7 DEF EndPass, WaitStream3, WaitOldestRing, WaitStream4Slot, GiveUp,
       FinishStream3, CompleteStream3, s3Vars
  <2> QED
    BY <2>1, <2>2, KeepCapacity, OtherSteps DEF occupancyVars
<1>8. CASE LaunchStream3
  BY <1>8, OtherSteps DEF LaunchStream3, bankVars
<1>9. CASE Finalize
  BY <1>9, FinalizeKeeps
<1>10. CASE StartDepth
  BY <1>0, <1>10, OtherSteps DEF StartDepth, Stream3Known, Stream3Parked, bankVars
<1>11. CASE FinishRing
  BY <1>11, KeepCapacity DEF FinishRing, occupancyVars, s3Vars, bankVars
<1>12. CASE Stream3Pack
  BY <1>12, OtherSteps DEF Stream3Pack, bankVars
<1>13. CASE Stream3Prepare
  BY <1>13, PrepareKeeps
<1>14. CASE Stream3Scatter
  BY <1>14, ScatterKeeps
<1>15. CASE Stream3BuildReady
  BY <1>15, OtherSteps DEF Stream3BuildReady
<1>16. ASSUME NEW s \in Slot, Stream4(s) PROVE CapacityInv'
  <2>1. CASE Stream4Sort(s)
    BY <2>1, SortKeeps
  <2>2. CASE Stream4Publish(s) \/ Stream4Signal(s)
    BY <2>2, KeepCapacity
    DEF Stream4Publish, Stream4Signal, occupancyVars, s3Vars, bankVars
  <2> QED
    BY <1>16, <2>1, <2>2 DEF Stream4
<1>17. CASE UNCHANGED vars
  BY <1>17, KeepCapacity DEF vars, occupancyVars, s3Vars, bankVars
<1> QED
  BY <1>1, <1>2, <1>3, <1>4, <1>5, <1>6, <1>7, <1>8, <1>9, <1>10, <1>11, <1>12,
       <1>13,
     <1>14, <1>15, <1>16, <1>17 DEF Next, Host, MainLoop, Stream3, Ended

LEMMA CapacityInit == Init => CapacityInv
<1> SUFFICES ASSUME Init PROVE CapacityInv
  OBVIOUS
<1>1. \A p \in Bank : Used(p) = 0
  BY FS_EmptySet DEF Init, Used
<1> QED
  BY <1>1, SizesAssumption DEF Init, CapacityInv, CapacityRespected, ShareFits

\* A bank never holds more rows than SHARD_CAPACITY_CANDIDATES, although
\* stream3_prepare_partition_counts reads counters a Stream 4 job may be changing
\* and the rows are only appended later by stream3_partition_scatter.
THEOREM CapacityHolds == Spec => []CapacityRespected
<1>1. CapacityInv => CapacityRespected
  BY DEF CapacityInv
<1> QED
  BY <1>1, CapacityInit, CapacityStep, SafeInvHolds, PTL DEF Spec
-----------------------------------------------------------------------------
(* What is in flight between the admission check and the append.           *)

\* Stream 3 reads one ring while it is at work, and none when it is idle.
ReadsOneRing ==
    /\ s3phase = "idle" <=> RingsIn("stream3") = {}
    /\ \A q, r \in RingsIn("stream3") : q = r

\* A raised fatal flag ends the depth before Stream 3 is launched again.
FatalInFlight == fatal => s3phase \in {"prepared", "scattered", "done"}

FlightInv == ReadsOneRing /\ FatalInFlight

LEMMA FlightStep == SafeInv /\ QuietInv /\ FlightInv /\ [Next]_vars => FlightInv'
<1> SUFFICES ASSUME SafeInv, QuietInv, FlightInv, [Next]_vars PROVE FlightInv'
  OBVIOUS
<1>0. RingsOK /\ ReadyWhileAdmitting /\ Stream3Known /\ Stream3OK
  BY DEF SafeInv, TypeInv, Positioned
<1>1. ASSUME \A r \in Ring : ringState'[r] = "stream3" <=> ringState[r] = "stream3",
             s3phase' = s3phase, fatal' = fatal
      PROVE  FlightInv'
  BY <1>1 DEF FlightInv, ReadsOneRing, FatalInFlight, RingsIn
<1>2. CASE LoopTest \/ ReapStream4 \/ UpdateBefore \/ UpdateAfter \/ LaunchRelease
           \/ LaunchPending \/ Drain \/ UpdateThreshold
  BY <1>1, <1>2 DEF LoopTest, ReapStream4, UpdateBefore, UpdateAfter, MaybeUpdate,
     LaunchRelease, LaunchPending, Drain, UpdateThreshold, ringVars, s3Vars
<1>3. CASE CopyCleanCounts \/ CopyDirtyCounts \/ CopyProcessingFlags \/ PressureBuild
           \/ PressureAppend \/ PressureEnd
  BY <1>1, <1>3 DEF CopyCleanCounts, CopyDirtyCounts, CopyProcessingFlags, PressureBuild,
     PressureAppend, PressureEnd, ringVars, s3Vars
<1>4. CASE FlushBuild \/ FlushAppend \/ FlushUpdate \/ FlushTest \/ Finalize \/ FinishRing
  BY <1>1, <1>4 DEF FlushBuild, FlushAppend, FlushUpdate, FlushTest, Finalize, FinishRing,
     ringVars, s3Vars
<1>5. CASE ReapRings \/ CheckStop
  BY <1>1, <1>5 DEF ReapRings, CheckStop, ReadyRings, DiscardReady, s3Vars
<1>6. ASSUME CompleteStream3, ~fatal PROVE FlightInv'
  BY <1>6 DEF CompleteStream3, RingReturned, FlightInv, ReadsOneRing, FatalInFlight, RingsIn
<1>7. CASE ReapStream3
  <2>1. CASE UNCHANGED <<ringState, s3Vars>>
    BY <1>1, <2>1 DEF s3Vars
  <2> QED
    BY <1>6, <1>7, <2>1 DEF ReapStream3, FinishStream3
<1>8. CASE EndPass
  <2>1. CASE UNCHANGED <<ringState, s3Vars>>
    BY <1>1, <2>1 DEF s3Vars
  <2>2. CASE WaitStream3
    BY <1>6, <2>1, <2>2 DEF WaitStream3, FinishStream3
  <2>3. CASE WaitOldestRing \/ WaitStream4Slot \/ GiveUp
    BY <1>1, <2>3 DEF WaitOldestRing, WaitStream4Slot, GiveUp, ReadyRings, DiscardReady,
       ringVars, s3Vars
  <2> QED
    BY <1>8, <2>1, <2>2, <2>3 DEF EndPass, ringVars
<1>9. CASE FillRings
  <2>1. ASSUME NEW r, r \in RingsIn("free"), ringState' = [ringState EXCEPT ![r] = "stream1"]
        PROVE  FlightInv'
    <3>1. \A q \in Ring : ringState'[q] = "stream3" <=> ringState[q] = "stream3"
      BY <1>0, <2>1 DEF RingsIn, RingsOK
    <3> QED
      BY <1>1, <1>9, <3>1 DEF FillRings, s3Vars
  <2>2. CASE ~stopRequested /\ RingsIn("free") # {} /\ cursor <= Loads
    <3> DEFINE free == RingsIn("free")
               r == CHOOSE x \in free : \A y \in free : x <= y
    <3>1. free \in SUBSET Ring /\ free # {}
      BY <2>2 DEF RingsIn
    <3>2. r \in free
      <4> HIDE DEF free
      <4> QED
        BY <3>1, FirstIsOne
    <3>3. ringState' = [ringState EXCEPT ![r] = "stream1"]
      BY <1>9, <2>2 DEF FillRings
    <3> QED
      BY <2>1, <3>2, <3>3
  <2>3. CASE UNCHANGED ringState
    BY <1>1, <1>9, <2>3 DEF FillRings, s3Vars
  <2> QED
    BY <1>9, <2>2, <2>3 DEF FillRings
<1>10. CASE LaunchStream3
  <2> DEFINE r == Oldest(RingsIn("ready"))
  <2>1. r \in RingsIn("ready")
    <3>1. RingsIn("ready") # {} /\ RingsIn("ready") \subseteq Ring
      BY <1>0, <1>10 DEF LaunchStream3, ReadyWhileAdmitting, Admitting, RingsIn
    <3> QED
      BY <1>0, <3>1, OldestIsOne
  <2>2. s3phase = "idle" /\ s3phase' = "launched" /\ fatal' = fatal
    BY <1>0, <1>10 DEF LaunchStream3, Stream3Known, Stream3Parked
  <2>3. ringState' = [ringState EXCEPT ![r] = "stream3"]
    BY <1>10 DEF LaunchStream3
  <2> HIDE DEF r
  <2>4. \A q \in Ring : ringState'[q] = "stream3" <=> q = r
    BY <1>0, <2>1, <2>2, <2>3 DEF FlightInv, ReadsOneRing, RingsIn, RingsOK
  <2> QED
    BY <2>1, <2>2, <2>4 DEF FlightInv, ReadsOneRing, FatalInFlight, RingsIn
<1>11. CASE StartDepth
  BY <1>0, <1>11 DEF StartDepth, Stream3Known, Stream3Parked, FlightInv, ReadsOneRing,
     FatalInFlight, RingsIn
<1>12. CASE Stream3
  <2>1. ringState' = ringState /\ s3phase # "idle" /\ s3phase' # "idle"
    BY <1>12 DEF Stream3, Stream3Pack, Stream3Prepare, Stream3Scatter, Stream3BuildReady,
       ringVars
  <2>2. FatalInFlight'
    BY <1>12 DEF Stream3, Stream3Pack, Stream3Prepare, Stream3Scatter, Stream3BuildReady,
       FlightInv, FatalInFlight
  <2> QED
    BY <2>1, <2>2 DEF FlightInv, ReadsOneRing, RingsIn
<1>13. ASSUME NEW s \in Slot, Stream4(s) PROVE FlightInv'
  BY <1>1, <1>13 DEF Stream4, Stream4Sort, Stream4Publish, Stream4Signal, ringVars, s3Vars
<1>14. CASE UNCHANGED vars
  BY <1>1, <1>14 DEF vars, ringVars, s3Vars
<1> QED
  BY <1>2, <1>3, <1>4, <1>5, <1>7, <1>8, <1>9, <1>10, <1>11, <1>12, <1>13, <1>14
  DEF Next, Host, MainLoop, Ended

\* Wherever the host and the streams stand, Stream 3 works on one ring at most, and
\* a fatal flag lies with the Stream 3 job that raised it.
THEOREM FlightHolds == Spec => []FlightInv
<1>1. Init => QuietInv /\ FlightInv
  BY DEF Init, QuietInv, RingsReturned, FlightInv, ReadsOneRing, FatalInFlight, RingsIn
<1> QED
  BY <1>1, QuietStep, FlightStep, SafeInvHolds, PTL DEF Spec
-----------------------------------------------------------------------------
(* Why a batch that was checked fits.                                      *)

\* What the check found room for: the write reserve, or the whole batch if that
\* is less.
Room == Smaller(WriteReserve, BatchSize)

\* No load brings a shard more than the write reserve.
NoShardFlooded ==
    \A d \in 1..Len(Batches) : \A i \in 1..Len(Batches[d]) : \A l \in Shard :
        Cardinality(InShard(Batches[d][i], l)) <= WriteReserve

\* Every shard has an idle bank with that room.
RoomIn(l) == \E b \in {0, 1} : Available(<<l, b>>) >= Room
HasRoom == \A l \in Shard : RoomIn(l)

\* The room is there until Stream 3 has chosen its banks.
RoomStays ==
    admission = "checked" /\ (pc = "launch3" \/ s3phase \in {"launched", "packed"})
    => HasRoom

SharesModest == s3phase = "packed" => \A l \in Shard : Raw(l) <= Room

RoomInv == RoomStays /\ SharesModest /\ (fatal => admission # "checked")

LEMMA ReserveIsNat == WriteReserve \in Nat /\ Room \in Nat
<1>1. \A m \in Nat, n \in Nat \ {0} : CeilDiv(m, n) \in Nat
  BY DEF CeilDiv
<1>2. Cardinality(Shard) \in Nat \ {0}
  BY ShardAssumption, FS_CardinalityType, FS_EmptySet
<1>3. AverageWrite \in Nat
  BY <1>1, <1>2, SizesAssumption DEF AverageWrite
<1> QED
  BY <1>1, <1>3, SizesAssumption DEF WriteReserve, Room, Smaller

LEMMA AvailableIsNat == BanksOK => \A p \in Bank : Available(p) \in Nat
  BY UsedIsNat, SizesAssumption DEF Available

\* A step that adds no rows and flags no bank leaves the room there.
LEMMA RoomGrows ==
    ASSUME BanksOK, HasRoom,
           \A p \in Bank : Used(p)' <= Used(p) /\ Used(p)' \in Nat,
           \A p \in Bank : processing'[p] => processing[p]
    PROVE  HasRoom'
<1> SUFFICES ASSUME NEW l \in Shard
             PROVE  RoomIn(l)'
  BY DEF HasRoom
<1>1. PICK b \in {0, 1} : Available(<<l, b>>) >= Room
  BY DEF HasRoom, RoomIn
<1>2. PICK p \in Bank : p = <<l, b>>
  BY DEF Bank
<1>3. Room' = Room /\ Room \in Nat
  BY ReserveIsNat DEF Room, WriteReserve, AverageWrite, CeilDiv, Smaller
<1>4. Available(p)' >= Room
  <2>1. Used(p) \in Nat /\ Used(p)' <= Used(p) /\ Used(p)' \in Nat
    BY UsedIsNat
  <2>2. Available(p) >= Room
    BY <1>1, <1>2
  <2> QED
    BY <1>3, <2>1, <2>2, SizesAssumption DEF Available
<1> QED
  BY <1>2, <1>3, <1>4 DEF RoomIn

LEMMA RoomKept ==
    ASSUME BanksOK, HasRoom, UNCHANGED <<clean, dirty, processing>>
    PROVE  HasRoom'
<1>1. \A p \in Bank : Used(p)' <= Used(p) /\ Used(p)' \in Nat
  BY UsedIsNat DEF Used
<1> QED
  BY <1>1, RoomGrows

\* What one ring brings a shard has room if the check found it.
LEMMA PackKeepsRoom ==
    ASSUME NoShardFlooded, SafeInv, FlightInv, RoomInv, Stream3Pack
    PROVE  RoomInv'
<1> DEFINE batch == UNION {Load(r) : r \in RingsIn("stream3")}
           kept == BestPerState(AtMost(batch, threshold))
<1>0. CountersOK /\ RingsOK /\ RingsLoaded /\ BanksOK
  BY DEF SafeInv, TypeInv
<1>1. /\ s3phase = "launched" /\ s3phase' = "packed" /\ s3batch' = kept
      /\ UNCHANGED <<pc, admission, fatal, clean, dirty, processing>>
  BY DEF Stream3Pack, hostVars, bankVars
<1>2. PICK r \in RingsIn("stream3") : batch = Load(r)
  BY <1>1 DEF FlightInv, ReadsOneRing
<1>3. /\ depth \in 1..Len(Batches) /\ ringLoad[r] \in 1..Len(Batches[depth])
      /\ Load(r) = Batches[depth][ringLoad[r]] /\ Load(r) \in SUBSET Cand
  BY <1>0, LoadIsCandidates DEF CountersOK, RingsLoaded, RingsIn, Loads, Load
<1>4. ASSUME NEW l \in Shard PROVE Raw(l)' <= Room
  <2>1. InShard(kept, l) \subseteq InShard(Load(r), l) /\ InShard(Load(r), l) \subseteq Load(r)
    BY <1>2 DEF InShard, BestPerState, AtMost
  <2>2. /\ Cardinality(InShard(kept, l)) <= Cardinality(InShard(Load(r), l))
        /\ Cardinality(InShard(kept, l)) <= Cardinality(Load(r))
        /\ Cardinality(InShard(Load(r), l)) \in Nat /\ Cardinality(Load(r)) \in Nat
        /\ Cardinality(InShard(kept, l)) \in Nat
    <3> HIDE DEF kept
    <3>1. /\ IsFiniteSet(Load(r)) /\ IsFiniteSet(InShard(Load(r), l))
          /\ IsFiniteSet(InShard(kept, l))
      BY <1>3, <2>1, RowsFinite, FS_Subset
    <3> QED
      BY <2>1, <3>1, FS_Subset, FS_CardinalityType
  <2>3. Cardinality(InShard(Load(r), l)) <= WriteReserve /\ Cardinality(Load(r)) <= BatchSize
    BY <1>3, BatchesAssumption DEF NoShardFlooded
  <2>4. Raw(l)' = Cardinality(InShard(kept, l))
    BY <1>1 DEF Raw, InShard
  <2> HIDE DEF kept
  <2> QED
    BY <2>2, <2>3, <2>4, ReserveIsNat, SizesAssumption DEF Room, Smaller
<1>5. RoomStays'
  <2>1. UNCHANGED <<clean, dirty, processing>> /\ s3phase = "launched" /\ admission' = admission
    BY <1>1
  <2>2. HasRoom => HasRoom'
    BY <1>0, <2>1, RoomKept
  <2> HIDE DEF batch, kept
  <2> QED
    BY <2>1, <2>2 DEF RoomInv, RoomStays
<1> QED
  BY <1>1, <1>4, <1>5 DEF RoomInv, SharesModest

\* stream3_prepare_partition_counts finds the bank the check found.
LEMMA PrepareKeepsRoom ==
    ASSUME SafeInv, RoomInv, FatalInFlight, Stream3Prepare
    PROVE  RoomInv'
<1>0. BanksOK /\ Stream3OK
  BY DEF SafeInv, TypeInv
<1>1. /\ s3phase = "packed" /\ s3phase' = "prepared" /\ UNCHANGED <<pc, admission>>
      /\ fatal' = (fatal \/ \E l \in Shard : Raw(l) > Available(WriteBank(l, Raw(l))))
      /\ pc' # "launch3"
  BY DEF Stream3Prepare, hostVars, SafeInv, Positioned, Stream3Known, Stream3Parked
<1>2. ASSUME admission = "checked", NEW l \in Shard
      PROVE  ~(Raw(l) > Available(WriteBank(l, Raw(l))))
  <2> DEFINE cur == <<l, writeIdx[l]>>
             sib == Sibling(cur)
  <2>1. PICK b \in {0, 1} : Available(<<l, b>>) >= Room
    BY <1>1, <1>2 DEF RoomInv, RoomStays, HasRoom, RoomIn
  <2>2. <<l, b>> \in {cur, sib} /\ cur \in Bank /\ sib \in Bank
    BY <1>0 DEF BanksOK, Sibling, Bank
  <2>3. Raw(l) <= Room /\ Raw(l) \in Nat /\ Room \in Nat
    BY <1>0, <1>1, RawIsNat, ReserveIsNat DEF RoomInv, SharesModest
  <2>4. Available(cur) \in Nat /\ Available(sib) \in Nat
    BY <1>0, <2>2, AvailableIsNat
  <2>5. Available(cur) >= Raw(l) \/ Available(sib) >= Raw(l)
    BY <2>1, <2>2, <2>3, <2>4
  <2> QED
    BY <2>3, <2>4, <2>5 DEF WriteBank
<1>3. fatal' => admission' # "checked"
  BY <1>1, <1>2 DEF RoomInv
<1> QED
  BY <1>1, <1>3 DEF RoomInv, RoomStays, SharesModest

\* The steps after which nothing that was checked is in flight.
LEMMA NoJobKeepsRoom ==
    ASSUME RoomInv, pc' # "launch3", s3phase' \notin {"launched", "packed"},
           fatal' => fatal /\ admission' = admission
    PROVE  RoomInv'
  BY DEF RoomInv, RoomStays, SharesModest

\* The steps that at most make room.
LEMMA KeepRoom ==
    ASSUME BanksOK, RoomInv,
           UNCHANGED <<admission, s3phase, s3batch, fatal>>,
           pc' = "launch3" => pc = "launch3",
           \A p \in Bank : Used(p)' <= Used(p) /\ Used(p)' \in Nat,
           \A p \in Bank : processing'[p] => processing[p]
    PROVE  RoomInv'
<1>1. HasRoom => HasRoom'
  BY RoomGrows
<1>2. SharesModest'
  <2>1. Room' = Room
    BY DEF Room, WriteReserve, AverageWrite, CeilDiv, Smaller
  <2>2. \A l \in Shard : Raw(l)' = Raw(l)
    BY DEF Raw, InShard
  <2> QED
    BY <2>1, <2>2 DEF RoomInv, SharesModest
<1> QED
  BY <1>1, <1>2 DEF RoomInv, RoomStays

LEMMA KeepRows ==
    ASSUME BanksOK, UNCHANGED <<clean, dirty>>
    PROVE  \A p \in Bank : Used(p)' <= Used(p) /\ Used(p)' \in Nat
  BY UsedIsNat DEF Used

\* stream3_has_writable_buffer finds the room, if its three copies were all of one
\* moment.
LEMMA CheckFindsRoom ==
    ASSUME SafeInv, FatalInFlight, RoomInv, CopyProcessingFlags
    PROVE  RoomInv'
<1>0. BanksOK /\ CountersOK
  BY DEF SafeInv, TypeInv
<1>1. s3phase = "idle" /\ ~fatal
  BY DEF CopyProcessingFlags, SafeInv, Positioned, Stream3Known, Stream3Parked, FatalInFlight
<1>2. UNCHANGED <<s3phase, fatal, clean, dirty, processing>>
  BY DEF CopyProcessingFlags, s3Vars, bankVars
<1>3. ASSUME admission' = "checked", pc' = "launch3" PROVE HasRoom'
  <2>1. /\ \A l \in Shard : Writable(l)
        /\ \A p \in Bank : ~(seenUsed[p] < Used(p))
    BY <1>3 DEF CopyProcessingFlags
  <2>2. ASSUME NEW l \in Shard PROVE RoomIn(l)
    <3>1. PICK b \in {0, 1} :
            /\ ~processing[<<l, b>>] /\ seenUsed[<<l, b>>] < Capacity
            /\ \/ Capacity - seenUsed[<<l, b>>] >= Smaller(BatchSize, Capacity)
               \/ Capacity - seenUsed[<<l, b>>] >= WriteReserve
      BY <2>1 DEF Writable
    <3>2. PICK p \in Bank : p = <<l, b>>
      BY DEF Bank
    <3>3. /\ Used(p) \in Nat /\ seenUsed[p] \in Nat /\ Used(p) <= seenUsed[p]
          /\ ~processing[p] /\ seenUsed[p] < Capacity
      BY <1>0, <2>1, <3>1, <3>2, UsedIsNat DEF CountersOK
    <3>4. Capacity - seenUsed[p] >= Room
      <4>1. Smaller(BatchSize, Capacity) >= Room /\ WriteReserve >= Room
        BY ReserveIsNat, SizesAssumption DEF Room, Smaller
      <4>2. \/ Capacity - seenUsed[p] >= Smaller(BatchSize, Capacity)
            \/ Capacity - seenUsed[p] >= WriteReserve
        BY <3>1, <3>2
      <4>3. Smaller(BatchSize, Capacity) \in Nat
        BY SizesAssumption DEF Smaller
      <4> QED
        BY <3>3, <4>1, <4>2, <4>3, ReserveIsNat, SizesAssumption
    <3>5. Available(p) >= Room
      BY <3>3, <3>4, ReserveIsNat, SizesAssumption DEF Available
    <3> QED
      BY <3>2, <3>5 DEF RoomIn
  <2>3. HasRoom
    BY <2>2 DEF HasRoom
  <2> QED
    BY <1>0, <1>2, <2>3, RoomKept
<1> QED
  BY <1>1, <1>2, <1>3 DEF RoomInv, RoomStays, SharesModest

LEMMA RoomStep ==
    ASSUME NoShardFlooded, SafeInv, FlightInv, RoomInv, [Next]_vars
    PROVE  RoomInv'
<1>0. BanksOK /\ SlotsOK /\ Holders /\ Stream3Known /\ ReadsOneRing /\ FatalInFlight
  BY DEF SafeInv, TypeInv, Positioned, FlightInv
<1>1. ASSUME UNCHANGED <<admission, s3phase, s3batch, fatal, clean, dirty, processing>>,
             pc' = "launch3" => pc = "launch3"
      PROVE  RoomInv'
  BY <1>0, <1>1, KeepRoom, KeepRows
<1>2. CASE LoopTest \/ ReapStream4 \/ ReapRings \/ CheckStop \/ UpdateBefore
           \/ UpdateAfter \/ LaunchRelease
  BY <1>1, <1>2 DEF LoopTest, ReapStream4, ReapRings, CheckStop, UpdateBefore,
     UpdateAfter, MaybeUpdate, LaunchRelease, ReleaseSlots, s3Vars, bankVars
<1>3. CASE LaunchPending \/ FillRings \/ Drain \/ UpdateThreshold \/ FlushUpdate
           \/ FlushTest
  <2>1. pc' = "launch3" => pc = "launch3"
    BY <1>0, <1>3 DEF LaunchPending, FillRings, Drain, UpdateThreshold, FlushUpdate,
       FlushTest, ReleaseSlots, SafeInv, TypeInv, ReturnsRight
  <2> QED
    BY <1>1, <1>3, <2>1 DEF LaunchPending, FillRings, Drain, UpdateThreshold, FlushUpdate,
       FlushTest, s3Vars, bankVars
<1>4. CASE CopyCleanCounts \/ CopyDirtyCounts \/ PressureAppend \/ FlushAppend
  BY <1>1, <1>4 DEF CopyCleanCounts, CopyDirtyCounts, PressureAppend, FlushAppend,
     s3Vars, bankVars
<1>5. CASE CopyProcessingFlags
  BY <1>0, <1>5, CheckFindsRoom
<1>6. CASE PressureBuild \/ FlushBuild \/ Finalize
  <2>1. pc' # "launch3" /\ s3phase' = "idle" /\ UNCHANGED <<fatal, admission>>
    BY <1>0, <1>6 DEF PressureBuild, FlushBuild, Finalize, Stream3Known, Stream3Parked, s3Vars
  <2> QED
    BY <2>1, NoJobKeepsRoom
<1>7. CASE PressureEnd
  <2>1. s3phase = "idle" /\ ~fatal /\ UNCHANGED <<s3phase, fatal, clean, dirty, processing, s3batch>>
    BY <1>0, <1>7 DEF PressureEnd, Stream3Known, Stream3Parked, FatalInFlight, s3Vars, bankVars
  <2>2. CASE pc' = "update2" /\ UNCHANGED admission
    BY <1>1, <2>1, <2>2
  <2>3. CASE admission' = "bypassed"
    BY <2>1, <2>3 DEF RoomInv, RoomStays, SharesModest
  <2> QED
    BY <1>7, <2>2, <2>3 DEF PressureEnd
<1>8. CASE LaunchStream3
  <2>1. UNCHANGED <<clean, dirty, processing, admission, fatal>>
    BY <1>8 DEF LaunchStream3, bankVars
  <2>2. HasRoom => HasRoom'
    BY <1>0, <2>1, RoomKept
  <2> QED
    BY <1>8, <2>1, <2>2 DEF LaunchStream3, RoomInv, RoomStays, SharesModest
<1>9. CASE StartDepth
  BY <1>0, <1>9, NoJobKeepsRoom DEF StartDepth, Stream3Known, Stream3Parked
<1>10. ASSUME UNCHANGED <<clean, dirty, processing, admission>>, pc' # "launch3",
              UNCHANGED s3Vars \/ CompleteStream3
       PROVE  RoomInv'
  <2>1. CASE UNCHANGED s3Vars
    BY <1>1, <1>10, <2>1 DEF s3Vars
  <2>2. CASE CompleteStream3
    BY <1>10, <2>2, NoJobKeepsRoom DEF CompleteStream3
  <2> QED
    BY <1>10, <2>1, <2>2
<1>11. CASE ReapStream3
  BY <1>10, <1>11 DEF ReapStream3, FinishStream3
<1>12. CASE EndPass
  BY <1>10, <1>12 DEF EndPass, WaitStream3, WaitOldestRing, WaitStream4Slot, GiveUp,
     FinishStream3, ReleaseSlots, bankVars
<1>13. CASE Stream3Pack
  BY <1>13, PackKeepsRoom
<1>14. CASE Stream3Prepare
  BY <1>0, <1>14, PrepareKeepsRoom
<1>15. CASE Stream3Scatter \/ Stream3BuildReady
  <2>1. /\ pc' # "launch3" /\ s3phase' \in {"scattered", "done"}
        /\ UNCHANGED <<fatal, admission>>
    BY <1>0, <1>15 DEF Stream3Scatter, Stream3BuildReady, Stream3Known, Stream3Parked, hostVars
  <2> QED
    BY <2>1, NoJobKeepsRoom
<1>16. ASSUME NEW s \in Slot, Stream4(s) PROVE RoomInv'
  <2>0. UNCHANGED <<admission, pc, s3phase, s3batch, fatal>>
    BY <1>16 DEF Stream4, Stream4Sort, Stream4Publish, Stream4Signal, hostVars, s3Vars
  <2>1. CASE Stream4Sort(s)
    <3>1. \A p \in Bank : Used(p)' <= Used(p) /\ Used(p)' \in Nat
      BY <1>0, <2>1, SortUses
    <3>2. processing' = processing
      BY <2>1 DEF Stream4Sort
    <3> QED
      BY <1>0, <2>0, <3>1, <3>2, KeepRoom
  <2>2. CASE Stream4Publish(s)
    <3>1. \A p \in Bank : processing'[p] => processing[p]
      BY <1>0, <2>2 DEF Stream4Publish, BanksOK
    <3>2. \A p \in Bank : Used(p)' <= Used(p) /\ Used(p)' \in Nat
      BY <1>0, <2>2, KeepRows DEF Stream4Publish
    <3> QED
      BY <1>0, <2>0, <3>1, <3>2, KeepRoom
  <2>3. CASE Stream4Signal(s)
    BY <1>1, <2>0, <2>3 DEF Stream4Signal, bankVars
  <2> QED
    BY <1>16, <2>1, <2>2, <2>3 DEF Stream4
<1>17. CASE FinishRing \/ UNCHANGED vars
  BY <1>1, <1>17 DEF FinishRing, vars, hostVars, s3Vars, bankVars
<1> QED
  BY <1>2, <1>3, <1>4, <1>5, <1>6, <1>7, <1>8, <1>9, <1>11, <1>12, <1>13, <1>14, <1>15,
     <1>16, <1>17 DEF Next, Host, MainLoop, Stream3, Ended

\* A batch that brings no shard more than the write reserve is never turned into a
\* fatal overflow by stream3_prepare_partition_counts when stream3_has_writable_buffer
\* let it through on counters of one moment, whatever Stream 4 sorts in between.
THEOREM CheckedHolds == Spec => []CheckedNeverOverflows
<1> DEFINE J == NoShardFlooded => RoomInv
<1>1. Init => QuietInv /\ FlightInv /\ J
  BY DEF Init, QuietInv, RingsReturned, FlightInv, ReadsOneRing, FatalInFlight, RingsIn,
     RoomInv, RoomStays, SharesModest
<1>2. SafeInv /\ FlightInv /\ J /\ [Next]_vars => J'
  <2>1. NoShardFlooded' => NoShardFlooded
    BY DEF NoShardFlooded, InShard, WriteReserve, AverageWrite, CeilDiv, Smaller
  <2> QED
    BY <2>1, RoomStep
<1>3. J => CheckedNeverOverflows
  BY DEF CheckedNeverOverflows, NoShardFlooded, RoomInv
<1> QED
  BY <1>1, <1>2, <1>3, QuietStep, FlightStep, SafeInvHolds, PTL DEF Spec
-----------------------------------------------------------------------------
(* What is held, and where.                                                *)

\* The rows held are candidates of this depth, in a bank of their shard.
RowsPlaced ==
    /\ s3batch \subseteq offered
    /\ \A p \in Bank :
         /\ clean[p] \subseteq InShard(offered, p[1])
         /\ dirty[p] \subseteq InShard(offered, p[1])
         /\ hist[p] \subseteq InShard(offered, p[1])

\* Clean rows, and the rows a histogram counts, are of distinct states.
RowsReduced == \A p \in Bank : OnePerState(clean[p]) /\ OnePerState(hist[p])

BatchInFlight == s3phase \notin {"packed", "prepared"} => s3batch = {}

RowsInv == RowsPlaced /\ RowsReduced /\ BatchInFlight /\ (pc = "done" => offered = {})

rowVars == <<clean, dirty, hist, s3batch, offered>>
-----------------------------------------------------------------------------
(* Where the rows are.                                                     *)

LEMMA KeepRowsInv ==
    ASSUME RowsInv, UNCHANGED rowVars,
           s3phase' = s3phase \/ s3batch = {},
           pc' = "done" => pc = "done"
    PROVE  RowsInv'
<1>1. UNCHANGED <<clean, dirty, hist, s3batch, offered>>
  BY DEF rowVars
<1>2. RowsPlaced' /\ RowsReduced'
  BY <1>1 DEF RowsInv, RowsPlaced, RowsReduced, OnePerState, InShard
<1> QED
  BY <1>1, <1>2 DEF RowsInv, BatchInFlight

LEMMA PackRows ==
    ASSUME SafeInv, RowsInv, Stream3Pack
    PROVE  RowsInv'
<1> DEFINE batch == UNION {Load(r) : r \in RingsIn("stream3")}
<1>1. /\ s3phase' = "packed" /\ s3batch' = BestPerState(AtMost(batch, threshold))
      /\ offered' = offered \cup batch /\ UNCHANGED <<clean, dirty, hist, pc>>
      /\ pc # "done"
  BY DEF Stream3Pack, hostVars, bankVars, SafeInv, Positioned, Stream3Known, Stream3Parked
<1>2. s3batch' \subseteq offered'
  BY <1>1 DEF BestPerState, AtMost
<1>3. offered \subseteq offered'
  BY <1>1
<1> HIDE DEF batch
<1>4. RowsPlaced'
  BY <1>1, <1>2, <1>3 DEF RowsInv, RowsPlaced, InShard
<1> QED
  BY <1>1, <1>4 DEF RowsInv, RowsReduced, BatchInFlight, OnePerState

LEMMA ScatterRows ==
    ASSUME RowsInv, Stream3Scatter
    PROVE  RowsInv'
<1>1. /\ s3batch' = {} /\ UNCHANGED <<clean, hist, offered, pc>>
      /\ \A p \in Bank : dirty'[p] \subseteq dirty[p] \cup InShard(s3batch, p[1])
  BY DEF Stream3Scatter, AppendUnlessFatal, Appended, hostVars
<1>2. \A l : InShard(s3batch, l) \subseteq InShard(offered, l)
  BY DEF InShard, RowsInv, RowsPlaced
<1>3. RowsPlaced'
  <2> SUFFICES ASSUME NEW p \in Bank
               PROVE  /\ clean'[p] \subseteq InShard(offered, p[1])
                      /\ dirty'[p] \subseteq InShard(offered, p[1])
                      /\ hist'[p] \subseteq InShard(offered, p[1])
    BY <1>1 DEF RowsPlaced, InShard
  <2> QED
    BY <1>1, <1>2 DEF RowsInv, RowsPlaced
<1> QED
  BY <1>1, <1>3 DEF RowsInv, RowsReduced, BatchInFlight, OnePerState

LEMMA SortedRows ==
    ASSUME BanksOK, NEW p \in Bank
    PROVE  /\ Sorted(p) \subseteq clean[p] \cup dirty[p]
           /\ Sorted(p) \in SUBSET Cand /\ OnePerState(Sorted(p))
<1>1. AtMost(clean[p] \cup dirty[p], threshold) \in SUBSET Cand
  BY DEF BanksOK, AtMost
<1> QED
  BY <1>1, BestIsUnique DEF Sorted, BestPerState, AtMost

LEMMA SortRows ==
    ASSUME BanksOK, SlotsOK, Holders, RowsInv, NEW s \in Slot, Stream4Sort(s)
    PROVE  RowsInv'
<1>1. PICK p \in Bank : p = slotBank[s]
  BY DEF Stream4Sort, SlotsOK, Holders, SlotsAgree
<1>2. \A q \in Bank : /\ clean'[q] = IF q = p THEN Sorted(p) ELSE clean[q]
                      /\ dirty'[q] = IF q = p THEN {} ELSE dirty[q]
  BY <1>1 DEF Stream4Sort, BanksOK
<1>3. UNCHANGED <<hist, s3batch, offered, s3phase, pc>>
  BY DEF Stream4Sort, hostVars, s3Vars
<1>4. Sorted(p) \subseteq InShard(offered, p[1]) /\ OnePerState(Sorted(p))
  BY SortedRows DEF RowsInv, RowsPlaced
<1>5. RowsPlaced'
  <2> SUFFICES ASSUME NEW q \in Bank
               PROVE  /\ clean'[q] \subseteq InShard(offered, q[1])
                      /\ dirty'[q] \subseteq InShard(offered, q[1])
                      /\ hist'[q] \subseteq InShard(offered, q[1])
    BY <1>3 DEF RowsPlaced, RowsInv, InShard
  <2> QED
    BY <1>2, <1>3, <1>4 DEF RowsInv, RowsPlaced
<1>6. RowsReduced'
  <2> SUFFICES ASSUME NEW q \in Bank
               PROVE  OnePerState(clean'[q]) /\ OnePerState(hist'[q])
    BY DEF RowsReduced, OnePerState
  <2> QED
    BY <1>2, <1>3, <1>4 DEF RowsInv, RowsReduced
<1> QED
  BY <1>3, <1>5, <1>6 DEF RowsInv, BatchInFlight

LEMMA PublishRows ==
    ASSUME BanksOK, SlotsOK, Holders, RowsInv, NEW s \in Slot, Stream4Publish(s)
    PROVE  RowsInv'
<1>1. PICK p \in Bank : p = slotBank[s]
  BY DEF Stream4Publish, SlotsOK, Holders, SlotsAgree
<1>2. \A q \in Bank : hist'[q] = IF q = p THEN clean[q] ELSE hist[q]
  BY <1>1 DEF Stream4Publish, BanksOK
<1>3. UNCHANGED <<clean, dirty, s3batch, offered, s3phase, pc>>
  BY DEF Stream4Publish, hostVars, s3Vars
<1>4. RowsPlaced'
  <2> SUFFICES ASSUME NEW q \in Bank
               PROVE  /\ clean'[q] \subseteq InShard(offered, q[1])
                      /\ dirty'[q] \subseteq InShard(offered, q[1])
                      /\ hist'[q] \subseteq InShard(offered, q[1])
    BY <1>3 DEF RowsPlaced, RowsInv, InShard
  <2> QED
    BY <1>2, <1>3 DEF RowsInv, RowsPlaced
<1>5. RowsReduced'
  <2> SUFFICES ASSUME NEW q \in Bank
               PROVE  OnePerState(clean'[q]) /\ OnePerState(hist'[q])
    BY DEF RowsReduced, OnePerState
  <2> QED
    BY <1>2, <1>3 DEF RowsInv, RowsReduced
<1> QED
  BY <1>3, <1>4, <1>5 DEF RowsInv, BatchInFlight

LEMMA EmptyRows ==
    ASSUME s3batch' = {}, offered' = {},
           \A p \in Bank : clean'[p] = {} /\ dirty'[p] = {} /\ hist'[p] = {}
    PROVE  RowsInv'
  BY DEF RowsInv, RowsPlaced, RowsReduced, BatchInFlight, OnePerState, InShard

\* The steps that leave every row where it is.
QuietSteps ==
    \/ LoopTest \/ ReapStream4 \/ ReapRings \/ CheckStop \/ UpdateBefore \/ UpdateAfter
    \/ LaunchRelease \/ LaunchPending \/ FillRings \/ CopyCleanCounts \/ CopyDirtyCounts
    \/ CopyProcessingFlags \/ PressureBuild \/ PressureAppend \/ PressureEnd
    \/ Drain \/ FlushBuild \/ FlushAppend \/ FlushUpdate \/ FlushTest
    \/ FinishRing \/ \E s \in Slot : Stream4Signal(s)

LEMMA QuietStepsKeep ==
    ASSUME SafeInv, QuietSteps
    PROVE  /\ UNCHANGED <<clean, dirty, hist, s3batch, offered, s3phase, fatal, threshold,
                          initialized, beam, depth>>
           /\ pc' = "done" <=> pc = "done"
<1>0. ReturnsRight
  BY DEF SafeInv, TypeInv
<1>1. CASE LoopTest \/ ReapStream4 \/ ReapRings \/ CheckStop \/ UpdateBefore \/ UpdateAfter
  BY <1>1 DEF LoopTest, ReapStream4, ReapRings, CheckStop, UpdateBefore, UpdateAfter,
     MaybeUpdate, ReleaseSlots, s3Vars, bankVars, thresholdVars
<1>2. CASE LaunchRelease \/ LaunchPending \/ FillRings \/ Drain
  BY <1>0, <1>2 DEF LaunchRelease, LaunchPending, FillRings, Drain, ReleaseSlots,
     ReturnsRight, s3Vars, bankVars, thresholdVars
<1>3. CASE CopyCleanCounts \/ CopyDirtyCounts \/ CopyProcessingFlags \/ PressureEnd
  BY <1>3 DEF CopyCleanCounts, CopyDirtyCounts, CopyProcessingFlags, PressureEnd, s3Vars,
     bankVars, thresholdVars
<1>4. CASE PressureBuild \/ PressureAppend \/ FlushBuild \/ FlushAppend
  BY <1>4 DEF PressureBuild, PressureAppend, FlushBuild, FlushAppend, s3Vars, thresholdVars
<1>5. CASE FlushUpdate \/ FlushTest \/ FinishRing
  BY <1>5 DEF FlushUpdate, FlushTest, FinishRing, hostVars, s3Vars, bankVars, thresholdVars
<1>6. CASE \E s \in Slot : Stream4Signal(s)
  BY <1>6 DEF Stream4Signal, hostVars, s3Vars, bankVars, thresholdVars
<1> QED
  BY <1>1, <1>2, <1>3, <1>4, <1>5, <1>6 DEF QuietSteps

\* The steps that only move Stream 3 along, or leave it where it is.
Stream3Moves == ReapStream3 \/ EndPass \/ LaunchStream3 \/ Stream3BuildReady

LEMMA Stream3MovesKeep ==
    ASSUME Stream3Moves, SafeInv
    PROVE  /\ UNCHANGED <<clean, dirty, hist, s3batch, offered, fatal, threshold,
                          initialized, beam, depth>>
           /\ \/ s3phase' = s3phase
              \/ s3phase \in {"idle", "scattered", "done"} /\ s3phase' \in {"idle", "launched", "done"}
           /\ pc' = "done" <=> pc = "done"
<1>1. CASE ReapStream3
  BY <1>1 DEF ReapStream3, FinishStream3, CompleteStream3, s3Vars, bankVars, thresholdVars
<1>2. CASE EndPass
  BY <1>2 DEF EndPass, WaitStream3, WaitOldestRing, WaitStream4Slot, GiveUp, FinishStream3,
     CompleteStream3, ReleaseSlots, s3Vars, bankVars, thresholdVars
<1>3. CASE LaunchStream3
  BY <1>3 DEF LaunchStream3, s3Vars, bankVars, thresholdVars, SafeInv, Positioned,
     Stream3Known, Stream3Parked
<1>4. CASE Stream3BuildReady
  BY <1>4 DEF Stream3BuildReady, hostVars, thresholdVars
<1> QED
  BY <1>1, <1>2, <1>3, <1>4 DEF Stream3Moves

LEMMA UpdateKeeps ==
    ASSUME UpdateThreshold, SafeInv
    PROVE  /\ UNCHANGED <<clean, dirty, hist, s3batch, offered, s3phase, fatal, beam, depth>>
           /\ pc' \notin {"done", "stopped", "failed", "error"} /\ pc = "apply"
<1>1. ~Stream3Active /\ returnTo \in {"update1", "update2", "boundary", "flushed"}
  BY DEF UpdateThreshold, SafeInv, TypeInv, ReturnsRight, Positioned, Stream3Known,
     Stream3Parked, Stream3Active
<1> QED
  BY <1>1 DEF UpdateThreshold, s3Vars, bankVars

\* Every step is one of these.
LEMMA StepKinds ==
    ASSUME [Next]_vars
    PROVE  \/ QuietSteps \/ Stream3Moves
           \/ UpdateThreshold \/ Finalize \/ StartDepth
           \/ Stream3Pack \/ Stream3Prepare \/ Stream3Scatter
           \/ \E s \in Slot : Stream4Sort(s) \/ Stream4Publish(s)
           \/ UNCHANGED vars
  BY DEF Next, Host, MainLoop, Stream3, Stream4, Ended, QuietSteps, Stream3Moves

LEMMA RowsStep == SafeInv /\ RowsInv /\ [Next]_vars => RowsInv'
<1> SUFFICES ASSUME SafeInv, RowsInv, [Next]_vars PROVE RowsInv'
  OBVIOUS
<1>0. BanksOK /\ SlotsOK /\ Holders /\ Stream3Known
  BY DEF SafeInv, TypeInv, Positioned
<1>1. CASE QuietSteps
  BY <1>1, QuietStepsKeep, KeepRowsInv DEF rowVars
<1>2. CASE Stream3Moves
  <2>1. /\ UNCHANGED <<clean, dirty, hist, s3batch, offered>> /\ (pc' = "done" => pc = "done")
        /\ s3phase' = s3phase \/ s3phase \notin {"packed", "prepared"}
    BY <1>2, Stream3MovesKeep
  <2>2. s3phase' = s3phase \/ s3batch = {}
    BY <2>1 DEF RowsInv, BatchInFlight
  <2> QED
    BY <2>1, <2>2, KeepRowsInv DEF rowVars
<1>3. CASE UpdateThreshold
  BY <1>3, UpdateKeeps, KeepRowsInv DEF rowVars
<1>4. CASE Finalize \/ StartDepth
  <2>1. s3batch' = {} /\ offered' = {}
    BY <1>0, <1>4 DEF Finalize, StartDepth, Stream3Known, Stream3Parked, RowsInv, BatchInFlight
  <2>2. ASSUME NEW p \in Bank PROVE clean'[p] = {} /\ dirty'[p] = {} /\ hist'[p] = {}
    <3>1. CASE Finalize
      BY <3>1 DEF Finalize
    <3>2. CASE StartDepth
      <4>1. offered = {} /\ UNCHANGED <<clean, dirty, hist>>
        BY <3>2 DEF StartDepth, RowsInv, bankVars
      <4> QED
        BY <4>1 DEF RowsInv, RowsPlaced, InShard
    <3> QED
      BY <1>4, <3>1, <3>2
  <2> QED
    BY <2>1, <2>2, EmptyRows
<1>5. CASE Stream3Pack
  BY <1>5, PackRows
<1>6. CASE Stream3Prepare
  <2>1. UNCHANGED <<clean, dirty, hist, s3batch, offered, pc>> /\ s3phase' = "prepared"
    BY <1>6 DEF Stream3Prepare, hostVars
  <2>2. RowsPlaced' /\ RowsReduced'
    BY <2>1 DEF RowsInv, RowsPlaced, RowsReduced, OnePerState, InShard
  <2> QED
    BY <2>1, <2>2 DEF RowsInv, BatchInFlight
<1>7. CASE Stream3Scatter
  BY <1>7, ScatterRows
<1>8. ASSUME NEW s \in Slot, Stream4Sort(s) \/ Stream4Publish(s) PROVE RowsInv'
  BY <1>0, <1>8, SortRows, PublishRows
<1>9. CASE UNCHANGED vars
  BY <1>9, KeepRowsInv DEF vars, hostVars, rowVars, s3Vars, bankVars
<1> QED
  BY <1>1, <1>2, <1>3, <1>4, <1>5, <1>6, <1>7, <1>8, <1>9, StepKinds

LEMMA RowsInit == Init => RowsInv
<1> SUFFICES ASSUME Init PROVE RowsInv
  OBVIOUS
<1>1. s3batch = {} /\ \A p \in Bank : clean[p] = {} /\ dirty[p] = {} /\ hist[p] = {}
  BY DEF Init
<1>2. pc = "fill"
  BY DEF Init
<1> QED
  BY <1>1, <1>2 DEF RowsInv, RowsPlaced, RowsReduced, BatchInFlight, OnePerState

LEMMA RowsHold == Spec => []RowsInv
  BY RowsInit, RowsStep, SafeInvHolds, PTL DEF Spec
-----------------------------------------------------------------------------
(* Nothing better than the threshold is lost.                              *)

LEMMA ThresholdIsNat == ThresholdOK => threshold \in Nat
  BY ScoresBounded, CandAssumption DEF ThresholdOK

LEMMA HeldRows == \A h : h \in Held <=>
    h \in s3batch \/ \E p \in Bank : h \in clean[p] \/ h \in dirty[p]
  BY DEF Held

LEMMA HeldAreRows == BanksOK /\ Stream3OK => Held \in SUBSET Cand
  BY DEF BanksOK, Stream3OK, Held

\* A step that neither takes nor drops rows, nor loosens the threshold.
LEMMA KeepLost ==
    ASSUME Stream3OK, ThresholdOK, ThresholdOK', NothingLost,
           UNCHANGED offered, fatal => fatal',
           threshold' <= threshold,
           Held \subseteq Held'
    PROVE  NothingLost'
<1> SUFFICES ASSUME ~fatal', NEW c \in offered
             PROVE  (Score[c] > threshold \/ \E h \in Held : StateOf[h] = StateOf[c] /\ Better(h, c))'
  BY DEF NothingLost
<1>1. Score[c] \in Nat /\ threshold \in Nat /\ threshold' \in Nat
  BY ThresholdIsNat, CandAssumption DEF Stream3OK, ThresholdOK, Scores
<1>2. CASE Score[c] > threshold
  BY <1>1, <1>2
<1>3. CASE \E h \in Held : StateOf[h] = StateOf[c] /\ Better(h, c)
  <2>1. PICK h \in Held : StateOf[h] = StateOf[c] /\ Better(h, c)
    BY <1>3
  <2>2. h \in Held' /\ (StateOf[h] = StateOf[c] /\ Better(h, c))'
    BY <2>1 DEF Better
  <2> QED
    BY <2>2
<1> QED
  BY <1>2, <1>3 DEF NothingLost

LEMMA SameHeld ==
    ASSUME UNCHANGED <<clean, dirty, s3batch>>
    PROVE  Held \subseteq Held'
  BY DEF Held

LEMMA PackLosesNothing ==
    ASSUME SafeInv, RowsInv, NothingLost, Stream3Pack
    PROVE  NothingLost'
<1> DEFINE batch == UNION {Load(r) : r \in RingsIn("stream3")}
<1>0. /\ CountersOK /\ RingsOK /\ RingsLoaded /\ Stream3OK /\ ThresholdOK /\ BanksOK
      /\ Stream3OK' /\ BanksOK'
  BY TypeStep DEF SafeInv, TypeInv, Next, Stream3
<1>1. /\ s3batch' = BestPerState(AtMost(batch, threshold)) /\ s3batch = {}
      /\ offered' = offered \cup batch /\ UNCHANGED <<clean, dirty, fatal, threshold>>
  BY DEF Stream3Pack, hostVars, bankVars, thresholdVars, RowsInv, BatchInFlight
<1>2. batch \in SUBSET Cand
  BY <1>0, LoadIsCandidates
<1> HIDE DEF batch
<1>3. Held \subseteq Held' /\ s3batch' \subseteq Held'
  BY <1>1 DEF Held
<1> SUFFICES ASSUME ~fatal, NEW c \in offered \cup batch
             PROVE  Score[c] > threshold \/ \E h \in Held' : StateOf[h] = StateOf[c] /\ Better(h, c)
  BY <1>1 DEF NothingLost, Better
<1>4. CASE c \in offered
  BY <1>3, <1>4 DEF NothingLost
<1>5. CASE c \in batch /\ ~(Score[c] > threshold)
  <2>1. c \in AtMost(batch, threshold) /\ AtMost(batch, threshold) \in SUBSET Cand
    <3>1. Score[c] \in Nat /\ threshold \in Nat
      BY <1>0, <1>2, <1>5, ThresholdIsNat, CandAssumption
    <3> QED
      BY <1>2, <1>5, <3>1 DEF AtMost
  <2>2. PICK h \in s3batch' : StandsFor(h, c)
    BY <1>1, <2>1, BestExists
  <2> QED
    BY <1>3, <2>2 DEF StandsFor
<1> QED
  BY <1>4, <1>5

LEMMA ScatterLosesNothing ==
    ASSUME SafeInv, NothingLost, Stream3Scatter
    PROVE  NothingLost'
<1>0. BanksOK /\ Stream3OK /\ ThresholdOK
  BY DEF SafeInv, TypeInv
<1>1. UNCHANGED <<clean, offered, fatal, threshold>>
  BY DEF Stream3Scatter, thresholdVars
<1>2. CASE fatal
  BY <1>1, <1>2 DEF NothingLost
<1>3. CASE ~fatal
  <2>1. dirty' = [p \in Bank |-> Appended(p)]
    BY <1>3 DEF Stream3Scatter, AppendUnlessFatal
  <2>2. ASSUME NEW h \in Held PROVE h \in Held'
    <3>1. CASE h \in s3batch
      <4> DEFINE l == ShardOf[StateOf[h]]
                 p == <<l, writeIdx[l]>>
      <4>1. l \in Shard /\ writeIdx[l] \in {0, 1}
        BY <1>0, <3>1, ShardAssumption DEF Stream3OK, BanksOK
      <4>2. p \in Bank /\ h \in InShard(s3batch, p[1])
        BY <3>1, <4>1 DEF InShard, Bank
      <4>3. h \in Appended(p)
        BY <4>2 DEF Appended
      <4> HIDE DEF p
      <4>4. h \in dirty'[p] /\ p \in Bank
        BY <2>1, <4>2, <4>3
      <4> QED
        BY <4>4 DEF Held
    <3>2. ASSUME NEW p \in Bank, h \in clean[p] \/ h \in dirty[p] PROVE h \in Held'
      <4>1. dirty[p] \subseteq dirty'[p]
        BY <2>1 DEF Appended
      <4> QED
        BY <1>1, <3>2, <4>1 DEF Held
    <3> QED
      BY <3>1, <3>2, HeldRows
  <2>3. threshold' <= threshold /\ ThresholdOK'
    BY <1>0, <1>1, ThresholdIsNat, TypeStep DEF SafeInv, TypeInv, Next, Stream3
  <2> QED
    BY <1>0, <1>1, <2>2, <2>3, KeepLost
<1> QED
  BY <1>2, <1>3

\* A row a sort drops is above the threshold, or leaves a better one of its state.
LEMMA SortLosesNothing ==
    ASSUME SafeInv, NothingLost, NEW s \in Slot, Stream4Sort(s)
    PROVE  NothingLost'
<1>0. BanksOK /\ Stream3OK /\ ThresholdOK /\ SlotsOK /\ Holders
  BY DEF SafeInv, TypeInv
<1>1. PICK p \in Bank : p = slotBank[s]
  BY <1>0 DEF Stream4Sort, SlotsOK, Holders, SlotsAgree
<1>2. \A q \in Bank : /\ clean'[q] = IF q = p THEN Sorted(p) ELSE clean[q]
                      /\ dirty'[q] = IF q = p THEN {} ELSE dirty[q]
  BY <1>0, <1>1 DEF Stream4Sort, BanksOK
<1>3. UNCHANGED <<s3batch, offered, fatal, threshold>>
  BY DEF Stream4Sort, s3Vars, thresholdVars
<1>4. Sorted(p) \subseteq Held'
  BY <1>2 DEF Held
<1> SUFFICES ASSUME ~fatal, NEW c \in offered, ~(Score[c] > threshold)
             PROVE  \E h \in Held' : StateOf[h] = StateOf[c] /\ Better(h, c)
  BY <1>3 DEF NothingLost, Better
<1>5. PICK h \in Held : StandsFor(h, c)
  BY DEF NothingLost, StandsFor
<1>6. c \in Cand /\ h \in Cand
  BY <1>0, <1>5, HeldAreRows DEF Stream3OK
<1>7. CASE h \in clean[p] \cup dirty[p]
  <2>1. h \in AtMost(clean[p] \cup dirty[p], threshold)
    <3>1. Score[h] <= Score[c]
      BY <1>5, <1>6, BetterOrder DEF StandsFor
    <3>2. Score[h] \in Nat /\ Score[c] \in Nat /\ threshold \in Nat
      BY <1>0, <1>6, CandAssumption, ThresholdIsNat
    <3>3. Score[h] <= threshold
      BY <3>1, <3>2
    <3> QED
      BY <1>7, <3>3 DEF AtMost
  <2>2. AtMost(clean[p] \cup dirty[p], threshold) \in SUBSET Cand
    BY <1>0 DEF BanksOK, AtMost
  <2>3. PICK g \in Sorted(p) : StandsFor(g, h)
    BY <2>1, <2>2, BestExists DEF Sorted
  <2>4. g \in Cand
    BY <1>0, <2>3, SortedRows
  <2>5. StandsFor(g, c)
    BY <1>5, <1>6, <2>3, <2>4, StandsInTurn
  <2> QED
    BY <1>4, <2>3, <2>5 DEF StandsFor
<1>8. CASE h \notin clean[p] \cup dirty[p]
  <2>1. CASE h \in s3batch
    BY <1>3, <1>5, <2>1 DEF Held, StandsFor
  <2>2. ASSUME NEW q \in Bank, h \in clean[q] \/ h \in dirty[q] PROVE h \in Held'
    <3>1. q # p
      BY <1>8, <2>2
    <3> QED
      BY <1>2, <2>2, <3>1 DEF Held
  <2> QED
    BY <1>5, <2>1, <2>2, HeldRows DEF StandsFor
<1> QED
  BY <1>7, <1>8
-----------------------------------------------------------------------------
(* The threshold never cuts below the beam width.                          *)

ThresholdKnown == initialized => threshold \in Scores

ResultInv == NothingLost /\ ThresholdSound /\ ThresholdKnown

\* The larger prefixes of the shards count no state twice, and only states this
\* depth has generated.
LEMMA CountIsModest ==
    ASSUME BanksOK, Stream3OK, RowsInv, NEW t \in Nat
    PROVE  ConservativeCount(t) <= Cardinality(States(AtMost(offered, t)))
<1> DEFINE U == UNION {LargerPrefix(l, t) : l \in Shard}
<1>1. ASSUME NEW l \in Shard
      PROVE  /\ LargerPrefix(l, t) \subseteq AtMost(InShard(offered, l), t)
             /\ OnePerState(LargerPrefix(l, t))
  <2>1. \A b \in {0, 1} : /\ Prefix(<<l, b>>, t) \subseteq AtMost(InShard(offered, l), t)
                           /\ OnePerState(Prefix(<<l, b>>, t))
    <3>1. \A p \in Bank : hist[p] \subseteq InShard(offered, p[1]) /\ OnePerState(hist[p])
      BY DEF RowsInv, RowsPlaced, RowsReduced
    <3>2. \A b \in {0, 1} : /\ hist[<<l, b>>] \subseteq InShard(offered, l)
                             /\ OnePerState(hist[<<l, b>>])
      BY <3>1 DEF Bank
    <3> QED
      BY <3>2 DEF Prefix, AtMost, OnePerState
  <2> QED
    BY <2>1 DEF LargerPrefix
<1>2. U \in SUBSET AtMost(offered, t)
  BY <1>1 DEF AtMost, InShard
<1>3. AtMost(offered, t) \in SUBSET Cand
  BY DEF Stream3OK, AtMost
<1>4. OnePerState(U)
  <2> SUFFICES ASSUME NEW c \in U, NEW d \in U, StateOf[c] = StateOf[d] PROVE c = d
    BY DEF OnePerState
  <2>1. PICK k \in Shard : c \in LargerPrefix(k, t)
    OBVIOUS
  <2>2. PICK l \in Shard : d \in LargerPrefix(l, t)
    OBVIOUS
  <2>3. ShardOf[StateOf[c]] = k /\ ShardOf[StateOf[d]] = l
    BY <1>1, <2>1, <2>2 DEF AtMost, InShard
  <2> HIDE DEF U
  <2> QED
    BY <1>1, <2>1, <2>2, <2>3 DEF OnePerState
<1>5. Cardinality(U) = ConservativeCount(t)
  BY DEF ConservativeCount
<1> HIDE DEF U
<1>6. U \in SUBSET Cand
  BY <1>2, <1>3
<1>7. Cardinality(States(U)) = Cardinality(U)
  BY <1>4, <1>6, StatesCount
<1>8. Cardinality(States(U)) <= Cardinality(States(AtMost(offered, t)))
  BY <1>2, <1>3, StatesGrow
<1> QED
  BY <1>5, <1>7, <1>8

LEMMA UpdateStaysSound ==
    ASSUME SafeInv, RowsInv, ResultInv, UpdateThreshold
    PROVE  ThresholdSound' /\ ThresholdKnown' /\ threshold' <= threshold
<1>0. BanksOK /\ Stream3OK /\ ThresholdOK /\ ~Stream3Active
  BY DEF SafeInv, TypeInv, UpdateThreshold, Positioned, Stream3Known, Stream3Parked,
     Stream3Active
<1>1. offered' = offered
  BY DEF UpdateThreshold, s3Vars
<1>2. CASE ConservativeCount(NoThreshold) >= BeamWidth
  <2>1. threshold' = Tightened /\ initialized' = TRUE
    BY <1>0, <1>2 DEF UpdateThreshold
  <2>2. Cutoff \in Scores /\ ConservativeCount(Cutoff) >= BeamWidth
    BY <1>0, <1>2, CutoffIsScore
  <2>3. CASE ~initialized \/ Cutoff < threshold
    <3>1. threshold' = Cutoff
      BY <2>1, <2>3 DEF Tightened
    <3>2. Cutoff \in Nat /\ threshold \in Nat /\ Cutoff < NoThreshold /\ NoThreshold \in Nat
      BY <1>0, <2>2, ScoresBounded, ThresholdIsNat, CandAssumption
    <3>3. ConservativeCount(Cutoff) <= Cardinality(States(AtMost(offered, Cutoff)))
      BY <1>0, <3>2, CountIsModest
    <3>4. /\ ConservativeCount(Cutoff) \in Nat
          /\ Cardinality(States(AtMost(offered, Cutoff))) \in Nat
      <4>1. AtMost(offered, Cutoff) \in SUBSET Cand
        BY <1>0 DEF AtMost, Stream3OK
      <4>2. UNION {LargerPrefix(l, Cutoff) : l \in Shard} \in SUBSET Cand
        <5>1. \A l \in Shard, b \in {0, 1} : Prefix(<<l, b>>, Cutoff) \subseteq Cand
          BY <1>0 DEF BanksOK, Bank, Prefix, AtMost
        <5> QED
          BY <5>1 DEF LargerPrefix
      <4> QED
        BY <4>1, <4>2, StatesFinite, RowsFinite DEF ConservativeCount
    <3>5. Cardinality(States(AtMost(offered, Cutoff))) >= BeamWidth
      BY <2>2, <3>3, <3>4, WidthAssumption
    <3>6. threshold' <= threshold
      BY <2>3, <3>1, <3>2 DEF ResultInv, ThresholdSound
    <3>7. ThresholdSound'
      BY <1>1, <2>1, <3>1, <3>5 DEF ThresholdSound, AtMost, States
    <3> QED
      BY <2>2, <3>1, <3>6, <3>7 DEF ThresholdKnown
  <2>4. CASE initialized /\ ~(Cutoff < threshold)
    <3>1. threshold' = threshold
      BY <2>1, <2>4 DEF Tightened
    <3> QED
      BY <1>0, <1>1, <2>1, <2>4, <3>1, ThresholdIsNat
      DEF ResultInv, ThresholdSound, ThresholdKnown, AtMost, States
  <2> QED
    BY <2>3, <2>4
<1>3. CASE ~(ConservativeCount(NoThreshold) >= BeamWidth)
  <2>1. UNCHANGED <<threshold, initialized>>
    BY <1>0, <1>3 DEF UpdateThreshold, thresholdVars
  <2> QED
    BY <1>0, <1>1, <2>1, ThresholdIsNat DEF ResultInv, ThresholdSound, ThresholdKnown,
       AtMost, States
<1> QED
  BY <1>2, <1>3

\* A step that leaves the threshold and takes no candidate away.
LEMMA KeepSound ==
    ASSUME Stream3OK, Stream3OK', ResultInv, offered \subseteq offered',
           UNCHANGED <<threshold, initialized>>
    PROVE  ThresholdSound' /\ ThresholdKnown'
<1>1. /\ AtMost(offered', threshold) \in SUBSET Cand
      /\ AtMost(offered, threshold) \in SUBSET AtMost(offered', threshold)
  BY DEF Stream3OK, AtMost
<1>2. AtMost(offered, threshold) \in SUBSET Cand
  BY <1>1
<1>3. /\ Cardinality(States(AtMost(offered, threshold)))
           <= Cardinality(States(AtMost(offered', threshold)))
      /\ Cardinality(States(AtMost(offered, threshold))) \in Nat
      /\ Cardinality(States(AtMost(offered', threshold))) \in Nat
  BY <1>1, <1>2, StatesGrow, StatesFinite
<1>4. initialized => Cardinality(States(AtMost(offered', threshold))) >= BeamWidth
  BY <1>3, WidthAssumption DEF ResultInv, ThresholdSound
<1> QED
  BY <1>4 DEF ResultInv, ThresholdSound, ThresholdKnown, AtMost, States

LEMMA ResultStep == SafeInv /\ RowsInv /\ ResultInv /\ [Next]_vars => ResultInv'
<1> SUFFICES ASSUME SafeInv, RowsInv, ResultInv, [Next]_vars PROVE ResultInv'
  OBVIOUS
<1>0. /\ BanksOK /\ Stream3OK /\ ThresholdOK /\ Stream3OK' /\ ThresholdOK' /\ NothingLost
      /\ threshold \in Nat
  BY TypeStep, ThresholdIsNat DEF SafeInv, TypeInv, ResultInv
<1>1. ASSUME UNCHANGED <<clean, dirty, s3batch, offered, threshold, initialized>>,
             fatal => fatal'
      PROVE  ResultInv'
  <2>1. Held \subseteq Held' /\ threshold' <= threshold /\ offered \subseteq offered'
    BY <1>0, <1>1, SameHeld
  <2> QED
    BY <1>0, <1>1, <2>1, KeepLost, KeepSound DEF ResultInv
<1>2. CASE QuietSteps
  BY <1>1, <1>2, QuietStepsKeep
<1>3. CASE Stream3Moves
  BY <1>1, <1>3, Stream3MovesKeep
<1>4. CASE UpdateThreshold
  <2>1. UNCHANGED <<clean, dirty, s3batch, offered, fatal>>
    BY <1>4, UpdateKeeps
  <2>2. Held \subseteq Held'
    BY <2>1, SameHeld
  <2>3. ThresholdSound' /\ ThresholdKnown' /\ threshold' <= threshold
    BY <1>4, UpdateStaysSound
  <2> QED
    BY <1>0, <2>1, <2>2, <2>3, KeepLost DEF ResultInv
<1>5. CASE Finalize
  BY <1>5 DEF Finalize, ThresholdReset, ResultInv, NothingLost, ThresholdSound, ThresholdKnown
<1>6. CASE StartDepth
  <2>1. offered' = {} /\ offered = {} /\ UNCHANGED <<threshold, initialized>>
    BY <1>6 DEF StartDepth, RowsInv, thresholdVars
  <2>2. ThresholdSound' /\ ThresholdKnown'
    BY <1>0, <2>1, KeepSound
  <2> QED
    BY <2>1, <2>2 DEF ResultInv, NothingLost
<1>7. CASE Stream3Pack
  <2>1. offered \subseteq offered' /\ UNCHANGED <<threshold, initialized>>
    BY <1>7 DEF Stream3Pack, thresholdVars
  <2> QED
    BY <1>0, <1>7, <2>1, PackLosesNothing, KeepSound DEF ResultInv
<1>8. CASE Stream3Prepare
  BY <1>1, <1>8 DEF Stream3Prepare, thresholdVars
<1>9. CASE Stream3Scatter
  <2>1. UNCHANGED <<offered, threshold, initialized>>
    BY <1>9 DEF Stream3Scatter, thresholdVars
  <2> QED
    BY <1>0, <1>9, <2>1, ScatterLosesNothing, KeepSound DEF ResultInv
<1>10. ASSUME NEW s \in Slot, Stream4Sort(s) \/ Stream4Publish(s) PROVE ResultInv'
  <2>1. CASE Stream4Sort(s)
    <3>1. UNCHANGED <<offered, threshold, initialized>>
      BY <2>1 DEF Stream4Sort, s3Vars, thresholdVars
    <3> QED
      BY <1>0, <2>1, <3>1, SortLosesNothing, KeepSound DEF ResultInv
  <2>2. CASE Stream4Publish(s)
    BY <1>1, <2>2 DEF Stream4Publish, s3Vars, thresholdVars
  <2> QED
    BY <1>10, <2>1, <2>2
<1>11. CASE UNCHANGED vars
  BY <1>1, <1>11 DEF vars, s3Vars, bankVars, thresholdVars
<1> QED
  BY <1>2, <1>3, <1>4, <1>5, <1>6, <1>7, <1>8, <1>9, <1>10, <1>11, StepKinds

LEMMA ResultHolds == Spec => []ResultInv
<1>1. Init => ResultInv
  BY DEF Init, ResultInv, NothingLost, ThresholdSound, ThresholdKnown
<1> QED
  BY <1>1, ResultStep, SafeInvHolds, RowsHold, PTL DEF Spec

\* Whatever Stream 3 took from a ring is still in its batch or in a bank, by itself
\* or by a candidate of the same state that is no worse, unless the threshold
\* excludes it: neither stream3_pack_threshold_device_threshold, the scatter nor a
\* Stream 4 sort that a threshold update overtakes drops the best of a state.
THEOREM NothingLostHolds == Spec => []NothingLost
<1>1. ResultInv => NothingLost
  BY DEF ResultInv
<1> QED
  BY <1>1, ResultHolds, PTL

\* threshold_conservative_union_kernel never lets threshold_update_periodic_kernel
\* publish a cutoff below which fewer distinct states than the beam width were
\* generated, although both banks of a shard may count the same state.
THEOREM ThresholdSoundHolds == Spec => []ThresholdSound
<1>1. ResultInv => ThresholdSound
  BY DEF ResultInv
<1> QED
  BY <1>1, ResultHolds, PTL
-----------------------------------------------------------------------------
(* Every load is taken before the loop is left.                            *)

\* A ring whose load Stream 3 has not packed yet.
InUse(r) == \/ ringState[r] \in {"stream1", "ready"}
            \/ ringState[r] = "stream3" /\ s3phase = "launched"

\* A load taken from the parents is in a ring until Stream 3 has packed it.
LoadsTaken ==
    ~stopRequested /\ pc # "done" => \A i \in 1..Loads : i < cursor =>
        \/ Batches[depth][i] \subseteq offered
        \/ \E r \in Ring : ringLoad[r] = i /\ InUse(r)

OfferedIsGenerated == offered \subseteq GeneratedIn[depth]

\* Past the main loop of run_depth_cuda_graphs.
LoopLeft ==
    \/ pc \in {"flush", "flushAppend", "flushed", "flushTest", "finalize"}
    \/ pc \in {"drain", "apply"} /\ returnTo \in {"boundary", "flushed"}

LoadsSpent == LoopLeft => cursor > Loads

FlushedClean == pc = "finalize" => ~AnyDirty

HaltsOnStop == pc = "halting" => stopRequested

LoadsInv == LoadsTaken /\ OfferedIsGenerated /\ LoadsSpent /\ FlushedClean /\ HaltsOnStop

positionVars == <<pc, returnTo, depth, cursor, stopRequested>>

LEMMA PositionsStep ==
    ASSUME SafeInv, LoadsInv, [Next]_vars
    PROVE  LoadsSpent' /\ FlushedClean' /\ HaltsOnStop'
<1>0. ReturnsRight /\ Stream3Known /\ DrainedPositions /\ SlotsOK
  BY DEF SafeInv, TypeInv, Positioned
<1>1. ASSUME UNCHANGED <<cursor, depth>>, ~LoopLeft', pc' \notin {"finalize", "halting"}
      PROVE  LoadsSpent' /\ FlushedClean' /\ HaltsOnStop'
  BY <1>1 DEF LoadsSpent, FlushedClean, HaltsOnStop, LoopLeft
<1>2. ASSUME UNCHANGED <<cursor, depth, stopRequested>>, LoopLeft, pc' \notin {"finalize", "halting"}
      PROVE  LoadsSpent' /\ FlushedClean' /\ HaltsOnStop'
  BY <1>2 DEF LoadsInv, LoadsSpent, FlushedClean, HaltsOnStop, Loads
<1>3. ASSUME UNCHANGED positionVars, dirty' = dirty \/ pc # "finalize"
      PROVE  LoadsSpent' /\ FlushedClean' /\ HaltsOnStop'
  BY <1>3 DEF LoadsInv, LoadsSpent, FlushedClean, HaltsOnStop, Loads, LoopLeft, positionVars,
     AnyDirty
<1>4. CASE LoopTest
  <2>1. /\ pc' \notin {"finalize", "halting"} /\ UNCHANGED <<cursor, depth>>
        /\ pc' \in {"reap", "stopped", "drain"}
    BY <1>4 DEF LoopTest
  <2>2. pc' = "drain" => ~(cursor <= Loads)
    BY <1>4 DEF LoopTest, MoreToDo
  <2>3. cursor \in Nat /\ Loads \in Nat /\ Loads' = Loads
    <3>1. Batches[depth] \in Seq(SUBSET Cand) /\ cursor \in Nat
      BY BatchesAssumption DEF SafeInv, TypeInv, CountersOK
    <3> QED
      BY <2>1, <3>1 DEF Loads
  <2>4. pc' = "drain" => cursor > Loads
    BY <2>2, <2>3
  <2> QED
    BY <2>1, <2>3, <2>4 DEF LoadsSpent, FlushedClean, HaltsOnStop, LoopLeft
<1>5. CASE ReapStream4 \/ ReapRings \/ ReapStream3 \/ UpdateBefore \/ UpdateAfter
  BY <1>1, <1>5 DEF ReapStream4, ReapRings, ReapStream3, UpdateBefore, UpdateAfter,
     MaybeUpdate, ReleaseSlots, FinishStream3, LoopLeft
<1>6. CASE CheckStop
  BY <1>6 DEF CheckStop, Halts, LoadsSpent, FlushedClean, HaltsOnStop, LoopLeft
<1>7. CASE LaunchRelease \/ LaunchPending
  <2>1. UNCHANGED <<cursor, depth>> /\ ~LoopLeft' /\ pc' \notin {"finalize", "halting"}
    BY <1>0, <1>7 DEF LaunchRelease, LaunchPending, ReleaseSlots, ReturnsRight, LoopLeft
  <2> QED
    BY <1>1, <2>1
<1>8. CASE FillRings
  BY <1>8 DEF FillRings, LoadsSpent, FlushedClean, HaltsOnStop, LoopLeft
<1>9. CASE CopyCleanCounts \/ CopyDirtyCounts \/ CopyProcessingFlags \/ PressureBuild
           \/ PressureAppend \/ PressureEnd \/ LaunchStream3
  BY <1>1, <1>9 DEF CopyCleanCounts, CopyDirtyCounts, CopyProcessingFlags, PressureBuild,
     PressureAppend, PressureEnd, LaunchStream3, LoopLeft
<1>10. CASE EndPass
  BY <1>1, <1>10 DEF EndPass, WaitStream3, WaitOldestRing, WaitStream4Slot, GiveUp,
     FinishStream3, ReleaseSlots, LoopLeft
<1>11. CASE Drain
  <2>1. UNCHANGED <<cursor, depth, stopRequested, returnTo>> /\ pc = "drain"
        /\ pc' \in {"drain", "error", "flushed", "apply"}
        /\ (pc' = "flushed" => returnTo = "flushed")
    BY <1>11 DEF Drain, ReleaseSlots
  <2>2. CASE LoopLeft
    BY <1>2, <2>1, <2>2
  <2>3. CASE ~LoopLeft
    BY <1>1, <2>1, <2>3 DEF LoopLeft
  <2> QED
    BY <2>2, <2>3
<1>12. CASE UpdateThreshold
  <2>1. /\ UNCHANGED <<cursor, depth, stopRequested>> /\ pc = "apply"
        /\ returnTo \in {"update1", "update2", "boundary", "flushed"}
        /\ pc' \notin {"finalize", "halting", "drain", "apply"}
        /\ pc' \in {"flush", "flushAppend", "flushed", "flushTest"} =>
             returnTo \in {"boundary", "flushed"}
    BY <1>0, <1>12 DEF UpdateThreshold, ReturnsRight
  <2>2. CASE LoopLeft
    BY <1>2, <2>1, <2>2
  <2>3. CASE ~LoopLeft
    BY <1>1, <2>1, <2>3 DEF LoopLeft
  <2> QED
    BY <2>2, <2>3
<1>13. CASE FlushBuild \/ FlushAppend \/ FlushUpdate
  BY <1>2, <1>13 DEF FlushBuild, FlushAppend, FlushUpdate, LoopLeft
<1>14. CASE FlushTest
  BY <1>14 DEF FlushTest, LoadsInv, LoadsSpent, FlushedClean, HaltsOnStop, LoopLeft, Loads,
     AnyDirty, bankVars
<1>15. CASE Finalize
  BY <1>1, <1>15 DEF Finalize, LoopLeft
<1>16. CASE StartDepth
  BY <1>16 DEF StartDepth, LoadsSpent, FlushedClean, HaltsOnStop, LoopLeft
<1>17. CASE FinishRing \/ UNCHANGED vars
  BY <1>3, <1>17 DEF FinishRing, vars, hostVars, bankVars, positionVars
<1>18. CASE Stream3
  <2>1. pc # "finalize" /\ UNCHANGED positionVars
    BY <1>0, <1>18 DEF Stream3, Stream3Pack, Stream3Prepare, Stream3Scatter,
       Stream3BuildReady, hostVars, positionVars, Stream3Known, Stream3Parked
  <2> QED
    BY <1>3, <2>1
<1>19. ASSUME NEW s \in Slot, Stream4(s)
       PROVE  LoadsSpent' /\ FlushedClean' /\ HaltsOnStop'
  <2>1. UNCHANGED positionVars
    BY <1>19 DEF Stream4, Stream4Sort, Stream4Publish, Stream4Signal, hostVars, positionVars
  <2>2. CASE Stream4Sort(s)
    <3>1. pc # "finalize"
      BY <1>0, <2>2 DEF Stream4Sort, DrainedPositions, BusySlots, FreeSlots, SafeInv,
         Holders, SlotsAgree
    <3> QED
      BY <1>3, <2>1, <3>1
  <2>3. CASE Stream4Publish(s) \/ Stream4Signal(s)
    BY <1>3, <2>1, <2>3 DEF Stream4Publish, Stream4Signal, bankVars
  <2> QED
    BY <1>19, <2>2, <2>3 DEF Stream4
<1> QED
  BY <1>4, <1>5, <1>6, <1>7, <1>8, <1>9, <1>10, <1>11, <1>12, <1>13, <1>14, <1>15, <1>16,
     <1>17, <1>18, <1>19 DEF Next, Host, MainLoop, Ended

\* A step that forgets no load.
LEMMA KeepTaken ==
    ASSUME LoadsTaken, UNCHANGED <<cursor, depth, ringLoad>>, offered \subseteq offered',
           pc' # "done" => pc # "done",
           stopRequested => stopRequested',
           \A r \in Ring : InUse(r) => InUse(r)' \/ stopRequested' \/ Load(r) \subseteq offered'
    PROVE  LoadsTaken'
<1> SUFFICES ASSUME ~stopRequested', pc' # "done", NEW i \in 1..Loads, i < cursor
             PROVE  (\/ Batches[depth][i] \subseteq offered
                     \/ \E r \in Ring : ringLoad[r] = i /\ InUse(r))'
  BY DEF LoadsTaken, Loads
<1>1. CASE Batches[depth][i] \subseteq offered
  BY <1>1
<1>2. ASSUME NEW r \in Ring, ringLoad[r] = i, InUse(r)
      PROVE  Batches[depth][i] \subseteq offered' \/ InUse(r)'
  BY <1>2 DEF Load
<1> QED
  BY <1>1, <1>2 DEF LoadsTaken

LEMMA FillTakes ==
    ASSUME SafeInv, LoadsInv, FillRings
    PROVE  LoadsTaken'
<1>0. RingsOK /\ CountersOK
  BY DEF SafeInv, TypeInv
<1>1. /\ UNCHANGED <<depth, stopRequested, offered, s3phase>>
      /\ pc' # "done" /\ pc = "fill"
  BY DEF FillRings, s3Vars
<1>2. CASE UNCHANGED <<ringState, ringLoad, cursor>>
  <2>1. \A r \in Ring : InUse(r) => InUse(r)'
    BY <1>1, <1>2 DEF InUse
  <2> QED
    BY <1>1, <1>2, <2>1, KeepTaken DEF LoadsInv
<1>3. CASE ~stopRequested /\ RingsIn("free") # {} /\ cursor <= Loads
  <2> DEFINE free == RingsIn("free")
             first == CHOOSE x \in free : \A y \in free : x <= y
  <2>1. free \in SUBSET Ring /\ free # {}
    BY <1>3 DEF RingsIn
  <2>2. PICK r \in free : r = first
    <3>1. first \in free
      <4> HIDE DEF free
      <4> QED
        BY <2>1, FirstIsOne
    <3> QED
      BY <3>1
  <2>3. /\ ringState' = [ringState EXCEPT ![r] = "stream1"]
        /\ ringLoad' = [ringLoad EXCEPT ![r] = cursor]
        /\ cursor' = cursor + 1
    BY <1>3, <2>2 DEF FillRings
  <2>4. r \in Ring /\ ringState[r] = "free"
    BY <2>2 DEF RingsIn
  <2> HIDE DEF first, free
  <2>5. /\ ringLoad'[r] = cursor /\ InUse(r)'
        /\ \A q \in Ring : InUse(q) => InUse(q)' /\ ringLoad'[q] = ringLoad[q]
    <3>1. \A q \in Ring :
            /\ ringState'[q] = IF q = r THEN "stream1" ELSE ringState[q]
            /\ ringLoad'[q] = IF q = r THEN cursor ELSE ringLoad[q]
      BY <1>0, <2>3 DEF RingsOK
    <3>2. ringLoad'[r] = cursor /\ InUse(r)'
      BY <2>4, <3>1 DEF InUse
    <3>3. ASSUME NEW q \in Ring, InUse(q) PROVE InUse(q)' /\ ringLoad'[q] = ringLoad[q]
      <4>1. q # r
        BY <2>4, <3>3 DEF InUse
      <4> QED
        BY <1>1, <3>1, <3>3, <4>1 DEF InUse
    <3> QED
      BY <3>2, <3>3
  <2>6. ASSUME NEW i \in 1..Loads, i < cursor + 1
        PROVE  \/ Batches[depth][i] \subseteq offered
               \/ \E q \in Ring : ringLoad'[q] = i /\ InUse(q)'
    <3>1. CASE i = cursor
      BY <2>4, <2>5, <3>1
    <3>2. CASE i # cursor
      <4>1. i < cursor
        BY <1>0, <2>6, <3>2 DEF CountersOK
      <4> QED
        <5>1. ~stopRequested /\ pc # "done"
          BY <1>1, <1>3
        <5>2. \/ Batches[depth][i] \subseteq offered
              \/ \E q \in Ring : ringLoad[q] = i /\ InUse(q)
          BY <4>1, <5>1 DEF LoadsInv, LoadsTaken
        <5> QED
          BY <2>5, <5>2
    <3> QED
      BY <3>1, <3>2
  <2> QED
    BY <1>1, <2>3, <2>6 DEF LoadsTaken, Loads
<1> QED
  BY <1>2, <1>3 DEF FillRings

LEMMA PackTakes ==
    ASSUME SafeInv, LoadsInv, Stream3Pack
    PROVE  LoadsTaken' /\ OfferedIsGenerated'
<1> DEFINE batch == UNION {Load(r) : r \in RingsIn("stream3")}
<1>0. RingsOK /\ RingsLoaded /\ CountersOK
  BY DEF SafeInv, TypeInv
<1>1. /\ offered' = offered \cup batch
      /\ UNCHANGED <<depth, cursor, stopRequested, pc, ringState, ringLoad>>
  BY DEF Stream3Pack, hostVars, ringVars
<1>2. \A r \in Ring : InUse(r) => InUse(r)' \/ Load(r) \subseteq offered'
  BY <1>1 DEF InUse, RingsIn
<1>3. LoadsTaken'
  <2> HIDE DEF batch
  <2> QED
    BY <1>1, <1>2, KeepTaken DEF LoadsInv
<1>4. batch \subseteq GeneratedIn[depth]
  <2> SUFFICES ASSUME NEW r \in RingsIn("stream3")
               PROVE  Load(r) \subseteq GeneratedIn[depth]
    OBVIOUS
  <2>1. depth \in 1..Len(Batches) /\ ringLoad[r] \in 1..Len(Batches[depth])
    BY <1>0 DEF CountersOK, RingsLoaded, RingsIn, Loads
  <2> QED
    BY <2>1 DEF GeneratedIn, Load
<1> QED
  <2> HIDE DEF batch
  <2> QED
    BY <1>1, <1>3, <1>4 DEF OfferedIsGenerated, LoadsInv

LEMMA TakenStep ==
    ASSUME SafeInv, FlightInv, LoadsInv, [Next]_vars
    PROVE  LoadsTaken' /\ OfferedIsGenerated'
<1>0. RingsOK /\ Stream3Known /\ ReadyWhileAdmitting /\ CountersOK /\ StopPositions
  BY DEF SafeInv, TypeInv, Positioned
<1>1. ASSUME UNCHANGED <<cursor, depth, ringLoad, offered>>,
             pc' # "done" => pc # "done", stopRequested => stopRequested',
             \A r \in Ring : InUse(r) => InUse(r)' \/ stopRequested'
      PROVE  LoadsTaken' /\ OfferedIsGenerated'
  BY <1>1, KeepTaken DEF LoadsInv, OfferedIsGenerated
<1>2. ASSUME UNCHANGED <<cursor, depth, ringLoad, offered, ringState, s3phase>>,
             pc' # "done" => pc # "done", stopRequested => stopRequested'
      PROVE  LoadsTaken' /\ OfferedIsGenerated'
  BY <1>1, <1>2 DEF InUse
<1>3. CASE LoopTest \/ ReapStream4 \/ UpdateBefore \/ UpdateAfter \/ LaunchRelease
           \/ LaunchPending \/ Drain \/ UpdateThreshold
  BY <1>2, <1>3 DEF LoopTest, ReapStream4, UpdateBefore, UpdateAfter, MaybeUpdate,
     LaunchRelease, LaunchPending, Drain, UpdateThreshold, ringVars, s3Vars
<1>4. CASE CopyCleanCounts \/ CopyDirtyCounts \/ CopyProcessingFlags \/ PressureBuild
           \/ PressureAppend \/ PressureEnd
  BY <1>2, <1>4 DEF CopyCleanCounts, CopyDirtyCounts, CopyProcessingFlags, PressureBuild,
     PressureAppend, PressureEnd, ringVars, s3Vars
<1>5. CASE FlushBuild \/ FlushAppend \/ FlushUpdate \/ FlushTest \/ FinishRing
  BY <1>2, <1>5 DEF FlushBuild, FlushAppend, FlushUpdate, FlushTest, FinishRing, ringVars,
     s3Vars, hostVars
<1>6. CASE ReapRings
  <2>1. \A r \in Ring : InUse(r) => InUse(r)'
    BY <1>6 DEF ReapRings, ReadyRings, InUse, s3Vars
  <2> QED
    BY <1>1, <1>6, <2>1 DEF ReapRings, s3Vars
<1>7. CASE CheckStop
  <2>1. \A r \in Ring : InUse(r) => InUse(r)' \/ stopRequested'
    BY <1>7 DEF CheckStop, InUse, s3Vars
  <2> QED
    BY <1>1, <1>7, <2>1 DEF CheckStop, s3Vars
<1>8. ASSUME CompleteStream3, s3phase = "done"
      PROVE  \A r \in Ring : InUse(r) => InUse(r)'
  BY <1>8 DEF CompleteStream3, RingReturned, InUse
<1>9. CASE ReapStream3
  <2>1. \A r \in Ring : InUse(r) => InUse(r)'
    <3>1. CASE UNCHANGED <<ringState, s3phase>>
      BY <3>1 DEF InUse
    <3> QED
      BY <1>8, <1>9, <3>1 DEF ReapStream3, FinishStream3, s3Vars
  <2> QED
    BY <1>1, <1>9, <2>1 DEF ReapStream3, FinishStream3, CompleteStream3, s3Vars
<1>10. CASE EndPass
  <2>1. \A r \in Ring : InUse(r) => InUse(r)' \/ stopRequested'
    <3>1. CASE UNCHANGED <<ringState, s3phase>>
      BY <3>1 DEF InUse
    <3>2. CASE WaitStream3
      BY <1>8, <3>1, <3>2 DEF WaitStream3, FinishStream3, s3Vars
    <3>3. CASE WaitOldestRing
      BY <3>3 DEF WaitOldestRing, ReadyRings, InUse, s3Vars
    <3>4. CASE GiveUp
      <4>1. CASE pc = "halting"
        BY <3>4, <4>1 DEF GiveUp, LoadsInv, HaltsOnStop
      <4> QED
        BY <3>1, <3>4, <4>1 DEF GiveUp, s3Vars
    <3> QED
      BY <1>10, <3>1, <3>2, <3>3, <3>4 DEF EndPass, WaitStream4Slot, ringVars, s3Vars
  <2>2. UNCHANGED <<cursor, depth, ringLoad, offered>> /\ pc # "done"
    BY <1>10 DEF EndPass, WaitStream3, WaitOldestRing, WaitStream4Slot, GiveUp,
       FinishStream3, CompleteStream3, ringVars, s3Vars
  <2>3. stopRequested => stopRequested'
    BY <1>10 DEF EndPass, WaitStream3, WaitOldestRing, WaitStream4Slot, GiveUp
  <2> QED
    BY <1>1, <2>1, <2>2, <2>3
<1>11. CASE FillRings
  <2>1. UNCHANGED <<offered, depth>>
    BY <1>11 DEF FillRings, s3Vars
  <2> QED
    BY <1>11, <2>1, FillTakes DEF LoadsInv, OfferedIsGenerated
<1>12. CASE LaunchStream3
  <2> DEFINE r == Oldest(RingsIn("ready"))
  <2>1. r \in RingsIn("ready")
    <3>1. RingsIn("ready") # {} /\ RingsIn("ready") \subseteq Ring
      BY <1>0, <1>12 DEF LaunchStream3, ReadyWhileAdmitting, Admitting, RingsIn
    <3> QED
      BY <1>0, <3>1, OldestIsOne
  <2>2. /\ s3phase = "idle" /\ s3phase' = "launched"
        /\ ringState' = [ringState EXCEPT ![r] = "stream3"]
    BY <1>0, <1>12 DEF LaunchStream3, Stream3Known, Stream3Parked
  <2> HIDE DEF r
  <2>3. \A q \in Ring : InUse(q) => InUse(q)'
    BY <1>0, <2>1, <2>2 DEF InUse, RingsOK, RingsIn
  <2> QED
    BY <1>1, <1>12, <2>3 DEF LaunchStream3
<1>13. CASE Finalize
  BY <1>13 DEF Finalize, LoadsTaken, OfferedIsGenerated
<1>14. CASE StartDepth
  <2>1. cursor' = 1 /\ offered' = {}
    BY <1>14 DEF StartDepth
  <2>2. \A i \in 1..Loads' : ~(i < cursor')
    BY <2>1
  <2> QED
    BY <2>1, <2>2 DEF LoadsTaken, OfferedIsGenerated
<1>15. CASE Stream3Pack
  BY <1>15, PackTakes
<1>16. CASE Stream3Prepare \/ Stream3Scatter \/ Stream3BuildReady
  <2>1. \A r \in Ring : InUse(r) => InUse(r)'
    BY <1>16 DEF Stream3Prepare, Stream3Scatter, Stream3BuildReady, InUse, ringVars
  <2> QED
    BY <1>1, <1>16, <2>1 DEF Stream3Prepare, Stream3Scatter, Stream3BuildReady, ringVars,
       hostVars
<1>17. ASSUME NEW s \in Slot, Stream4(s) PROVE LoadsTaken' /\ OfferedIsGenerated'
  BY <1>2, <1>17 DEF Stream4, Stream4Sort, Stream4Publish, Stream4Signal, hostVars, ringVars,
     s3Vars
<1>18. CASE UNCHANGED vars
  BY <1>2, <1>18 DEF vars, hostVars, ringVars, s3Vars
<1> QED
  BY <1>3, <1>4, <1>5, <1>6, <1>7, <1>9, <1>10, <1>11, <1>12, <1>13, <1>14, <1>15, <1>16,
     <1>17, <1>18 DEF Next, Host, MainLoop, Stream3, Ended

LEMMA LoadsHold == Spec => []LoadsInv
<1>1. Init => LoadsInv
  BY DEF Init, LoadsInv, LoadsTaken, OfferedIsGenerated, LoadsSpent, LoopLeft, FlushedClean,
     HaltsOnStop
<1>2. SafeInv /\ FlightInv /\ LoadsInv /\ [Next]_vars => LoadsInv'
  BY PositionsStep, TakenStep DEF LoadsInv
<1> QED
  BY <1>1, <1>2, SafeInvHolds, FlightHolds, PTL DEF Spec
-----------------------------------------------------------------------------
(* Each finished depth is a beam of what the depth generated.               *)

BeamInv == SafeInv /\ QuietInv /\ FlightInv /\ RowsInv /\ ResultInv /\ LoadsInv

\* When finalize_depth_single_gpu runs, every load was offered to Stream 3 and every
\* row is in a clean bank.
LEMMA AllInBanks ==
    ASSUME BeamInv, pc = "finalize"
    PROVE  /\ offered = GeneratedIn[depth] /\ ~fatal /\ Held = UnionOfBanks
           /\ depth \in 1..Len(Batches)
<1>0. CountersOK /\ Stream3OK
  BY DEF BeamInv, SafeInv, TypeInv
<1>1. /\ s3phase = "idle" /\ ~stopRequested /\ cursor > Loads /\ ~AnyDirty
      /\ \A r \in Ring : ringState[r] = "free"
  BY DEF BeamInv, SafeInv, Positioned, Stream3Known, Stream3Parked, StopPositions, QuietInv,
     RingsReturned, LoadsInv, LoadsSpent, LoopLeft, FlushedClean
<1>2. ~fatal /\ s3batch = {}
  BY <1>1 DEF BeamInv, FlightInv, FatalInFlight, RowsInv, BatchInFlight
<1>3. Held = UnionOfBanks
  BY <1>1, <1>2 DEF Held, UnionOfBanks, AnyDirty
<1>4. Loads \in Nat /\ cursor \in Nat
  BY <1>0, BatchesAssumption DEF CountersOK, Loads
<1>5. \A i \in 1..Loads : Batches[depth][i] \subseteq offered
  BY <1>1, <1>4 DEF BeamInv, LoadsInv, LoadsTaken, InUse
<1>6. offered = GeneratedIn[depth]
  BY <1>0, <1>5 DEF GeneratedIn, Loads, CountersOK, BeamInv, LoadsInv, OfferedIsGenerated
<1> QED
  BY <1>0, <1>2, <1>3, <1>6 DEF CountersOK

\* Rows of one state are in one shard, so the union per shard is the union.
LEMMA UnionIsBest ==
    ASSUME BanksOK, RowsInv
    PROVE  Union = BestPerState(UnionOfBanks)
<1> DEFINE pair(l) == clean[<<l, 0>>] \cup clean[<<l, 1>>]
<1>1. \A p \in Bank : /\ clean[p] \subseteq InShard(offered, p[1]) /\ clean[p] \subseteq pair(p[1])
                      /\ p[1] \in Shard
  <2>1. \A p \in Bank : clean[p] \subseteq InShard(offered, p[1])
    BY DEF RowsInv, RowsPlaced
  <2>2. \A p \in Bank : p = <<p[1], 0>> \/ p = <<p[1], 1>>
    BY SiblingIsBank
  <2> QED
    BY <2>1, <2>2, SiblingIsBank
<1>2. \A l \in Shard : pair(l) \subseteq UnionOfBanks /\ \A c \in pair(l) : ShardOf[StateOf[c]] = l
  <2> SUFFICES ASSUME NEW l \in Shard
               PROVE  pair(l) \subseteq UnionOfBanks /\ \A c \in pair(l) : ShardOf[StateOf[c]] = l
    OBVIOUS
  <2>1. <<l, 0>> \in Bank /\ <<l, 1>> \in Bank
    BY DEF Bank
  <2> QED
    BY <2>1 DEF UnionOfBanks, RowsInv, RowsPlaced, InShard
<1>3. \A c \in UnionOfBanks : ShardOf[StateOf[c]] \in Shard /\ c \in pair(ShardOf[StateOf[c]])
  <2> SUFFICES ASSUME NEW c \in UnionOfBanks
               PROVE  ShardOf[StateOf[c]] \in Shard /\ c \in pair(ShardOf[StateOf[c]])
    OBVIOUS
  <2>1. PICK p \in Bank : c \in clean[p]
    BY DEF UnionOfBanks
  <2> HIDE DEF pair
  <2>2. ShardOf[StateOf[c]] = p[1] /\ p[1] \in Shard /\ c \in pair(p[1])
    BY <1>1, <2>1 DEF InShard
  <2> QED
    BY <2>2
<1>4. Union = UNION {BestPerState(pair(l)) : l \in Shard}
  BY DEF Union
<1> HIDE DEF pair
<1>5. ASSUME NEW c \in Union PROVE c \in BestPerState(UnionOfBanks)
  <2>1. PICK l \in Shard : c \in BestPerState(pair(l))
    BY <1>4
  <2>2. c \in pair(l)
    BY <2>1 DEF BestPerState
  <2>3. \A d \in UnionOfBanks : StateOf[d] = StateOf[c] => d \in pair(l)
    BY <1>2, <1>3, <2>2
  <2> QED
    BY <1>2, <2>1, <2>2, <2>3 DEF BestPerState
<1>6. ASSUME NEW c \in BestPerState(UnionOfBanks) PROVE c \in Union
  <2> DEFINE l == ShardOf[StateOf[c]]
  <2>1. l \in Shard /\ c \in pair(l)
    BY <1>3 DEF BestPerState
  <2>2. c \in BestPerState(pair(l))
    BY <1>2, <2>1 DEF BestPerState
  <2> QED
    BY <1>4, <2>1, <2>2
<1> QED
  BY <1>5, <1>6

\* The banks hold the best rows the threshold lets pass.
LEMMA UnionAgrees ==
    ASSUME BeamInv, pc = "finalize"
    PROVE  /\ Union \in SUBSET Cand /\ OnePerState(Union)
           /\ AtMost(Union, threshold) = AtMost(BestPerState(offered), threshold)
<1>0. BanksOK /\ Stream3OK /\ RowsInv /\ NothingLost /\ threshold \in Nat
  BY ThresholdIsNat DEF BeamInv, SafeInv, TypeInv, ResultInv
<1>1. Union = BestPerState(UnionOfBanks)
  BY <1>0, UnionIsBest
<1>2. UnionOfBanks \in SUBSET offered /\ offered \in SUBSET Cand
  BY <1>0 DEF UnionOfBanks, RowsInv, RowsPlaced, InShard, Stream3OK
<1>3. \A c \in offered : Score[c] > threshold \/ \E h \in UnionOfBanks : StandsFor(h, c)
  BY <1>0, AllInBanks DEF NothingLost, StandsFor
<1>4. Union \in SUBSET Cand /\ OnePerState(Union)
  BY <1>1, <1>2, BestIsUnique DEF BestPerState
<1> QED
  BY <1>0, <1>1, <1>2, <1>3, <1>4, KeptIsBest

\* The final threshold is no looser than the threshold in force, and fills the beam
\* or excludes nothing.
LEMMA FinalThresholdFits ==
    ASSUME BeamInv, pc = "finalize"
    PROVE  /\ FinalThreshold \in Nat
           /\ AtMost(Union, FinalThreshold) = AtMost(BestPerState(offered), FinalThreshold)
           /\ \/ Cardinality(AtMost(Union, FinalThreshold)) >= BeamWidth
              \/ AtMost(Union, FinalThreshold) = BestPerState(offered)
<1> DEFINE t == FinalThreshold
           B == BestPerState(offered)
           R == {u \in Scores : ReachesWidth(u)}
<1>0. /\ Stream3OK /\ ThresholdOK /\ threshold \in Nat /\ ThresholdSound /\ ThresholdKnown
      /\ NoThreshold \in Nat
  BY ThresholdIsNat, CandAssumption DEF BeamInv, SafeInv, TypeInv, ResultInv
<1>1. /\ Union \in SUBSET Cand /\ B \in SUBSET Cand
      /\ AtMost(Union, threshold) = AtMost(B, threshold)
  BY <1>0, UnionAgrees, ReductionsAreRows DEF Stream3OK
<1>2. initialized => threshold \in R
  <2> SUFFICES ASSUME initialized PROVE ReachesWidth(threshold) /\ threshold \in Scores
    OBVIOUS
  <2>1. Cardinality(States(AtMost(offered, threshold))) >= BeamWidth /\ threshold \in Scores
    BY <1>0 DEF ThresholdSound, ThresholdKnown
  <2>2. Cardinality(States(AtMost(offered, threshold))) = Cardinality(AtMost(B, threshold))
    BY <1>0, StatesAtMost DEF Stream3OK
  <2> QED
    BY <1>1, <2>1, <2>2 DEF ReachesWidth
<1>3. CASE R # {}
  <2>1. R \in SUBSET Nat
    BY ScoresBounded
  <2>2. PICK m \in R : \A n \in R : m <= n
    <3> HIDE DEF R
    <3> QED
      BY <1>3, <2>1, LeastNatural
  <2>3. t \in Scores /\ ReachesWidth(t) /\ \A u \in Scores : ReachesWidth(u) => t <= u
    <3>1. \E v \in Scores : ReachesWidth(v) /\ \A u \in Scores : ReachesWidth(u) => v <= u
      BY <2>2
    <3>2. \E v \in Scores : ReachesWidth(v)
      BY <3>1
    <3> QED
      BY <3>1, <3>2 DEF FinalThreshold
  <2>4. t \in Nat /\ t < NoThreshold
    BY <2>3, ScoresBounded
  <2>5. t <= threshold
    <3>1. CASE initialized
      BY <1>2, <2>3, <3>1
    <3>2. CASE ~initialized
      BY <1>0, <2>4, <3>2 DEF ThresholdSound
    <3> QED
      BY <3>1, <3>2
  <2> HIDE DEF t, B, R
  <2>6. AtMost(Union, t) = AtMost(B, t)
    <3>1. \A c \in Cand : Score[c] \in Nat /\ (Score[c] <= t => Score[c] <= threshold)
      BY <1>0, <2>4, <2>5, CandAssumption
    <3> QED
      BY <1>1, <3>1 DEF AtMost
  <2> QED
    BY <2>3, <2>4, <2>6 DEF t, B, ReachesWidth
<1>4. CASE R = {}
  <2>1. t = NoThreshold /\ ~initialized
    BY <1>2, <1>4 DEF FinalThreshold
  <2>2. threshold = NoThreshold
    BY <1>0, <2>1 DEF ThresholdSound
  <2>3. \A c \in Cand : Score[c] <= NoThreshold
    BY CandAssumption
  <2> HIDE DEF t, B, R
  <2>4. AtMost(B, NoThreshold) = B
    BY <1>1, <2>3 DEF AtMost
  <2> QED
    BY <1>0, <1>1, <2>1, <2>2, <2>4 DEF t, B
<1> QED
  BY <1>3, <1>4

LEMMA FinalizeIsBeam ==
    ASSUME BeamInv, Finalize
    PROVE  IsBeamOf(beam', GeneratedIn[depth]) /\ beam' \subseteq Cand
<1> DEFINE t == FinalThreshold
           F == beam'
           less == {c \in Union : Score[c] < t}
           equal == {c \in Union : Score[c] = t}
<1>1. pc = "finalize" /\ F \in SUBSET Union /\ IsFinalSelection(F)
  BY DEF Finalize
<1>2. Union \in SUBSET Cand /\ offered \in SUBSET Cand /\ t \in Nat
  BY <1>1, UnionAgrees, FinalThresholdFits DEF BeamInv, SafeInv, TypeInv, Stream3OK
<1>3. /\ less \subseteq F /\ F \subseteq less \cup equal
      /\ Cardinality(F) = Smaller(BeamWidth, Cardinality(less) + Cardinality(equal))
  BY <1>1 DEF IsFinalSelection
<1>4. less \cup equal = AtMost(Union, t)
  <2>1. \A c \in Cand : Score[c] \in Nat
    BY CandAssumption
  <2> HIDE DEF t
  <2> QED
    BY <1>2, <2>1 DEF AtMost
<1>5. Cardinality(less) + Cardinality(equal) = Cardinality(AtMost(Union, t))
  <2>1. less \in SUBSET Cand /\ equal \in SUBSET Cand
    BY <1>2
  <2>2. less \cap equal = {}
    <3>1. \A c \in Cand : Score[c] \in Nat
      BY CandAssumption
    <3> HIDE DEF t
    <3> QED
      BY <1>2, <3>1
  <2>3. Cardinality(less \cup equal)
          = Cardinality(less) + Cardinality(equal) - Cardinality(less \cap equal)
    <3> HIDE DEF less, equal
    <3> QED
      BY <2>1, RowsFinite, FS_Union
  <2>4. Cardinality(less \cap equal) = 0
    BY <2>2, FS_EmptySet
  <2>5. Cardinality(less) \in Nat /\ Cardinality(equal) \in Nat
    <3> HIDE DEF less, equal
    <3> QED
      BY <2>1, RowsFinite
  <2> HIDE DEF less, equal
  <2> QED
    BY <1>4, <2>3, <2>4, <2>5
<1>6. /\ AtMost(Union, t) = AtMost(BestPerState(offered), t)
      /\ \/ Cardinality(AtMost(Union, t)) >= BeamWidth
         \/ AtMost(Union, t) = BestPerState(offered)
  BY <1>1, FinalThresholdFits
<1>7. IsBeamOf(F, offered)
  <2>1. /\ {c \in Union : Score[c] < t} \subseteq F /\ F \subseteq AtMost(Union, t)
        /\ Cardinality(F) = Smaller(BeamWidth, Cardinality(AtMost(Union, t)))
    BY <1>3, <1>4, <1>5
  <2> HIDE DEF t, F
  <2> QED
    BY <1>2, <1>6, <2>1, SelectionIsBeam
<1>8. offered = GeneratedIn[depth]
  BY <1>1, AllInBanks
<1> QED
  BY <1>1, <1>2, <1>7, <1>8
-----------------------------------------------------------------------------
(* The pipeline implements BeamDepth.                                      *)

LEMMA SameBeam ==
    ASSUME NEW F, NEW G
    PROVE  Depths!IsBeamOf(F, G) <=> IsBeamOf(F, G)
  BY DEF Depths!IsBeamOf, IsBeamOf, Depths!BestPerState, BestPerState, Depths!Better, Better,
     Depths!Smaller, Smaller, Depths!States, States, Depths!Cardinality, Cardinality

Over == pc \in {"stopped", "failed", "error"}
DepthsDone == IF pc = "done" THEN depth ELSE depth - 1

\* Every step but the end and the start of a depth leaves the depths that are done
\* and the beam alone, and a search that has ended stays so.
LEMMA OtherStepsStutter ==
    ASSUME SafeInv, [Next]_vars, ~Finalize, ~StartDepth
    PROVE  /\ UNCHANGED <<depth, beam>> /\ (pc' = "done" <=> pc = "done")
           /\ (Over => Over')
<1>1. CASE QuietSteps
  <2>1. Over => Over'
    BY <1>1 DEF QuietSteps, LoopTest, ReapStream4, ReapRings, CheckStop, UpdateBefore,
       UpdateAfter, MaybeUpdate, LaunchRelease, LaunchPending, FillRings, CopyCleanCounts,
       CopyDirtyCounts, CopyProcessingFlags, PressureBuild, PressureAppend, PressureEnd,
       Drain, FlushBuild, FlushAppend, FlushUpdate, FlushTest, FinishRing, Stream4Signal,
       hostVars, Over
  <2> QED
    BY <1>1, <2>1, QuietStepsKeep
<1>2. CASE Stream3Moves
  <2>1. Over => Over'
    BY <1>2 DEF Stream3Moves, ReapStream3, EndPass, LaunchStream3, Stream3BuildReady, hostVars,
       Over
  <2> QED
    BY <1>2, <2>1, Stream3MovesKeep
<1>3. CASE UpdateThreshold
  BY <1>3, UpdateKeeps DEF Over
<1>4. CASE Stream3Pack \/ Stream3Prepare \/ Stream3Scatter \/ UNCHANGED vars
  BY <1>4 DEF Stream3Pack, Stream3Prepare, Stream3Scatter, vars, hostVars, Over
<1>5. ASSUME NEW s \in Slot, Stream4Sort(s) \/ Stream4Publish(s)
      PROVE  UNCHANGED <<depth, beam, pc>>
  BY <1>5 DEF Stream4Sort, Stream4Publish, hostVars
<1> QED
  BY <1>1, <1>2, <1>3, <1>4, <1>5, StepKinds DEF Over

LEMMA DepthsStep ==
    ASSUME BeamInv, [Next]_vars
    PROVE  [Depths!Next]_(Depths!abstractVars)
<1>0. CountersOK
  BY DEF BeamInv, SafeInv, TypeInv
<1>1. CASE Finalize
  <2>1. /\ DepthsDone' = DepthsDone + 1 /\ DepthsDone' = depth /\ ~Over /\ ~Over'
        /\ depth \in 1..Len(Batches)
    BY <1>0, <1>1 DEF Finalize, DepthsDone, Over, CountersOK
  <2>2. Depths!IsBeamOf(beam', GeneratedIn[depth]) /\ beam' \subseteq Cand
    BY <1>1, FinalizeIsBeam, SameBeam
  <2>3. DOMAIN GeneratedIn = 1..Len(Batches)
    BY DEF GeneratedIn
  <2> QED
    BY <2>1, <2>2, <2>3 DEF Depths!Next, Depths!FinishDepth, DepthsDone, Over
<1>2. CASE StartDepth
  <2>1. DepthsDone' = DepthsDone /\ beam' = beam /\ ~Over /\ ~Over'
    BY <1>0, <1>2 DEF StartDepth, DepthsDone, Over, CountersOK
  <2> QED
    BY <2>1 DEF Depths!abstractVars, DepthsDone, Over
<1>3. CASE ~Finalize /\ ~StartDepth
  <2>1. /\ DepthsDone' = DepthsDone /\ beam' = beam
        /\ (Over => Over')
    BY <1>3, OtherStepsStutter DEF BeamInv, DepthsDone
  <2>2. CASE Over' = Over
    BY <2>1, <2>2 DEF Depths!abstractVars, DepthsDone, Over
  <2>3. CASE ~Over /\ Over'
    <3>1. Depths!End
      BY <2>1, <2>3 DEF Depths!End, DepthsDone, Over
    <3> QED
      BY <3>1 DEF Depths!Next
  <2>4. Over \in BOOLEAN /\ Over' \in BOOLEAN
    BY DEF Over
  <2> QED
    BY <2>1, <2>2, <2>3, <2>4
<1> QED
  BY <1>1, <1>2, <1>3

\* Whatever the order of kernels, sorts, threshold updates and host polls, a search
\* with run_depth_cuda_graphs and finalize_depth_single_gpu does what BeamDepth
\* promises: every finished depth replaces the frontier by a correct beam of all
\* the candidates its parents generate, in one step.
THEOREM BeamDepthImplemented == Spec => ImplementsBeamDepth
<1>1. Init => Depths!Init
  BY DEF Init, Depths!Init
<1>2. BeamInv /\ [Next]_vars => [Depths!Next]_(Depths!abstractVars)
  BY DepthsStep
<1>3. Spec => []BeamInv
  <2>1. Init => QuietInv
    BY DEF Init, QuietInv, RingsReturned
  <2>2. Spec => []QuietInv
    BY <2>1, QuietStep, SafeInvHolds, PTL DEF Spec
  <2> QED
    BY <2>2, SafeInvHolds, FlightHolds, RowsHold, ResultHolds, LoadsHold, PTL DEF BeamInv
<1> QED
  BY <1>1, <1>2, <1>3, PTL DEF Spec, Depths!Spec, ImplementsBeamDepth
-----------------------------------------------------------------------------
(* A share of rows that one warp can copy: warp 0 reads its base before      *)
(* thread 0, one of its lanes, advances the counter, and no other warp has a *)
(* row to copy.                                                             *)

\* The warp that advances the counter has read the old value, and it is the only
\* one with rows left to copy.
OneWarpInv ==
    /\ existing \in Nat /\ base \in [Warp -> Int]
    /\ nextRow \in [Warp -> Nat] /\ placed \in [Row -> Int]
    /\ base[0] = Unread => existing = Existing
    /\ base[0] # Unread => base[0] = Existing
    /\ \A w \in Warp : w # 0 => nextRow[w] >= Lanes
    /\ RowsInPlace

LEMMA StrideBound ==
    ASSUME NEW w \in Nat, w # 0, NEW n \in Nat
    PROVE  w * n \in Nat /\ w * n >= n
<1>1. w - 1 \in Nat /\ (w - 1) * n \in Nat
  OBVIOUS
<1>2. w * n = (w - 1) * n + n
  OBVIOUS
<1> QED
  BY <1>1, <1>2

\* The rows of a group no larger than a warp land right behind the rows the bank
\* held, for every number of warps, rows and lanes.
THEOREM OneWarpAppendsInPlace ==
    ASSUME RawCount <= Lanes
    PROVE  ScatterSpec => []RowsInPlace
<1> USE BlockAssumption
<1>0. 0 \in Warp /\ Row \subseteq Nat /\ Warp \subseteq Nat
  BY DEF Warp, Row
<1>1. ScatterInit => OneWarpInv
  <2> SUFFICES ASSUME ScatterInit PROVE OneWarpInv
    OBVIOUS
  <2>1. \A w \in Warp : w * Lanes \in Nat /\ (w # 0 => w * Lanes >= Lanes)
    BY <1>0, StrideBound
  <2> QED
    BY <1>0, <2>1 DEF ScatterInit, OneWarpInv, RowsInPlace, Unread, Unwritten
<1>2. OneWarpInv /\ [ScatterNext]_scatterVars => OneWarpInv'
  <2> SUFFICES ASSUME OneWarpInv, [ScatterNext]_scatterVars PROVE OneWarpInv'
    OBVIOUS
  <2> USE <1>0 DEF OneWarpInv
  <2>1. ASSUME NEW w \in Warp, ReadBase(w) PROVE OneWarpInv'
    BY <2>1 DEF ReadBase, RowsInPlace, Unread
  <2>2. ASSUME NEW w \in Warp, CopyRows(w) PROVE OneWarpInv'
    <3>1. w = 0
      BY <2>2 DEF CopyRows
    <3>2. nextRow' \in [Warp -> Nat] /\ \A v \in Warp : v # 0 => nextRow'[v] >= Lanes
      <4>1. WarpCount * Lanes \in Nat
        OBVIOUS
      <4> QED
        BY <2>2, <3>1, <4>1 DEF CopyRows
    <3>3. placed' \in [Row -> Int] /\ RowsInPlace'
      BY <2>2, <3>1 DEF CopyRows, RowsInPlace
    <3> QED
      BY <2>2, <3>2, <3>3 DEF CopyRows
  <2>3. ASSUME NEW w \in Warp, Advance(w) PROVE OneWarpInv'
    BY <2>3 DEF Advance, RowsInPlace
  <2>4. CASE UNCHANGED scatterVars
    BY <2>4 DEF scatterVars, RowsInPlace
  <2> QED
    BY <2>1, <2>2, <2>3, <2>4 DEF ScatterNext, BlockFinished
<1>3. OneWarpInv => RowsInPlace
  BY DEF OneWarpInv
<1> QED
  BY <1>1, <1>2, <1>3, PTL DEF ScatterSpec
=============================================================================
