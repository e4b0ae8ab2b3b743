---------------------------- MODULE ExchangeRounds ----------------------------
(***************************************************************************)
(* Several ranks expanding one depth together: the part of                  *)
(* run_depth_cuda_graphs that runs when WORLD_SIZE > 1.  Each rank keeps    *)
(* the candidates whose state it owns and sends the others to their owners, *)
(* once per round; before a round it reserves room for its own candidates   *)
(* and for all it may receive, and the ranks agree whether the threshold is *)
(* updated first.  A rank without parents left takes part in the remaining  *)
(* rounds with nothing to send.                                             *)
(*                                                                         *)
(* A collective takes place when every rank waits in it.  The scheduler of  *)
(* a rank is as in DepthPipeline, with its passes cut to what the exchange  *)
(* can tell: Streams 1 and 2 have the next ring ready at any moment, and a  *)
(* Stream 4 job sorts its bank, gives it back and signals in one step.      *)
(***************************************************************************)
EXTENDS Candidates, Sequences, FiniteSetsExt

CONSTANTS
    Rank,          \* the ranks, numbered from 0
    OwnerOf,       \* OwnerOf[s]: the rank that state s hashes to
    Loads,         \* Loads[r][i]: what the i-th ring load of rank r generates
    SlotCount,     \* Stream 4 slots of a rank
    Capacity,      \* SHARD_CAPACITY_CANDIDATES, of one bank
    BatchSize,     \* STREAM3_BATCH_CANDIDATES, also the bound of what a rank sends
    RecvCapacity,  \* stream5_recv_slot_capacity
    Trigger        \* STREAM4_TRIGGER_CANDIDATES

ExchangeAssumption ==
    /\ IsFiniteSet(Rank) /\ Rank = 0..(Cardinality(Rank) - 1) /\ Cardinality(Rank) > 1
    /\ \A c \in Cand : OwnerOf[StateOf[c]] \in Rank
    /\ \A r \in Rank : Loads[r] \in Seq(SUBSET Cand)
    /\ \A r \in Rank : \A i \in DOMAIN Loads[r] : Cardinality(Loads[r][i]) <= BatchSize
    /\ {SlotCount, Capacity, BatchSize, RecvCapacity, Trigger} \subseteq Nat \ {0}

Bank == Rank \X Shard \X {0, 1}
Banks(r) == {p \in Bank : p[1] = r}
Sibling(p) == <<p[1], p[2], 1 - p[3]>>

VARIABLES
    \* the schedulers
    pc, stage,   \* where a rank stands: in the loop, in the rounds after it, at the end
    then,        \* where its drain of Stream 4 leads to
    cursor,      \* its next ring load
    round, rounds,   \* completed_exchange_rounds, global_exchange_rounds
    jobs,        \* stream4_jobs_since_threshold_update, saturated at the period
    pending,     \* pending_stream4_shards of all ranks
    seen,        \* the clean, then clean + dirty counts copied to the host
    room,        \* whether the admission check found room
    torn,        \* whether it did so on counters of different moments
    brings,      \* what a rank brings to the collective it waits in
    \* the devices
    s3phase, outgoing, incoming, fatal,
    clean, dirty, processing, writeIdx, ready,
    job,         \* the Stream 4 job of a bank: none, running, done
    hist, threshold, initialized,
    \* results and history
    offered, beam

hostVars == <<pc, stage, then, cursor, round, rounds, seen, room, torn, brings>>
queueVars == <<jobs, pending, job>>
streamVars == <<s3phase, outgoing, incoming, fatal, offered>>
bankVars == <<clean, dirty, processing, writeIdx, ready, hist>>
vars == <<hostVars, queueVars, streamVars, bankVars, threshold, initialized, beam>>
-----------------------------------------------------------------------------
(* Banks.                                                                  *)

CeilDiv(m, n) == (m + n - 1) \div n
AverageWrite == CeilDiv(BatchSize, Cardinality(Shard))
WriteReserve == Smaller(AverageWrite + CeilDiv(AverageWrite, 4), Capacity)

Used(p) == Cardinality(clean[p]) + Cardinality(dirty[p])
Available(p) == IF ~processing[p] /\ Used(p) < Capacity THEN Capacity - Used(p) ELSE 0

\* The bank that `raw` candidates of shard l are appended to.
WriteBank(r, l, raw) ==
    LET cur == <<r, l, writeIdx[<<r, l>>]>>
        sib == Sibling(cur)
    IN IF \/ Available(cur) >= raw
          \/ Available(sib) < raw /\ Available(sib) <= Available(cur)
       THEN cur ELSE sib

\* stream3_prepare_partition_counts and stream3_partition_scatter: rank r appends
\* the rows; nothing is written once the fatal flag is set.
AppendRows(r, rows) ==
    LET share(l) == InShard(rows, l)
        target == [l \in Shard |-> WriteBank(r, l, Cardinality(share(l)))]
        overflows == \E l \in Shard : Cardinality(share(l)) > Available(target[l])
    IN /\ writeIdx' = [x \in DOMAIN writeIdx |->
             IF x[1] = r /\ share(x[2]) # {} THEN target[x[2]][3] ELSE writeIdx[x]]
       /\ fatal' = [fatal EXCEPT ![r] = fatal[r] \/ overflows]
       /\ dirty' = [p \in Bank |->
             IF p[1] = r /\ target[p[2]] = p /\ ~fatal'[r] THEN dirty[p] \cup share(p[2])
             ELSE dirty[p]]

DirtyReady(p) ==
    /\ dirty[p] # {}
    /\ Cardinality(dirty[p]) >= Trigger \/ Used(p) >= Capacity - WriteReserve
CleanReady(p) == dirty[p] = {} /\ clean[p] # {} /\ Cardinality(clean[p]) >= Capacity - WriteReserve

ReadyWithoutCredit(p) == DirtyReady(p) \/ CleanReady(p)

\* A bank is not handed to Stream 4 if its sibling cannot take what the peers
\* may still send in this round.
IsReady(p) == ReadyWithoutCredit(p) /\ Available(Sibling(p)) >= RecvCapacity

Preferred(p, q) ==
    \/ DirtyReady(p) /\ ~DirtyReady(q)
    \/ /\ DirtyReady(p) = DirtyReady(q)
       /\ \/ Available(q) > Available(p)
          \/ Available(q) = Available(p) /\ writeIdx[<<p[1], p[2]>>] # p[3]

\* stream3_build_ready_shard_queue, the last kernel of a ring's graph.
BuildReadyQueue(r) ==
    LET selected == {p \in Banks(r) :
            /\ ~processing[p] /\ ~processing[Sibling(p)]
            /\ IsReady(p)
            /\ IsReady(Sibling(p)) => Preferred(p, Sibling(p))}
        turned(x) == {b \in {0, 1} : LET p == <<x[1], x[2], b>> IN
                        p \in selected /\ Used(Sibling(p)) < Capacity}
    IN /\ processing' = [p \in Bank |-> processing[p] \/ p \in selected]
       /\ writeIdx' = [x \in DOMAIN writeIdx |->
             IF turned(x) = {} THEN writeIdx[x] ELSE 1 - CHOOSE b \in turned(x) : TRUE]
       /\ ready' = ready \cup selected

\* What Stream 4 leaves of a bank.
Sorted(p) == BestPerState(AtMost(clean[p] \cup dirty[p], threshold[p[1]]))
-----------------------------------------------------------------------------
(* The Stream 4 jobs of a rank, as its host sees them.                      *)

UpdatePeriod == 2 * Cardinality(Shard)       \* max(1, storage_shard_count)
Busy(r) == {p \in Banks(r) : job[p] # "none"}
Done(r) == {p \in Banks(r) : job[p] = "done"}

\* Release the slots that are done and launch `launched` on free ones.
Reschedule(r, launched) ==
    /\ job' = [p \in Bank |-> IF p \in launched THEN "running"
                              ELSE IF p \in Done(r) THEN "none" ELSE job[p]]
    /\ jobs' = [jobs EXCEPT ![r] = Smaller(jobs[r] + Cardinality(Done(r)), UpdatePeriod)]
    /\ pending' = pending \ launched

\* Queued banks whose logical shard is idle once the done slots are released.
Launchable(r) == {p \in pending \cap Banks(r) :
    \A q \in {p, Sibling(p)} : job[q] \in {"none", "done"}}

\* As many of them as there are free slots, one per shard.
Launches(r) ==
    LET free == SlotCount - Cardinality(Busy(r) \ Done(r))
        shards == {p[2] : p \in Launchable(r)}
    IN {S \in SUBSET Launchable(r) :
            /\ \A p, q \in S : p[2] = q[2] => p = q
            /\ Cardinality(S) = Smaller(free, Cardinality(shards))}
-----------------------------------------------------------------------------
Start(x) == [r \in Rank |-> x]

Init ==
    /\ pc = Start("rounds") /\ stage = Start("loop") /\ then = Start("flush")
    /\ cursor = Start(1) /\ round = Start(0) /\ rounds = Start(0)
    /\ jobs = Start(0) /\ pending = {} /\ seen = [p \in Bank |-> 0]
    /\ room = Start(TRUE) /\ torn = Start(FALSE)
    /\ brings = [r \in Rank |-> <<Len(Loads[r])>>]
    /\ s3phase = Start("idle") /\ outgoing = Start({}) /\ incoming = Start({})
    /\ fatal = Start(FALSE) /\ offered = {} /\ beam = {}
    /\ clean = [p \in Bank |-> {}] /\ dirty = [p \in Bank |-> {}]
    /\ hist = [p \in Bank |-> {}] /\ processing = [p \in Bank |-> FALSE]
    /\ writeIdx = [x \in Rank \X Shard |-> 0] /\ ready = {}
    /\ job = [p \in Bank |-> "none"]
    /\ threshold = Start(NoThreshold) /\ initialized = Start(FALSE)

Goto(r, to) == pc' = [pc EXCEPT ![r] = to]
GotoAll(to) == pc' = [r \in Rank |-> to[r]]
All(at) == \A r \in Rank : pc[r] = at
-----------------------------------------------------------------------------
(* The main loop.                                                          *)

OwnRounds(r) == brings[r][1]

\* The all-reduce of the round count: as many rounds as the busiest rank needs.
GlobalRounds(r) == CHOOSE n \in {OwnRounds(q) : q \in Rank} : \A q \in Rank : OwnRounds(q) <= n

AgreeRounds ==
    /\ All("rounds") /\ GotoAll(Start("pass"))
    /\ rounds' = [r \in Rank |-> GlobalRounds(r)] /\ brings' = Start(<<>>)
    /\ UNCHANGED <<stage, then, cursor, round, seen, room, torn, queueVars, streamVars,
                   bankVars, threshold, initialized, beam>>

RingsLeft(r) == cursor[r] <= Len(Loads[r])
MoreToDo(r) == RingsLeft(r) \/ s3phase[r] # "idle" \/ Busy(r) # {}

\* Feed Stream 4, then admit the next ring if it is ready and Stream 3 idle.
Serve(r) ==
    /\ \/ pc[r] = "pass" /\ MoreToDo(r) /\ s3phase[r] # "done"
       \/ pc[r] = "launch"
    /\ \E S \in Launches(r) : Reschedule(r, S)
    /\ \/ stage[r] = "loop" /\ Goto(r, "pass")
       \/ stage[r] = "loop" /\ RingsLeft(r) /\ s3phase[r] = "idle" /\ Goto(r, "admit")
       \/ stage[r] = "tail" /\ Goto(r, "tail")
    /\ UNCHANGED <<stage, then, cursor, round, rounds, seen, room, torn, brings, streamVars,
                   bankVars, threshold, initialized, beam>>

\* complete_stream3_ring: its fatal check, then the exchange.
FinishStream3(r) ==
    /\ pc[r] = "pass" /\ s3phase[r] = "done"
    /\ Reschedule(r, {})
    /\ IF fatal[r] THEN Goto(r, "failed") ELSE Goto(r, "counts")
    /\ UNCHANGED <<stage, then, cursor, round, rounds, seen, room, torn, brings, streamVars,
                   bankVars, threshold, initialized, beam>>

\* No ring left, Stream 3 idle, no Stream 4 slot busy.
LeaveLoop(r) ==
    /\ pc[r] = "pass" /\ ~MoreToDo(r)
    /\ Goto(r, "tail") /\ stage' = [stage EXCEPT ![r] = "tail"]
    /\ UNCHANGED <<then, cursor, round, rounds, seen, room, torn, brings, queueVars,
                   streamVars, bankVars, threshold, initialized, beam>>

TailRoundLeft(r) == round[r] < rounds[r]

\* Rounds the other ranks still need, then one last request for an update.
TailRound(r) ==
    /\ pc[r] = "tail"
    /\ \/ /\ TailRoundLeft(r) /\ Goto(r, "admit")
          /\ UNCHANGED <<stage, then, brings, queueVars>>
       \/ /\ ~TailRoundLeft(r) /\ Goto(r, "request")
          /\ stage' = [stage EXCEPT ![r] = "end"]
          /\ Reschedule(r, {})
          /\ brings' = [brings EXCEPT ![r] = <<IF jobs'[r] # 0 THEN 1 ELSE 0>>]
          /\ UNCHANGED then
    /\ UNCHANGED <<cursor, round, rounds, seen, room, torn, streamVars, bankVars,
                   threshold, initialized, beam>>
-----------------------------------------------------------------------------
(* reserve_stream3_round and maybe_run_stream5_threshold_update.            *)

Required == BatchSize + RecvCapacity

CopyCleanCounts(r) ==
    /\ pc[r] = "admit" /\ Goto(r, "copyDirty")
    /\ Reschedule(r, {})
    /\ seen' = [p \in Bank |-> IF p[1] = r THEN Cardinality(clean[p]) ELSE seen[p]]
    /\ UNCHANGED <<stage, then, cursor, round, rounds, room, torn, brings, streamVars,
                   bankVars, threshold, initialized, beam>>

CopyDirtyCounts(r) ==
    /\ pc[r] = "copyDirty" /\ Goto(r, "copyProcessing")
    /\ seen' = [p \in Bank |-> IF p[1] = r THEN seen[p] + Cardinality(dirty[p]) ELSE seen[p]]
    /\ UNCHANGED <<stage, then, cursor, round, rounds, room, torn, brings, queueVars,
                   streamVars, bankVars, threshold, initialized, beam>>

\* Every shard has an idle bank with room, by these counts, for the local batch
\* and for all that may be received.
Writable(r, used) == \A l \in Shard : \E b \in {0, 1} :
    /\ ~processing[<<r, l, b>>] /\ used[<<r, l, b>>] < Capacity
    /\ Capacity - used[<<r, l, b>>] >= Required

UpdateDue(r) == jobs[r] >= UpdatePeriod

\* 2 asks for an update because there is no room, 1 because one is due.
CopyProcessingFlags(r) ==
    LET found == Writable(r, seen)
    IN /\ pc[r] = "copyProcessing" /\ Goto(r, "request")
       /\ room' = [room EXCEPT ![r] = found]
       /\ torn' = [torn EXCEPT ![r] = found /\ \E p \in Banks(r) : seen[p] < Used(p)]
       /\ brings' = [brings EXCEPT ![r] = <<IF ~found THEN 2 ELSE IF UpdateDue(r) THEN 1 ELSE 0>>]
       /\ seen' = [p \in Bank |-> IF p[1] = r THEN 0 ELSE seen[p]]
       /\ UNCHANGED <<stage, then, cursor, round, rounds, queueVars, streamVars, bankVars,
                      threshold, initialized, beam>>

\* What follows a request that is settled.
Settled(r) == IF stage[r] = "end" THEN "drain" ELSE "admitted"

OwnRequest(r) == brings[r][1]
GlobalRequest(r) == CHOOSE n \in {OwnRequest(q) : q \in Rank} : \A q \in Rank : OwnRequest(q) <= n

\* The all-reduce of the requests.  Under pressure Stream 4 is flushed first.
AgreeRequest ==
    /\ All("request")
    /\ GotoAll([r \in Rank |-> CASE GlobalRequest(r) = 0 -> Settled(r)
                                 [] GlobalRequest(r) = 1 -> "histogram"
                                 [] GlobalRequest(r) = 2 -> "drain"])
    /\ then' = [r \in Rank |-> IF GlobalRequest(r) = 2 THEN "histogram" ELSE "flush"]
    /\ brings' = Start(<<>>)
    /\ UNCHANGED <<stage, cursor, round, rounds, seen, room, torn, queueVars, streamVars,
                   bankVars, threshold, initialized, beam>>

\* drain_pending_stream4_shards and wait_all_stream4_slots
Drain(r) ==
    /\ pc[r] = "drain"
    /\ \/ /\ Done(r) # {} \/ Launches(r) # {{}}
          /\ \E S \in Launches(r) : Reschedule(r, S)
          /\ UNCHANGED pc
       \/ /\ Busy(r) = {} /\ pending \cap Banks(r) = {}
          /\ Goto(r, IF then[r] = "flush" THEN "flush" ELSE "compact")
          /\ UNCHANGED queueVars
    /\ UNCHANGED <<stage, then, cursor, round, rounds, seen, room, torn, brings, streamVars,
                   bankVars, threshold, initialized, beam>>

\* Sort the banks of `which` of a rank whose streams are idle, one after another.
SortBanks(which) ==
    /\ clean' = [p \in Bank |-> IF p \in which THEN Sorted(p) ELSE clean[p]]
    /\ dirty' = [p \in Bank |-> IF p \in which THEN {} ELSE dirty[p]]
    /\ hist' = [p \in Bank |-> IF p \in which THEN Sorted(p) ELSE hist[p]]
    /\ UNCHANGED <<processing, writeIdx, ready>>

\* pressure_flush_stream4, once before the update and once after it.
Compact(r) ==
    /\ pc[r] = "compact" /\ Goto(r, then[r])
    /\ SortBanks(Banks(r))
    /\ jobs' = [jobs EXCEPT ![r] = IF then[r] = "histogram" THEN UpdatePeriod ELSE 0]
    /\ UNCHANGED <<stage, then, cursor, round, rounds, seen, room, torn, brings, pending,
                   job, streamVars, threshold, initialized, beam>>
-----------------------------------------------------------------------------
(* The threshold update.                                                   *)

Prefix(p, t) == AtMost(hist[p], t)

\* The banks of a shard may hold the same states: the larger one counts.
PairBound(p, t) ==
    LET a == Cardinality(Prefix(p, t))
        b == Cardinality(Prefix(Sibling(p), t))
    IN IF a < b THEN b ELSE a

\* After a pressure flush their union is counted exactly.
PairUnion(p, t) ==
    Cardinality(AtMost(BestPerState(clean[p] \cup clean[Sibling(p)]), t))

\* The sum of the sizes of the sets F[x]: what a reduction makes of counts.
Total(F) == Cardinality(UNION {{x} \X F[x] : x \in DOMAIN F})

Cutoffs == Scores \cup {NoThreshold}
LocalCounts(r) == [t \in Cutoffs |->
    Total([l \in Shard |-> 1..(IF then[r] = "histogram" THEN PairUnion(<<r, l, 0>>, t)
                               ELSE PairBound(<<r, l, 0>>, t))])]

\* The histogram of a rank is taken when it enters the update.
TakeHistogram(r) ==
    /\ pc[r] = "histogram" /\ Goto(r, "update")
    /\ brings' = [brings EXCEPT ![r] = <<LocalCounts(r)>>]
    /\ UNCHANGED <<stage, then, cursor, round, rounds, seen, room, torn, queueVars,
                   streamVars, bankVars, threshold, initialized, beam>>

GlobalCount(t) == Total([r \in Rank |-> 1..brings[r][1][t]])
Cutoff == CHOOSE t \in Scores :
    /\ GlobalCount(t) >= BeamWidth
    /\ \A u \in Scores : GlobalCount(u) >= BeamWidth => t <= u

\* The all-reduce of the histograms; every rank publishes the same cutoff.
UpdateThreshold ==
    /\ All("update")
    /\ IF GlobalCount(NoThreshold) >= BeamWidth
       THEN /\ threshold' = [r \in Rank |->
                   IF ~initialized[r] \/ Cutoff < threshold[r] THEN Cutoff ELSE threshold[r]]
            /\ initialized' = Start(TRUE)
       ELSE UNCHANGED <<threshold, initialized>>
    /\ GotoAll([r \in Rank |-> IF then[r] = "histogram" THEN "drain" ELSE Settled(r)])
    /\ then' = [r \in Rank |-> IF then[r] = "histogram" THEN "admitted" ELSE then[r]]
    /\ jobs' = Start(0) /\ brings' = Start(<<>>)
    /\ UNCHANGED <<stage, cursor, round, rounds, seen, room, torn, pending, job, streamVars,
                   bankVars, beam>>
-----------------------------------------------------------------------------
(* A round: Stream 3, the exchange, and the collection of what came in.     *)

\* The round is reserved, or there is still no room after the update.
Launch(r) ==
    /\ pc[r] = "admitted"
    /\ IF ~room[r] /\ ~Writable(r, [p \in Bank |-> Used(p)])
       THEN Goto(r, "failed") /\ UNCHANGED <<cursor, s3phase, outgoing>>
       ELSE IF stage[r] = "loop"
       THEN /\ Goto(r, "pass")
            /\ s3phase' = [s3phase EXCEPT ![r] = "launched"]
            /\ cursor' = [cursor EXCEPT ![r] = @ + 1]
            /\ UNCHANGED outgoing
       ELSE /\ Goto(r, "counts")
            /\ outgoing' = [outgoing EXCEPT ![r] = {}]
            /\ UNCHANGED <<cursor, s3phase>>
    /\ UNCHANGED <<stage, then, round, rounds, seen, room, torn, brings, queueVars, incoming,
                   fatal, offered, bankVars, threshold, initialized, beam>>

OwnedBy(rows, r) == {c \in rows : OwnerOf[StateOf[c]] = r}

\* Pack by the threshold, drop duplicates, split by owner, append what is local.
Stream3Append(r) ==
    LET batch == Loads[r][cursor[r] - 1]
        kept == BestPerState(AtMost(batch, threshold[r]))
    IN /\ s3phase[r] = "launched"
       /\ s3phase' = [s3phase EXCEPT ![r] = "appended"]
       /\ AppendRows(r, OwnedBy(kept, r))
       /\ outgoing' = [outgoing EXCEPT ![r] = kept \ OwnedBy(kept, r)]
       /\ offered' = offered \cup batch
       /\ UNCHANGED <<hostVars, queueVars, incoming, clean, processing, ready, hist,
                      threshold, initialized, beam>>

Stream3BuildReady(r) ==
    /\ s3phase[r] = "appended"
    /\ s3phase' = [s3phase EXCEPT ![r] = "done"]
    /\ BuildReadyQueue(r)
    /\ UNCHANGED <<hostVars, queueVars, outgoing, incoming, fatal, offered, clean, dirty,
                   hist, threshold, initialized, beam>>

SentTo(r) == UNION {OwnedBy(outgoing[q], r) : q \in Rank \ {r}}

\* stream5_exchange_counts_nccl; a rank that would receive too much gives up.
ExchangeCounts ==
    /\ All("counts")
    /\ GotoAll([r \in Rank |-> IF Cardinality(SentTo(r)) > RecvCapacity THEN "failed"
                               ELSE "payload"])
    /\ UNCHANGED <<stage, then, cursor, round, rounds, seen, room, torn, brings, queueVars,
                   streamVars, bankVars, threshold, initialized, beam>>

\* stream5_exchange_payload_nccl
ExchangePayload ==
    /\ All("payload") /\ GotoAll(Start("collect"))
    /\ incoming' = [r \in Rank |-> SentTo(r)] /\ outgoing' = Start({})
    /\ UNCHANGED <<stage, then, cursor, round, rounds, seen, room, torn, brings, queueVars,
                   s3phase, fatal, offered, bankVars, threshold, initialized, beam>>

\* stream3_collect_remote_recv, its fatal check, and the end of the round.
Collect(r) ==
    /\ pc[r] = "collect"
    /\ AppendRows(r, incoming[r])
    /\ IF fatal'[r]
       THEN Goto(r, "failed") /\ UNCHANGED <<round, s3phase, pending, ready>>
       ELSE /\ \/ Goto(r, "launch")
               \/ stage[r] = "loop" /\ Goto(r, "pass")
            /\ round' = [round EXCEPT ![r] = @ + 1]
            /\ s3phase' = [s3phase EXCEPT ![r] = "idle"]
            /\ pending' = pending \cup (ready \cap Banks(r)) /\ ready' = ready \ Banks(r)
    /\ incoming' = [incoming EXCEPT ![r] = {}]
    /\ UNCHANGED <<stage, then, cursor, rounds, seen, room, torn, brings, jobs, job, outgoing,
                   offered, clean, processing, hist, threshold, initialized, beam>>

\* A Stream 4 job prunes and sorts its bank, publishes the histogram, gives the
\* bank back and signals.
Stream4Job(p) ==
    /\ job[p] = "running"
    /\ job' = [job EXCEPT ![p] = "done"]
    /\ clean' = [clean EXCEPT ![p] = Sorted(p)]
    /\ dirty' = [dirty EXCEPT ![p] = {}]
    /\ hist' = [hist EXCEPT ![p] = Sorted(p)]
    /\ processing' = [processing EXCEPT ![p] = FALSE]
    /\ UNCHANGED <<hostVars, jobs, pending, streamVars, writeIdx, ready, threshold,
                   initialized, beam>>
-----------------------------------------------------------------------------
(* The end of the depth.                                                   *)

\* The final flush leaves no dirty row; which clean banks it sorts again depends
\* on how many rounds the dirty ones take.
Flush(r) ==
    /\ pc[r] = "flush" /\ Goto(r, "select")
    /\ \E again \in SUBSET Banks(r) : SortBanks({p \in Banks(r) : dirty[p] # {}} \cup again)
    /\ UNCHANGED <<stage, then, cursor, round, rounds, seen, room, torn, brings, queueVars,
                   streamVars, threshold, initialized, beam>>

Union(r) == UNION {BestPerState(clean[<<r, l, 0>>] \cup clean[<<r, l, 1>>]) : l \in Shard}
Everything == UNION {Union(r) : r \in Rank}
Reaching == {t \in Scores : Cardinality(AtMost(Everything, t)) >= BeamWidth}
FinalThreshold == IF Reaching = {} THEN NoThreshold ELSE Min(Reaching)
Less(r) == {c \in Union(r) : Score[c] < FinalThreshold}
Equal(r) == {c \in Union(r) : Score[c] = FinalThreshold}

Lower(r) == {q \in Rank : q < r}
TotalLess == Total([q \in Rank |-> Less(q)])

TieRoomOfAll(r) == BeamWidth - TotalLess

\* The places left for the ties of rank r once the lower ranks have taken theirs.
TieRoom(r) ==
    LET taken == TotalLess + Total([q \in Lower(r) |-> Equal(q)])
    IN IF BeamWidth > taken THEN BeamWidth - taken ELSE 0

Picks(r) == {S \in SUBSET Equal(r) : Cardinality(S) = Smaller(TieRoom(r), Cardinality(Equal(r)))}

\* The exact threshold from the histograms of all ranks, and the share of each.
Select ==
    /\ All("select") /\ GotoAll(Start("done"))
    /\ \E ties \in {f \in [Rank -> UNION {Picks(r) : r \in Rank}] : \A r \in Rank : f[r] \in Picks(r)} :
         beam' = UNION {Less(r) \cup ties[r] : r \in Rank}
    /\ UNCHANGED <<stage, then, cursor, round, rounds, seen, room, torn, brings, queueVars,
                   streamVars, bankVars, threshold, initialized>>

\* All have returned, or one has thrown and the others may wait for ever.
Ended == (All("done") \/ \E r \in Rank : pc[r] = "failed") /\ UNCHANGED vars

Step(r) ==
    \/ Serve(r) \/ FinishStream3(r) \/ LeaveLoop(r) \/ TailRound(r)
    \/ CopyCleanCounts(r) \/ CopyDirtyCounts(r) \/ CopyProcessingFlags(r)
    \/ Drain(r) \/ Compact(r) \/ TakeHistogram(r) \/ Launch(r) \/ Collect(r) \/ Flush(r)

Stream3(r) == Stream3Append(r) \/ Stream3BuildReady(r)

Collective ==
    \/ AgreeRounds \/ AgreeRequest \/ UpdateThreshold
    \/ ExchangeCounts \/ ExchangePayload \/ Select

Next ==
    \/ Collective \/ Ended
    \/ \E r \in Rank : Step(r) \/ Stream3(r) \/ \E p \in Banks(r) : Stream4Job(p)

Spec == Init /\ [][Next]_vars
-----------------------------------------------------------------------------
(* Properties.                                                             *)

Waiting == {"rounds", "request", "update", "counts", "payload", "select"}

\* "Preserves Stream5's exchange-round order across ranks": ranks that wait in a
\* collective wait in the same one, of the same round, and no rank has returned
\* while another still waits (dispatcher.cu:3845, 4109-4126).
RoundsInStep ==
    \A q, r \in Rank : pc[q] \in Waiting =>
        /\ pc[r] # "done"
        /\ pc[r] \in Waiting =>
             /\ pc[q] = pc[r] /\ round[q] = round[r]
             /\ (stage[q] = "end") <=> (stage[r] = "end")

\* "Local collection preserves the pre-admitted receive credit": a rank whose
\* room was checked on counters of one moment overflows no bank, neither with its
\* own batch nor with what the peers send (dispatcher.cu:3524).
CreditKept == \A r \in Rank : fatal[r] => torn[r]

\* What the ring loads of all ranks generate.
AllGenerated == UNION {UNION {Loads[r][i] : i \in DOMAIN Loads[r]} : r \in Rank}

\* However the rounds, updates and sorts of the ranks interleave, what they keep
\* together is a correct beam of all that they generated.
Depth == INSTANCE BeamDepth WITH
    Generated <- <<AllGenerated>>,
    depthsDone <- IF All("done") THEN 1 ELSE 0,
    ended <- \E r \in Rank : pc[r] = "failed"

ImplementsBeamDepth == Depth!Spec
=============================================================================
