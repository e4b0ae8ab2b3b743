--------------------------- MODULE FrontierExchange ---------------------------
(***************************************************************************)
(* The end of a depth on several ranks, from the moment each has counted    *)
(* its candidates below and at the final threshold: finalize_depth when     *)
(* WORLD_SIZE > 1.  The kept candidates have an order over all ranks, those *)
(* below the threshold first, and are dealt out evenly in it; their states  *)
(* are made on the rank that holds the parent.  This goes on in rounds of a *)
(* chunk of candidates: history records to the new owner, requests to the   *)
(* rank of the parent, responses to the new owner.  A response travels      *)
(* while the next round begins and is taken from its slot when the slot is  *)
(* used again.                                                              *)
(*                                                                         *)
(* A candidate is the pair of the rank that selected it and its number.     *)
(***************************************************************************)
EXTENDS Integers, SequencesExt

CONSTANTS
    Rank,          \* the ranks, numbered from 0
    MayBeLess,     \* what `less` and `equal` may be
    MayBeEqual,
    Source,        \* Source[r][i]: the rank with the parent of <<r, i>>
    BeamWidth,
    Chunk,         \* final_materialize_chunk_capacity
    Capacity       \* final_materialize_exchange_capacity

FrontierAssumption ==
    /\ Rank = 0..(Cardinality(Rank) - 1) /\ Cardinality(Rank) > 1
    /\ BeamWidth \in Nat \ {0} /\ Chunk \in Nat \ {0} /\ Capacity >= Chunk

VARIABLES
    less, equal,   \* less_counts, equal_counts
    pc, round,
    items,         \* the chunk of a rank: records and requests
    work,          \* the requests a rank has to answer
    sending,       \* responses in flight to a rank, with their slot
    slot,          \* slot_response_recv_total and the received responses
    records, responses,   \* history_recv_total_all, response_recv_total_all
    history, next, frontier

hostVars == <<pc, round, records, responses>>
vars == <<less, equal, hostVars, items, work, sending, slot, history, next, frontier>>

Slots == 0..2
World == Cardinality(Rank)
Least(m, n) == IF m < n THEN m ELSE n
CeilDiv(m, n) == (m + n - 1) \div n
Lower(r) == {q \in Rank : q < r}
Sum(count, ranks) == MapThenSumSet(LAMBDA q : count[q], ranks)
-----------------------------------------------------------------------------
(* What is kept, and whose it will be.                                      *)

GlobalLess == Sum(less, Rank)
Keep == Least(BeamWidth, GlobalLess + Sum(equal, Rank))

EqualBegin(r) == GlobalLess + Sum(equal, Lower(r))
EqualRoom(r) == IF Keep > EqualBegin(r) THEN Keep - EqualBegin(r) ELSE 0
SelectedCount(r) == less[r] + Least(equal[r], EqualRoom(r))

\* The place of the i-th candidate of rank r, from 0, among all that are kept.
Place(r, i) == IF i < less[r] THEN Sum(less, Lower(r)) + i ELSE EqualBegin(r) + i - less[r]

BeginDown(r) == (r * Keep) \div World  \* mutant: rounded like target_rank
Begin(r) == CeilDiv(r * Keep, World)
TargetCount(r) == Begin(r + 1) - Begin(r)
TargetRank(place) == Least((place * World) \div Keep, World - 1)

\* target_local_idx
LocalIdx(place) == place - Begin(TargetRank(place))

\* final_build_materialize_chunk_kernel: record and request of a candidate.
Item(r, i) == [cand |-> <<r, i>>, idx |-> LocalIdx(Place(r, i)), to |-> TargetRank(Place(r, i))]

Rounds == CeilDiv(Max({SelectedCount(r) : r \in Rank}), Chunk)
ChunkBegin(r) == round[r] * Chunk
ChunkEnd(r) == Least(ChunkBegin(r) + Chunk, SelectedCount(r))
ChunkOf(r) == [n \in 1..Max({0, ChunkEnd(r) - ChunkBegin(r)}) |-> Item(r, ChunkBegin(r) + n - 1)]

\* The state that a move makes of a parent, which a request names by its index.
Parent(c) == 10 * c[1] + c[2]
StateMade(rank, c) == <<frontier[rank][Parent(c)], "move", c>>

Start(x) == [r \in Rank |-> x]

\* The final threshold is the least that enough candidates reach; if there are
\* not enough, all are below it.
Init ==
    /\ less \in [Rank -> MayBeLess] /\ equal \in [Rank -> MayBeEqual]
    /\ GlobalLess < BeamWidth
    /\ Sum(equal, Rank) # 0 => GlobalLess + Sum(equal, Rank) >= BeamWidth
    /\ pc = Start("open") /\ round = Start(0)
    /\ items = Start(<<>>) /\ work = Start({}) /\ sending = Start({})
    /\ slot = [r \in Rank |-> [s \in Slots |-> {}]]
    /\ records = Start(0) /\ responses = Start(0)
    /\ history = Start(<<>>) /\ next = Start(<<>>)
    /\ frontier = [r \in Rank |-> [p \in {Parent(<<q, i>>) : q \in Rank, i \in 0..9} |-> <<r, p>>]]

All(at) == \A r \in Rank : pc[r] = at
Goto(r, to) == pc' = [pc EXCEPT ![r] = to]

\* Write what `made` says into a table of states or records.
Written(table, made) ==
    [i \in DOMAIN table \cup {x.idx : x \in made} |->
        IF \E x \in made : x.idx = i THEN (CHOOSE x \in made : x.idx = i).value ELSE table[i]]
-----------------------------------------------------------------------------
(* A round.                                                                *)

InFlight(r, s) == \E x \in sending[r] : x.slot = s

\* drain_response_slot, for the slots `which` of a rank.
Drain(r, which) ==
    LET drained == UNION {slot[r][s] : s \in which}
    IN /\ \A s \in which : ~InFlight(r, s)
       /\ next' = [next EXCEPT ![r] = Written(next[r], drained)]
       /\ responses' = [responses EXCEPT ![r] = @ + Cardinality(drained)]
       /\ slot' = [slot EXCEPT ![r] = [s \in Slots |-> IF s \in which THEN {} ELSE slot[r][s]]]

\* The slot of the round is freed and the chunk is built.
Open(r) ==
    /\ pc[r] = "open" /\ round[r] < Rounds
    /\ Goto(r, "history")
    /\ Drain(r, {round[r] % 3})
    /\ items' = [items EXCEPT ![r] = ChunkOf(r)]
    /\ UNCHANGED <<less, equal, round, records, work, sending, history, frontier>>

\* fill_target_plan_for_chunk: how much of the chunk falls into the range of rank
\* t, reckoned by the host from the places alone.
Overlap(begin, end, t) == Max({0, Least(end, Begin(t + 1)) - Max({begin, Begin(t)})})
PlanCount(r, t) ==
    LET lessEnd == Least(ChunkEnd(r), less[r])
        equalFirst == Max({ChunkBegin(r), less[r]})
    IN (IF ChunkBegin(r) < less[r]
        THEN Overlap(Place(r, ChunkBegin(r)), Place(r, ChunkBegin(r)) + lessEnd - ChunkBegin(r), t)
        ELSE 0)
       + (IF ChunkEnd(r) > less[r]
          THEN Overlap(Place(r, equalFirst), Place(r, equalFirst) + ChunkEnd(r) - equalFirst, t)
          ELSE 0)

\* The records a rank sends lie one after another, in the order of the ranks.
PlanOffset(r, t) == MapThenSumSet(LAMBDA q : PlanCount(r, q), Lower(t))
RecordsTo(r, t) == SubSeq(items[r], PlanOffset(r, t) + 1, PlanOffset(r, t) + PlanCount(r, t))
RecordsFor(t) == UNION {ToSet(RecordsTo(r, t)) : r \in Rank}

\* exchange_u64_items, history_chunk.  Stream 5 has delivered the responses of the
\* round before when it counts the records.
ExchangeHistory ==
    /\ All("history") /\ \A r \in Rank : sending[r] = {}
    /\ pc' = [r \in Rank |-> IF Cardinality(RecordsFor(r)) > Capacity THEN "overfull" ELSE "request"]
    /\ history' = [r \in Rank |->
           Written(history[r], {[idx |-> x.idx, value |-> x.cand] : x \in RecordsFor(r)})]
    /\ records' = [r \in Rank |-> records[r] + Cardinality(RecordsFor(r))]
    /\ UNCHANGED <<less, equal, round, responses, items, work, sending, slot, next, frontier>>

SourceOf(c) == Source[c[1]][c[2] + 1]
RequestsFor(t) == UNION {{x \in ToSet(items[r]) : SourceOf(x.cand) = t} : r \in Rank}

\* request_chunk: grouped by the rank that holds the parent, its own kept aside.
ExchangeRequests ==
    /\ All("request")
    /\ pc' = [r \in Rank |-> IF Cardinality(RequestsFor(r)) > Capacity THEN "overfull" ELSE "answer"]
    /\ work' = [r \in Rank |-> RequestsFor(r)]
    /\ items' = Start(<<>>)
    /\ UNCHANGED <<less, equal, round, records, responses, sending, slot, history, next, frontier>>

Answers(r, t) == {[idx |-> x.idx, value |-> StateMade(r, x.cand)] : x \in {y \in work[r] : y.to = t}}

\* final_materialize_cuda: what the rank keeps itself goes straight into its next
\* frontier.
Answer(r) ==
    /\ pc[r] = "answer" /\ Goto(r, "response")
    /\ next' = [next EXCEPT ![r] = Written(next[r], Answers(r, r))]
    /\ responses' = [responses EXCEPT ![r] = @ + Cardinality(Answers(r, r))]
    /\ UNCHANGED <<less, equal, round, records, items, work, sending, slot, history, frontier>>

ResponsesFor(t) == UNION {Answers(r, t) : r \in Rank \ {t}}

\* response_chunk: the counts are exchanged, the responses start on their way.
ExchangeResponses ==
    /\ All("response")
    /\ pc' = [r \in Rank |-> IF Cardinality(ResponsesFor(r)) > Capacity THEN "overfull" ELSE "open"]
    /\ sending' = [r \in Rank |-> {[slot |-> round[r] % 3, response |-> x] : x \in ResponsesFor(r)}]
    /\ work' = Start({})
    /\ round' = [r \in Rank |-> round[r] + 1]
    /\ UNCHANGED <<less, equal, records, responses, items, slot, history, next, frontier>>

\* Stream 5 delivers them.
Deliver(r) ==
    /\ sending[r] # {}
    /\ sending' = [sending EXCEPT ![r] = {}]
    /\ slot' = [slot EXCEPT ![r] = [s \in Slots |->
           slot[r][s] \cup {x.response : x \in {y \in sending[r] : y.slot = s}}]]
    /\ UNCHANGED <<less, equal, hostVars, items, work, history, next, frontier>>

\* All slots are drained, the totals compared, and the frontier is replaced.
Finish(r) ==
    /\ pc[r] = "open" /\ round[r] = Rounds
    /\ Drain(r, Slots)
    /\ IF records[r] = TargetCount(r) /\ responses'[r] = TargetCount(r)
       THEN /\ Goto(r, "done")
            /\ frontier' = [frontier EXCEPT ![r] = next'[r]]
       ELSE Goto(r, "mismatch") /\ UNCHANGED frontier
    /\ UNCHANGED <<less, equal, round, records, items, work, sending, history>>

\* All have returned, or one has thrown and the others may wait for ever.
Ended == (All("done") \/ \E r \in Rank : pc[r] \in {"overfull", "mismatch"}) /\ UNCHANGED vars

Next ==
    \/ ExchangeHistory \/ ExchangeRequests \/ ExchangeResponses \/ Ended
    \/ \E r \in Rank : Open(r) \/ Answer(r) \/ Deliver(r) \/ Finish(r)

Spec == Init /\ [][Next]_vars
-----------------------------------------------------------------------------
(* Properties.                                                             *)

\* All kept candidates: those below the threshold rank by rank, then the ties.
Kept == SubSeq(FlattenSeq([n \in 1..World |-> [i \in 1..less[n - 1] |-> <<n - 1, i - 1>>]])
               \o FlattenSeq([n \in 1..World |-> [i \in 1..equal[n - 1] |-> <<n - 1, less[n - 1] + i - 1>>]]),
               1, Keep)

\* "history recv count does not match local final target count" is never thrown:
\* a rank that is done has, at every place of its even share of the kept
\* candidates, the record of the candidate of that place and the state which its
\* move makes of its parent on the rank that held it (dispatcher.cu:5079-5084).
FrontierComplete == \A r \in Rank :
    /\ pc[r] # "mismatch"
    /\ pc[r] = "done" =>
         /\ TargetCount(r) \in {Keep \div World, CeilDiv(Keep, World)}
         /\ DOMAIN history[r] = 0..(TargetCount(r) - 1) /\ DOMAIN frontier[r] = DOMAIN history[r]
         /\ \A i \in DOMAIN history[r] :
              LET c == Kept[Begin(r) + i + 1]
              IN history[r][i] = c /\ frontier[r][i] = <<<<SourceOf(c), Parent(c)>>, "move", c>>
=============================================================================
