--------------------------- MODULE ExchangeProofs ---------------------------
(***************************************************************************)
(* The ranks of a depth stay in the same collectives, and the room a round  *)
(* reserves is there when the rows arrive, whatever the ranks are given to  *)
(* expand and however many they are.                                       *)
(*                                                                         *)
(* Between two collectives a rank goes through one segment of its program;  *)
(* the ranks that have not failed are in the same segment of the same       *)
(* round.  Which segment follows a request depends on whether rounds are    *)
(* left, and a rank takes part in a round exactly if some are.  From the    *)
(* check of a round to its end every shard keeps a bank with room, first    *)
(* for the batch and all that may be received, then for what is received.   *)
(*                                                                         *)
(* What they make of the depth together: no row is lost between a rank,    *)
(* the wire and the bank of its owner unless the threshold of all ranks    *)
(* excludes it, and what the final selection picks is a correct beam of    *)
(* all that the ranks generate, for every number of ranks, division of the *)
(* loads, shard, capacity and order of rounds, sorts and threshold updates.*)
(***************************************************************************)
EXTENDS ExchangeRounds, CandidateProofs

\* The segment that rank r is in; the others have a single position.
Segment(r) ==
    IF pc[r] = "pass" THEN IF s3phase[r] = "idle" THEN "seek" ELSE "go"
    ELSE IF pc[r] \in {"drain", "compact"}
    THEN IF then[r] = "histogram" THEN "update" ELSE IF then[r] = "admitted" THEN "go" ELSE "finish"
    ELSE IF pc[r] \in {"launch", "tail", "admit", "copyDirty", "copyProcessing", "request",
                       "collect"}
    THEN "seek"
    ELSE IF pc[r] \in {"histogram", "update"} THEN "update"
    ELSE IF pc[r] \in {"admitted", "counts"} THEN "go"
    ELSE IF pc[r] \in {"flush", "select"} THEN "finish"
    ELSE pc[r]

\* The round it is in, which collecting completes.
Entered(r) == IF pc[r] = "collect" THEN round[r] + 1 ELSE round[r]

Together ==
    \A q, r \in Rank : pc[q] # "failed" /\ pc[r] # "failed" =>
        Segment(q) = Segment(r) /\ Entered(q) = Entered(r)

\* What the ranks agreed on last.
SameCourse ==
    \A q, r \in Rank : then[q] = then[r] /\ rounds[q] = rounds[r]

Maps ==
    /\ DOMAIN pc = Rank /\ DOMAIN s3phase = Rank
    /\ stage \in [Rank -> {"loop", "tail", "end"}]
    /\ then \in [Rank -> {"flush", "histogram", "admitted"}]
    /\ cursor \in [Rank -> Nat] /\ round \in [Rank -> Nat] /\ rounds \in [Rank -> Nat]
    /\ DOMAIN brings = Rank

\* Where a rank may be in each stage, and Stream 3 with it.
StageFits(r) ==
    /\ pc[r] \in {"rounds", "pass"} => stage[r] = "loop"
    /\ pc[r] = "tail" => stage[r] = "tail"
    /\ pc[r] \in {"launch", "admit", "copyDirty", "copyProcessing", "compact", "admitted",
                  "counts", "payload", "collect"} => stage[r] # "end"
    /\ pc[r] \in {"flush", "select", "done"} => stage[r] = "end"
    /\ pc[r] = "drain" => (stage[r] = "end" <=> then[r] = "flush")
    /\ pc[r] = "compact" => then[r] # "flush"
    /\ pc[r] \in {"histogram", "update"} =>
          then[r] # "admitted" /\ (stage[r] = "end" => then[r] = "flush")
    /\ s3phase[r] # "idle" =>
          stage[r] = "loop" /\ pc[r] \in {"pass", "counts", "payload", "collect", "failed"}
    /\ stage[r] = "loop" /\ pc[r] \in {"counts", "payload", "collect"} => s3phase[r] # "idle"

\* Loads and rounds of a rank: in the loop every load is a round, and a rank that
\* is past the test has rounds left or is at its end.
Underway(r) ==
    \/ s3phase[r] # "idle"
    \/ pc[r] \in {"admit", "copyDirty", "copyProcessing", "request", "drain", "compact",
                  "histogram", "update", "admitted", "counts", "payload", "collect"}
RoundsFit(r) ==
    /\ pc[r] = "rounds" => brings[r] = <<Len(Loads[r])>>
    /\ pc[r] # "rounds" => Len(Loads[r]) <= rounds[r]
    /\ stage[r] = "loop" => cursor[r] = round[r] + (IF s3phase[r] = "idle" THEN 1 ELSE 2)
    /\ Underway(r) => (stage[r] # "end" <=> round[r] < rounds[r])
    /\ pc[r] = "request" => /\ brings[r] \in {<<0>>, <<1>>, <<2>>}
                            /\ stage[r] = "end" => brings[r] # <<2>>

StepInv ==
    /\ Maps /\ SameCourse /\ Together
    /\ \A r \in Rank : StageFits(r) /\ RoundsFit(r)

-----------------------------------------------------------------------------
(* What the ranks agree on.                                                *)

\* A finite set of numbers that is not empty has a greatest one.
LEMMA Greatest ==
  ASSUME NEW S \in SUBSET Nat, S # {}, IsFiniteSet(S)
  PROVE  \E m \in S : \A n \in S : n <= m
<1> DEFINE From(x) == {y \in S : x <= y}
           Above == {From(x) : x \in S}
<1>1. Above \subseteq FiniteSubsetsOf(S) /\ Above # {}
  <2>1. \A x \in S : From(x) \subseteq S /\ IsFiniteSet(From(x))
    BY FS_Subset
  <2> QED
    BY <2>1 DEF FiniteSubsetsOf
<1>2. PICK T \in Above : \A U \in Above : <<U, T>> \notin StrictSubsetOrdering(S)
  <2> HIDE DEF Above
  <2> QED
    BY <1>1, FS_StrictSubsetOrderingWellFounded, WFMin
<1>3. PICK m \in S : T = From(m)
  BY <1>2
<1>4. ASSUME NEW n \in S, m < n PROVE FALSE
  <2>1. From(n) \subseteq From(m) /\ m \in From(m) /\ m \notin From(n)
    <3>1. \A y \in S : n <= y => m <= y
      BY <1>4
    <3>2. m <= m /\ ~(n <= m)
      BY <1>4
    <3> QED
      BY <3>1, <3>2
  <2>2. From(n) \in Above /\ From(n) \in SUBSET S /\ From(m) \in SUBSET S
    OBVIOUS
  <2> QED
    BY <1>2, <1>3, <2>1, <2>2 DEF StrictSubsetOrdering
<1> QED
  BY <1>4

\* There are finitely many ranks, and one at least.
LEMMA RankFinite ==
  ASSUME ExchangeAssumption
  PROVE  IsFiniteSet(Rank) /\ Rank # {}
<1>1. Cardinality(Rank) \in Nat
  BY FS_CardinalityType DEF ExchangeAssumption
<1>2. PICK n \in Nat : Cardinality(Rank) = n
  BY <1>1
<1>3. Rank = 0..(n - 1) /\ n > 1
  BY <1>2 DEF ExchangeAssumption
<1>4. 0 \in Rank
  BY <1>3
<1> QED
  BY <1>4 DEF ExchangeAssumption

\* One of the ranks brings the most.
LEMMA MostBrought ==
  ASSUME ExchangeAssumption, NEW f \in [Rank -> Nat]
  PROVE  \E m \in Rank : \A q \in Rank : f[q] <= f[m]
<1> DEFINE S == {f[q] : q \in Rank}
<1>1. IsFiniteSet(S) /\ S # {} /\ S \in SUBSET Nat
  <2>1. f \in Surjection(Rank, S)
    BY DEF Surjection
  <2> QED
    BY <2>1, RankFinite, FS_Surjection
<1>2. PICK n \in S : \A k \in S : k <= n
  <2> HIDE DEF S
  <2> QED
    BY <1>1, Greatest
<1> QED
  BY <1>2

\* The rounds agreed on are enough for the loads of every rank.
LEMMA RoundsAgreed ==
  ASSUME ExchangeAssumption, NEW r \in Rank, \A q \in Rank : OwnRounds(q) = Len(Loads[q])
  PROVE  GlobalRounds(r) \in Nat /\ \A q \in Rank : Len(Loads[q]) <= GlobalRounds(r)
<1>1. [q \in Rank |-> OwnRounds(q)] \in [Rank -> Nat]
  BY DEF ExchangeAssumption
<1>2. PICK m \in Rank : \A q \in Rank : OwnRounds(q) <= OwnRounds(m)
  BY <1>1, MostBrought
<1> QED
  BY <1>1, <1>2 DEF GlobalRounds

\* The request agreed on is the request of some rank.
LEMMA RequestAgreed ==
  ASSUME ExchangeAssumption, NEW r \in Rank, \A q \in Rank : OwnRequest(q) \in {0, 1, 2}
  PROVE  \E q \in Rank : GlobalRequest(r) = OwnRequest(q)
<1>1. [q \in Rank |-> OwnRequest(q)] \in [Rank -> Nat]
  OBVIOUS
<1>2. PICK m \in Rank : \A q \in Rank : OwnRequest(q) <= OwnRequest(m)
  BY <1>1, MostBrought
<1> QED
  BY <1>1, <1>2 DEF GlobalRequest
-----------------------------------------------------------------------------
(* A rank by itself.                                                       *)

\* A step of rank r that stays in its segment leaves the others where they are.
LEMMA AloneKeeps ==
  ASSUME StepInv, NEW r \in Rank, pc[r] # "failed",
         \A q \in Rank \ {r} : /\ pc'[q] = pc[q] /\ stage'[q] = stage[q]
                              /\ s3phase'[q] = s3phase[q] /\ cursor'[q] = cursor[q]
                              /\ round'[q] = round[q] /\ brings'[q] = brings[q],
         Maps', then' = then, rounds' = rounds,
         pc'[r] # "failed" => Segment(r)' = Segment(r) /\ Entered(r)' = Entered(r),
         StageFits(r)', RoundsFit(r)'
  PROVE  StepInv'
<1>1. \A q \in Rank \ {r} : /\ Segment(q)' = Segment(q) /\ Entered(q)' = Entered(q)
                           /\ StageFits(q)' /\ RoundsFit(q)'
  BY DEF StepInv, Segment, Entered, StageFits, RoundsFit, Underway
<1>2. Together'
  BY <1>1 DEF StepInv, Together
<1>3. SameCourse'
  BY DEF StepInv, SameCourse
<1> QED
  BY <1>1, <1>2, <1>3 DEF StepInv

\* The same for a step that changes nothing but the place of r.
LEMMA MoveKeeps ==
  ASSUME StepInv, NEW r \in Rank, NEW to, Goto(r, to), pc[r] # "failed",
         UNCHANGED <<stage, then, cursor, round, rounds, s3phase, brings>>,
         to # "failed" => Segment(r)' = Segment(r) /\ Entered(r)' = Entered(r),
         StageFits(r)', RoundsFit(r)'
  PROVE  StepInv'
<1>1. Maps' /\ pc'[r] = to /\ \A q \in Rank \ {r} : pc'[q] = pc[q]
  BY DEF StepInv, Maps, Goto
<1> QED
  BY <1>1, AloneKeeps

\* What the invariant says of rank r alone.
LEMMA Local ==
  ASSUME StepInv, NEW r \in Rank
  PROVE  /\ StageFits(r) /\ RoundsFit(r)
         /\ stage[r] \in {"loop", "tail", "end"} /\ then[r] \in {"flush", "histogram", "admitted"}
         /\ cursor[r] \in Nat /\ round[r] \in Nat /\ rounds[r] \in Nat
         /\ \A to : Goto(r, to) => pc'[r] = to
  BY DEF StepInv, Maps, Goto

\* The loop and the rounds after it.
LEMMA ServeKeeps ==
  ASSUME ExchangeAssumption, StepInv, NEW r \in Rank, Serve(r)
  PROVE  StepInv'
<1>1. UNCHANGED <<stage, then, cursor, round, rounds, s3phase, brings>>
  BY DEF Serve, streamVars
<1>2. PICK to : /\ Goto(r, to)
                /\ \/ stage[r] = "loop" /\ to = "pass"
                   \/ stage[r] = "loop" /\ to = "admit" /\ RingsLeft(r) /\ s3phase[r] = "idle"
                   \/ stage[r] = "tail" /\ to = "tail"
  BY DEF Serve
<1>3. pc[r] \in {"pass", "launch"} /\ pc'[r] = to
  BY <1>2, Local DEF Serve
<1>4. Len(Loads[r]) \in Nat
  BY DEF ExchangeAssumption
<1>5. Segment(r)' = Segment(r) /\ Entered(r)' = Entered(r) /\ StageFits(r)'
  BY <1>1, <1>2, <1>3, Local DEF StageFits, Segment, Entered
<1>6. to = "admit" => round[r] < rounds[r]
  BY <1>2, <1>3, <1>4, Local DEF RoundsFit, RingsLeft
<1>7. RoundsFit(r)'
  BY <1>1, <1>2, <1>3, <1>6, Local DEF StageFits, RoundsFit, Underway
<1> QED
  BY <1>1, <1>2, <1>3, <1>5, <1>7, MoveKeeps

\* A ring is done: its exchange begins, or the rank fails.
LEMMA FinishKeeps ==
  ASSUME StepInv, NEW r \in Rank, FinishStream3(r)
  PROVE  StepInv'
<1>1. UNCHANGED <<stage, then, cursor, round, rounds, s3phase, brings>>
  BY DEF FinishStream3, streamVars
<1>2. PICK to \in {"counts", "failed"} : Goto(r, to)
  BY DEF FinishStream3
<1>3. pc[r] = "pass" /\ pc'[r] = to /\ s3phase[r] = "done"
  BY <1>2, Local DEF FinishStream3
<1>4. /\ to # "failed" => Segment(r)' = Segment(r) /\ Entered(r)' = Entered(r)
      /\ StageFits(r)' /\ RoundsFit(r)'
  BY <1>1, <1>2, <1>3, Local DEF StageFits, RoundsFit, Underway, Segment, Entered
<1> QED
  BY <1>1, <1>2, <1>3, <1>4, MoveKeeps

\* The last ring is done, and the rounds of the others begin.
LEMMA LeaveKeeps ==
  ASSUME StepInv, NEW r \in Rank, LeaveLoop(r)
  PROVE  StepInv'
<1>1. /\ pc[r] = "pass" /\ s3phase[r] = "idle" /\ Goto(r, "tail")
      /\ stage' = [stage EXCEPT ![r] = "tail"]
      /\ UNCHANGED <<then, cursor, round, rounds, s3phase, brings>>
  BY DEF LeaveLoop, MoreToDo, streamVars
<1>2. /\ Maps' /\ pc'[r] = "tail" /\ stage'[r] = "tail"
      /\ \A q \in Rank \ {r} : pc'[q] = pc[q] /\ stage'[q] = stage[q]
  BY <1>1 DEF StepInv, Maps, Goto
<1>3. /\ Segment(r)' = Segment(r) /\ Entered(r)' = Entered(r)
      /\ StageFits(r)' /\ RoundsFit(r)'
  BY <1>1, <1>2, Local DEF StageFits, RoundsFit, Underway, Segment, Entered
<1> QED
  BY <1>1, <1>2, <1>3, AloneKeeps

\* One more round without parents, or the last request.
LEMMA TailKeeps ==
  ASSUME StepInv, NEW r \in Rank, TailRound(r)
  PROVE  StepInv'
<1>1. pc[r] = "tail" /\ UNCHANGED <<then, cursor, round, rounds, s3phase>>
  BY DEF TailRound, streamVars
<1>2. CASE TailRoundLeft(r) /\ Goto(r, "admit") /\ UNCHANGED <<stage, brings>>
  <2>1. /\ Segment(r)' = Segment(r) /\ Entered(r)' = Entered(r)
        /\ StageFits(r)' /\ RoundsFit(r)'
    BY <1>1, <1>2, Local DEF StageFits, RoundsFit, Underway, Segment, Entered, TailRoundLeft
  <2> QED
    BY <1>1, <1>2, <2>1, MoveKeeps
<1>3. CASE /\ ~TailRoundLeft(r) /\ Goto(r, "request") /\ stage' = [stage EXCEPT ![r] = "end"]
           /\ brings' = [brings EXCEPT ![r] = <<IF jobs'[r] # 0 THEN 1 ELSE 0>>]
  <2>1. /\ Maps' /\ pc'[r] = "request" /\ stage'[r] = "end" /\ brings'[r] \in {<<0>>, <<1>>}
        /\ \A q \in Rank \ {r} : /\ pc'[q] = pc[q] /\ stage'[q] = stage[q]
                                /\ brings'[q] = brings[q]
    BY <1>1, <1>3 DEF StepInv, Maps, Goto
  <2>2. <<0>> # <<2>> /\ <<1>> # <<2>>
    OBVIOUS
  <2>3. /\ Segment(r)' = Segment(r) /\ Entered(r)' = Entered(r)
        /\ StageFits(r)' /\ RoundsFit(r)'
    BY <1>1, <1>3, <2>1, <2>2, Local
       DEF StageFits, RoundsFit, Underway, Segment, Entered, TailRoundLeft
  <2> QED
    BY <1>1, <2>1, <2>3, AloneKeeps
<1> QED
  BY <1>2, <1>3 DEF TailRound

\* The admission check, up to the request it ends with.
LEMMA AdmissionKeeps ==
  ASSUME StepInv, NEW r \in Rank,
         CopyCleanCounts(r) \/ CopyDirtyCounts(r) \/ CopyProcessingFlags(r)
  PROVE  StepInv'
<1>1. UNCHANGED <<stage, then, cursor, round, rounds, s3phase>>
  BY DEF CopyCleanCounts, CopyDirtyCounts, CopyProcessingFlags, streamVars
<1>2. CASE CopyCleanCounts(r)
  <2>1. pc[r] = "admit" /\ Goto(r, "copyDirty") /\ brings' = brings
    BY <1>2 DEF CopyCleanCounts
  <2>2. /\ Segment(r)' = Segment(r) /\ Entered(r)' = Entered(r)
        /\ StageFits(r)' /\ RoundsFit(r)'
    BY <1>1, <2>1, Local DEF StageFits, RoundsFit, Underway, Segment, Entered
  <2> QED
    BY <1>1, <2>1, <2>2, MoveKeeps
<1>3. CASE CopyDirtyCounts(r)
  <2>1. pc[r] = "copyDirty" /\ Goto(r, "copyProcessing") /\ brings' = brings
    BY <1>3 DEF CopyDirtyCounts
  <2>2. /\ Segment(r)' = Segment(r) /\ Entered(r)' = Entered(r)
        /\ StageFits(r)' /\ RoundsFit(r)'
    BY <1>1, <2>1, Local DEF StageFits, RoundsFit, Underway, Segment, Entered
  <2> QED
    BY <1>1, <2>1, <2>2, MoveKeeps
<1>4. CASE CopyProcessingFlags(r)
  <2>1. /\ pc[r] = "copyProcessing" /\ Goto(r, "request")
        /\ \E n \in {0, 1, 2} : brings' = [brings EXCEPT ![r] = <<n>>]
    BY <1>4 DEF CopyProcessingFlags
  <2>2. /\ Maps' /\ pc'[r] = "request" /\ brings'[r] \in {<<0>>, <<1>>, <<2>>}
        /\ \A q \in Rank \ {r} : pc'[q] = pc[q] /\ brings'[q] = brings[q]
    BY <1>1, <2>1 DEF StepInv, Maps, Goto
  <2>3. /\ Segment(r)' = Segment(r) /\ Entered(r)' = Entered(r)
        /\ StageFits(r)' /\ RoundsFit(r)'
    BY <1>1, <2>1, <2>2, Local DEF StageFits, RoundsFit, Underway, Segment, Entered
  <2> QED
    BY <1>1, <2>1, <2>2, <2>3, AloneKeeps
<1> QED
  BY <1>2, <1>3, <1>4

\* What Stream 4 still has to do before an update, a round or the end.
LEMMA DrainKeeps ==
  ASSUME StepInv, NEW r \in Rank, Drain(r)
  PROVE  StepInv'
<1>1. pc[r] = "drain" /\ UNCHANGED <<stage, then, cursor, round, rounds, s3phase, brings>>
  BY DEF Drain, streamVars
<1>2. CASE UNCHANGED pc
  BY <1>1, <1>2 DEF StepInv, Maps, SameCourse, Together, StageFits, RoundsFit, Underway,
     Segment, Entered
<1>3. CASE Goto(r, IF then[r] = "flush" THEN "flush" ELSE "compact")
  <2>1. /\ Segment(r)' = Segment(r) /\ Entered(r)' = Entered(r)
        /\ StageFits(r)' /\ RoundsFit(r)'
    BY <1>1, <1>3, Local DEF StageFits, RoundsFit, Underway, Segment, Entered
  <2> QED
    BY <1>1, <1>3, <2>1, MoveKeeps
<1> QED
  BY <1>2, <1>3 DEF Drain

\* Sorting before and after an update, taking the histogram, the final flush.
LEMMA UpdateKeeps ==
  ASSUME StepInv, NEW r \in Rank, Compact(r) \/ TakeHistogram(r) \/ Flush(r)
  PROVE  StepInv'
<1>1. UNCHANGED <<stage, then, cursor, round, rounds, s3phase>>
  BY DEF Compact, TakeHistogram, Flush, streamVars
<1>2. CASE Compact(r)
  <2>1. pc[r] = "compact" /\ Goto(r, then[r]) /\ brings' = brings
    BY <1>2 DEF Compact
  <2>2. then[r] \in {"histogram", "admitted"} /\ pc'[r] = then[r] /\ then'[r] = then[r]
    BY <1>1, <2>1, Local DEF StageFits
  <2>3. /\ Segment(r)' = Segment(r) /\ Entered(r)' = Entered(r)
        /\ StageFits(r)' /\ RoundsFit(r)'
    BY <1>1, <2>1, <2>2, Local DEF StageFits, RoundsFit, Underway, Segment, Entered
  <2> QED
    BY <1>1, <2>1, <2>3, MoveKeeps
<1>3. CASE TakeHistogram(r)
  <2>1. /\ pc[r] = "histogram" /\ Goto(r, "update")
        /\ brings' = [brings EXCEPT ![r] = <<LocalCounts(r)>>]
    BY <1>3 DEF TakeHistogram
  <2>2. /\ Maps' /\ pc'[r] = "update"
        /\ \A q \in Rank \ {r} : pc'[q] = pc[q] /\ brings'[q] = brings[q]
    BY <1>1, <2>1 DEF StepInv, Maps, Goto
  <2>3. /\ Segment(r)' = Segment(r) /\ Entered(r)' = Entered(r)
        /\ StageFits(r)' /\ RoundsFit(r)'
    BY <1>1, <2>1, <2>2, Local DEF StageFits, RoundsFit, Underway, Segment, Entered
  <2> QED
    BY <1>1, <2>1, <2>2, <2>3, AloneKeeps
<1>4. CASE Flush(r)
  <2>1. pc[r] = "flush" /\ Goto(r, "select") /\ brings' = brings
    BY <1>4 DEF Flush
  <2>2. /\ Segment(r)' = Segment(r) /\ Entered(r)' = Entered(r)
        /\ StageFits(r)' /\ RoundsFit(r)'
    BY <1>1, <2>1, Local DEF StageFits, RoundsFit, Underway, Segment, Entered
  <2> QED
    BY <1>1, <2>1, <2>2, MoveKeeps
<1> QED
  BY <1>2, <1>3, <1>4

\* A round begins, with a ring or with nothing to send.
LEMMA LaunchKeeps ==
  ASSUME StepInv, NEW r \in Rank, Launch(r)
  PROVE  StepInv'
<1>1. pc[r] = "admitted" /\ UNCHANGED <<stage, then, round, rounds, brings>>
  BY DEF Launch
<1>2. s3phase[r] = "idle" /\ stage[r] \in {"loop", "tail"} /\ round[r] < rounds[r]
  BY <1>1, Local DEF StageFits, RoundsFit, Underway
<1>3. CASE stage[r] = "loop" /\ Goto(r, "pass") /\ s3phase' = [s3phase EXCEPT ![r] = "launched"]
           /\ cursor' = [cursor EXCEPT ![r] = @ + 1]
  <2>1. /\ Maps' /\ pc'[r] = "pass" /\ s3phase'[r] = "launched" /\ cursor'[r] = cursor[r] + 1
        /\ \A q \in Rank \ {r} : /\ pc'[q] = pc[q] /\ s3phase'[q] = s3phase[q]
                                /\ cursor'[q] = cursor[q]
    BY <1>1, <1>3 DEF StepInv, Maps, Goto
  <2>2. /\ Segment(r)' = Segment(r) /\ Entered(r)' = Entered(r)
        /\ StageFits(r)' /\ RoundsFit(r)'
    BY <1>1, <1>2, <1>3, <2>1, Local DEF StageFits, RoundsFit, Underway, Segment, Entered
  <2> QED
    BY <1>1, <2>1, <2>2, AloneKeeps
<1>4. ASSUME NEW to \in {"counts", "failed"}, Goto(r, to), to = "counts" => stage[r] # "loop",
             UNCHANGED <<cursor, s3phase>>
      PROVE  StepInv'
  <2>1. /\ to # "failed" => Segment(r)' = Segment(r) /\ Entered(r)' = Entered(r)
        /\ StageFits(r)' /\ RoundsFit(r)'
    BY <1>1, <1>2, <1>4, Local DEF StageFits, RoundsFit, Underway, Segment, Entered
  <2> QED
    BY <1>1, <1>4, <2>1, MoveKeeps
<1> QED
  BY <1>3, <1>4 DEF Launch

\* A round is over.
LEMMA CollectKeeps ==
  ASSUME StepInv, NEW r \in Rank, Collect(r)
  PROVE  StepInv'
<1>1. pc[r] = "collect" /\ UNCHANGED <<stage, then, cursor, rounds, brings>>
  BY DEF Collect
<1>2. CASE Goto(r, "failed") /\ UNCHANGED <<round, s3phase>>
  <2>1. StageFits(r)' /\ RoundsFit(r)'
    BY <1>1, <1>2, Local DEF StageFits, RoundsFit, Underway
  <2> QED
    BY <1>1, <1>2, <2>1, MoveKeeps
<1>3. ASSUME NEW to \in {"launch", "pass"}, Goto(r, to), to = "pass" => stage[r] = "loop",
             round' = [round EXCEPT ![r] = @ + 1], s3phase' = [s3phase EXCEPT ![r] = "idle"]
      PROVE  StepInv'
  <2>1. /\ Maps' /\ pc'[r] = to /\ round'[r] = round[r] + 1 /\ s3phase'[r] = "idle"
        /\ \A q \in Rank \ {r} : /\ pc'[q] = pc[q] /\ s3phase'[q] = s3phase[q]
                                /\ round'[q] = round[q]
    BY <1>1, <1>3 DEF StepInv, Maps, Goto
  <2>2. Segment(r)' = Segment(r) /\ Entered(r)' = Entered(r) /\ StageFits(r)'
    BY <1>1, <1>3, <2>1, Local DEF StageFits, Segment, Entered
  <2>3. RoundsFit(r)'
    BY <1>1, <1>3, <2>1, Local DEF StageFits, RoundsFit, Underway
  <2> QED
    BY <1>1, <2>1, <2>2, <2>3, AloneKeeps
<1> QED
  BY <1>2, <1>3 DEF Collect

\* Stream 3 moves on, even on a rank that has failed.
LEMMA Stream3Keeps ==
  ASSUME StepInv, NEW r \in Rank, Stream3(r)
  PROVE  StepInv'
<1>1. PICK to \in {"appended", "done"} :
         s3phase[r] \in {"launched", "appended"} /\ s3phase' = [s3phase EXCEPT ![r] = to]
  BY DEF Stream3, Stream3Append, Stream3BuildReady
<1>2. UNCHANGED <<pc, stage, then, cursor, round, rounds, brings>>
  BY DEF Stream3, Stream3Append, Stream3BuildReady, hostVars
<1>3. /\ Maps' /\ s3phase'[r] = to /\ \A q \in Rank \ {r} : s3phase'[q] = s3phase[q]
  BY <1>1, <1>2 DEF StepInv, Maps
<1>4. CASE pc[r] = "failed"
  <2>1. StageFits(r)' /\ RoundsFit(r)'
    BY <1>1, <1>2, <1>3, <1>4, Local DEF StageFits, RoundsFit, Underway
  <2>2. \A q \in Rank \ {r} : /\ Segment(q)' = Segment(q) /\ Entered(q)' = Entered(q)
                             /\ StageFits(q)' /\ RoundsFit(q)'
    BY <1>2, <1>3 DEF StepInv, Segment, Entered, StageFits, RoundsFit, Underway
  <2> QED
    BY <1>2, <1>3, <1>4, <2>1, <2>2 DEF StepInv, Together, SameCourse
<1>5. CASE pc[r] # "failed"
  <2>1. /\ Segment(r)' = Segment(r) /\ Entered(r)' = Entered(r)
        /\ StageFits(r)' /\ RoundsFit(r)'
    BY <1>1, <1>2, <1>3, Local DEF StageFits, RoundsFit, Underway, Segment, Entered
  <2> QED
    BY <1>2, <1>3, <1>5, <2>1, AloneKeeps
<1> QED
  BY <1>4, <1>5

\* Stream 4 does not touch what the ranks agree on.
LEMMA Stream4Keeps ==
  ASSUME StepInv, UNCHANGED <<hostVars, streamVars>>
  PROVE  StepInv'
BY DEF StepInv, Maps, SameCourse, Together, StageFits, RoundsFit, Underway, Segment, Entered,
   hostVars, streamVars
-----------------------------------------------------------------------------
(* All ranks at once.                                                      *)

\* Ranks at the same place of a round are in the same stage of the rounds.
LEMMA SameStage ==
  ASSUME StepInv, NEW at, at # "failed", All(at), NEW q \in Rank, NEW r \in Rank
  PROVE  /\ Entered(q) = Entered(r) /\ round[q] = round[r]
         /\ then[q] = then[r] /\ rounds[q] = rounds[r]
         /\ Underway(q) /\ Underway(r) => (stage[q] = "end" <=> stage[r] = "end")
<1>1. pc[q] = at /\ pc[r] = at
  BY DEF All
<1>2. Entered(q) = Entered(r) /\ then[q] = then[r] /\ rounds[q] = rounds[r]
  BY <1>1 DEF StepInv, Together, SameCourse
<1>3. round[q] = round[r]
  BY <1>1, <1>2, Local DEF Entered
<1> QED
  BY <1>2, <1>3, Local DEF RoundsFit

\* The number of rounds.
LEMMA AgreeRoundsKeeps ==
  ASSUME ExchangeAssumption, StepInv, AgreeRounds
  PROVE  StepInv'
<1>1. /\ All("rounds") /\ pc' = Start("pass") /\ rounds' = [r \in Rank |-> GlobalRounds(r)]
      /\ brings' = Start(<<>>) /\ UNCHANGED <<stage, then, cursor, round, s3phase>>
  BY DEF AgreeRounds, GotoAll, Start, streamVars
<1>2. \A q \in Rank : OwnRounds(q) = Len(Loads[q])
  BY <1>1, Local DEF All, RoundsFit, OwnRounds
<1>3. \A r \in Rank : /\ rounds'[r] \in Nat /\ Len(Loads[r]) <= rounds'[r]
                      /\ \A q \in Rank : rounds'[q] = rounds'[r]
  <2>1. \A q, r \in Rank : GlobalRounds(q) = GlobalRounds(r)
    BY DEF GlobalRounds
  <2> QED
    BY <1>1, <1>2, <2>1, RoundsAgreed
<1>4. Maps' /\ SameCourse'
  BY <1>1, <1>3 DEF StepInv, Maps, SameCourse, Start
<1>5. ASSUME NEW r \in Rank
      PROVE  /\ pc[r] = "rounds" /\ pc'[r] = "pass" /\ s3phase[r] = "idle"
             /\ StageFits(r)' /\ RoundsFit(r)' /\ Segment(r)' = "seek" /\ Entered(r)' = round[r]
  <2>1. pc[r] = "rounds" /\ pc'[r] = "pass" /\ s3phase[r] = "idle"
    BY <1>1, Local DEF All, Start, StageFits
  <2> QED
    BY <1>1, <1>3, <2>1, Local DEF StageFits, RoundsFit, Underway, Segment, Entered
<1>6. Together'
  BY <1>1, <1>5, SameStage DEF Together
<1> QED
  BY <1>4, <1>5, <1>6 DEF StepInv

\* The ranks draw the same conclusion from a request.
LEMMA AgreeRequestKeeps ==
  ASSUME ExchangeAssumption, StepInv, AgreeRequest
  PROVE  StepInv'
<1>1. /\ All("request") /\ brings' = Start(<<>>)
      /\ UNCHANGED <<stage, cursor, round, rounds, s3phase>>
  BY DEF AgreeRequest, streamVars
<1>2. \A r \in Rank : pc[r] = "request" /\ Underway(r) /\ s3phase[r] = "idle"
  BY <1>1, Local DEF All, Underway, StageFits
<1>3. \A q, r \in Rank : GlobalRequest(q) = GlobalRequest(r)
  BY DEF GlobalRequest
<1>4. \A q, r \in Rank : round[q] = round[r] /\ (stage[q] = "end" <=> stage[r] = "end")
  BY <1>1, <1>2, SameStage
<1>5. \A q \in Rank : OwnRequest(q) \in {0, 1, 2} /\ (stage[q] = "end" => OwnRequest(q) # 2)
  BY <1>2, Local DEF RoundsFit, OwnRequest
<1>6. \A r \in Rank : GlobalRequest(r) \in {0, 1, 2} /\ (stage[r] = "end" => GlobalRequest(r) # 2)
  <2>1. ASSUME NEW r \in Rank
        PROVE  GlobalRequest(r) \in {0, 1, 2} /\ (stage[r] = "end" => GlobalRequest(r) # 2)
    <3>1. PICK q \in Rank : GlobalRequest(r) = OwnRequest(q)
      BY <1>5, RequestAgreed
    <3> QED
      BY <1>4, <1>5, <3>1
  <2> QED
    BY <2>1
<1>7. ASSUME NEW r \in Rank
      PROVE  /\ pc'[r] = CASE GlobalRequest(r) = 0 -> Settled(r)
                           [] GlobalRequest(r) = 1 -> "histogram"
                           [] GlobalRequest(r) = 2 -> "drain"
             /\ then'[r] = IF GlobalRequest(r) = 2 THEN "histogram" ELSE "flush"
  BY DEF AgreeRequest, GotoAll
<1>8. Maps' /\ SameCourse'
  <2>1. /\ DOMAIN pc' = Rank /\ DOMAIN brings' = Rank
        /\ then' = [r \in Rank |-> IF GlobalRequest(r) = 2 THEN "histogram" ELSE "flush"]
    BY DEF AgreeRequest, GotoAll, Start
  <2>2. then' \in [Rank -> {"flush", "histogram", "admitted"}]
    BY <2>1
  <2>3. Maps'
    BY <1>1, <2>1, <2>2 DEF StepInv, Maps
  <2>4. SameCourse'
    BY <1>1, <1>3, <1>7 DEF StepInv, SameCourse
  <2> QED
    BY <2>3, <2>4
<1>9. ASSUME NEW r \in Rank
      PROVE  /\ StageFits(r)' /\ RoundsFit(r)' /\ Entered(r)' = round[r]
             /\ Segment(r)' = IF GlobalRequest(r) # 0 THEN "update"
                              ELSE IF stage[r] = "end" THEN "finish" ELSE "go"
  <2>1. CASE GlobalRequest(r) = 0
    <3>1. pc'[r] = Settled(r) /\ then'[r] = "flush"
      BY <1>7, <2>1
    <3> QED
      BY <1>1, <1>2, <2>1, <3>1, Local
         DEF StageFits, RoundsFit, Underway, Segment, Entered, Settled
  <2>2. CASE GlobalRequest(r) = 1
    <3>1. pc'[r] = "histogram" /\ then'[r] = "flush"
      BY <1>7, <2>2
    <3> QED
      BY <1>1, <1>2, <2>2, <3>1, Local DEF StageFits, RoundsFit, Underway, Segment, Entered
  <2>3. CASE GlobalRequest(r) = 2
    <3>1. pc'[r] = "drain" /\ then'[r] = "histogram" /\ stage[r] # "end"
      BY <1>6, <1>7, <2>3
    <3> QED
      BY <1>1, <1>2, <2>3, <3>1, Local DEF StageFits, RoundsFit, Underway, Segment, Entered
  <2> QED
    BY <1>6, <2>1, <2>2, <2>3
<1>10. Together'
  BY <1>3, <1>4, <1>9 DEF Together
<1> QED
  BY <1>8, <1>9, <1>10 DEF StepInv

\* The threshold update, which leads all to the drain, to the round or to the end.
LEMMA UpdateThresholdKeeps ==
  ASSUME StepInv, UpdateThreshold
  PROVE  StepInv'
<1>1. /\ All("update") /\ brings' = Start(<<>>)
      /\ pc' = [r \in Rank |-> IF then[r] = "histogram" THEN "drain" ELSE Settled(r)]
      /\ then' = [r \in Rank |-> IF then[r] = "histogram" THEN "admitted" ELSE then[r]]
      /\ UNCHANGED <<stage, cursor, round, rounds, s3phase>>
  BY DEF UpdateThreshold, GotoAll, streamVars
<1>2. \A r \in Rank : pc[r] = "update" /\ Underway(r) /\ s3phase[r] = "idle"
  BY <1>1, Local DEF All, Underway, StageFits
<1>3. \A q, r \in Rank : /\ round[q] = round[r] /\ then[q] = then[r]
                         /\ (stage[q] = "end" <=> stage[r] = "end")
  BY <1>1, <1>2, SameStage
<1>4. Maps' /\ SameCourse'
  BY <1>1, <1>3 DEF StepInv, Maps, SameCourse, Start
<1>5. ASSUME NEW r \in Rank
      PROVE  /\ StageFits(r)' /\ RoundsFit(r)' /\ Entered(r)' = round[r]
             /\ Segment(r)' = IF then[r] = "histogram" THEN "go"
                              ELSE IF stage[r] = "end" THEN "finish" ELSE "go"
  <2>1. CASE then[r] = "histogram"
    <3>1. pc'[r] = "drain" /\ then'[r] = "admitted"
      BY <1>1, <2>1
    <3> QED
      BY <1>1, <1>2, <2>1, <3>1, Local DEF StageFits, RoundsFit, Underway, Segment, Entered
  <2>2. CASE then[r] = "flush"
    <3>1. pc'[r] = Settled(r) /\ then'[r] = "flush"
      BY <1>1, <2>2
    <3> QED
      BY <1>1, <1>2, <2>2, <3>1, Local
         DEF StageFits, RoundsFit, Underway, Segment, Entered, Settled
  <2> QED
    BY <1>2, <2>1, <2>2, Local DEF StageFits
<1>6. Together'
  BY <1>3, <1>5 DEF Together
<1> QED
  BY <1>4, <1>5, <1>6 DEF StepInv

\* The counts: a rank that would receive too much fails by itself.
LEMMA ExchangeCountsKeeps ==
  ASSUME StepInv, ExchangeCounts
  PROVE  StepInv'
<1>1. All("counts") /\ UNCHANGED <<stage, then, cursor, round, rounds, s3phase, brings>>
  BY DEF ExchangeCounts, streamVars
<1>2. DOMAIN pc' = Rank /\ \A r \in Rank : pc'[r] \in {"failed", "payload"}
  BY DEF ExchangeCounts, GotoAll
<1>3. Maps' /\ SameCourse'
  BY <1>1, <1>2 DEF StepInv, Maps, SameCourse
<1>4. ASSUME NEW r \in Rank
      PROVE  /\ StageFits(r)' /\ RoundsFit(r)' /\ Entered(r)' = round[r]
             /\ pc'[r] # "failed" => Segment(r)' = "payload"
  BY <1>1, <1>2, Local DEF All, StageFits, RoundsFit, Underway, Segment, Entered
<1>5. Together'
  BY <1>1, <1>4, SameStage DEF Together
<1> QED
  BY <1>3, <1>4, <1>5 DEF StepInv

\* The candidates themselves; collecting them ends the round.
LEMMA ExchangePayloadKeeps ==
  ASSUME StepInv, ExchangePayload
  PROVE  StepInv'
<1>1. /\ All("payload") /\ pc' = Start("collect")
      /\ UNCHANGED <<stage, then, cursor, round, rounds, s3phase, brings>>
  BY DEF ExchangePayload, GotoAll, Start
<1>2. Maps' /\ SameCourse'
  BY <1>1 DEF StepInv, Maps, SameCourse, Start
<1>3. ASSUME NEW r \in Rank
      PROVE  /\ StageFits(r)' /\ RoundsFit(r)' /\ Segment(r)' = "seek"
             /\ Entered(r)' = round[r] + 1
  BY <1>1, Local DEF All, Start, StageFits, RoundsFit, Underway, Segment, Entered
<1>4. Together'
  BY <1>1, <1>3, SameStage DEF Together
<1> QED
  BY <1>2, <1>3, <1>4 DEF StepInv

\* The final selection.
LEMMA SelectKeeps ==
  ASSUME StepInv, Select
  PROVE  StepInv'
<1>1. /\ All("select") /\ pc' = Start("done")
      /\ UNCHANGED <<stage, then, cursor, round, rounds, s3phase, brings>>
  BY DEF Select, GotoAll, Start, streamVars
<1>2. Maps' /\ SameCourse'
  BY <1>1 DEF StepInv, Maps, SameCourse, Start
<1>3. ASSUME NEW r \in Rank
      PROVE  /\ StageFits(r)' /\ RoundsFit(r)' /\ Segment(r)' = "done" /\ Entered(r)' = round[r]
  BY <1>1, Local DEF All, Start, StageFits, RoundsFit, Underway, Segment, Entered
<1>4. Together'
  BY <1>1, <1>3, SameStage DEF Together
<1> QED
  BY <1>2, <1>3, <1>4 DEF StepInv

\* The ranks start together.
LEMMA StepInvInit ==
  ASSUME ExchangeAssumption, Init
  PROVE  StepInv
<1>1. \A r \in Rank : Len(Loads[r]) \in Nat
  BY DEF ExchangeAssumption
<1>2. Maps /\ SameCourse
  BY DEF Init, Start, Maps, SameCourse
<1>3. Together
  BY DEF Init, Start, Together, Segment, Entered
<1>4. ASSUME NEW r \in Rank PROVE StageFits(r) /\ RoundsFit(r)
  BY <1>1 DEF Init, Start, StageFits, RoundsFit, Underway
<1> QED
  BY <1>2, <1>3, <1>4 DEF StepInv

\* No step separates the ranks.
LEMMA StepInvNext ==
  ASSUME ExchangeAssumption, StepInv, [Next]_vars
  PROVE  StepInv'
<1>1. CASE Collective
  BY <1>1, AgreeRoundsKeeps, AgreeRequestKeeps, UpdateThresholdKeeps, ExchangeCountsKeeps,
     ExchangePayloadKeeps, SelectKeeps DEF Collective
<1>2. ASSUME NEW r \in Rank, Step(r) PROVE StepInv'
  BY <1>2, ServeKeeps, FinishKeeps, LeaveKeeps, TailKeeps, AdmissionKeeps, DrainKeeps,
     UpdateKeeps, LaunchKeeps, CollectKeeps DEF Step
<1>3. ASSUME NEW r \in Rank, Stream3(r) PROVE StepInv'
  BY <1>3, Stream3Keeps
<1>4. ASSUME NEW p, Stream4Job(p) PROVE StepInv'
  BY <1>4, Stream4Keeps DEF Stream4Job
<1>5. CASE UNCHANGED vars
  BY <1>5, Stream4Keeps DEF vars
<1> QED
  BY <1>1, <1>2, <1>3, <1>4, <1>5 DEF Next, Ended

\* Ranks in the same segment of the same round wait in the same collective.
LEMMA InStep ==
  ASSUME StepInv
  PROVE  RoundsInStep
<1> SUFFICES ASSUME NEW q \in Rank, NEW r \in Rank, pc[q] \in Waiting
             PROVE  /\ pc[r] # "done"
                    /\ pc[r] \in Waiting =>
                         /\ pc[q] = pc[r] /\ round[q] = round[r]
                         /\ (stage[q] = "end") <=> (stage[r] = "end")
  BY DEF RoundsInStep
<1>1. pc[r] # "failed" => Segment(q) = Segment(r) /\ Entered(q) = Entered(r)
  BY DEF StepInv, Together, Waiting
<1>2. pc[r] # "done"
  BY <1>1 DEF Segment, Waiting
<1>3. ASSUME pc[r] \in Waiting
      PROVE  pc[q] = pc[r] /\ round[q] = round[r]
  BY <1>1, <1>3 DEF Segment, Entered, Waiting
<1>4. ASSUME pc[r] \in Waiting
      PROVE  (stage[q] = "end") <=> (stage[r] = "end")
  <2>1. CASE pc[r] \in {"rounds", "select"}
    BY <1>3, <1>4, <2>1, Local DEF StageFits
  <2>2. CASE pc[r] \in {"request", "update", "counts", "payload"}
    <3>1. Underway(q) /\ Underway(r) /\ rounds[q] = rounds[r]
      BY <1>3, <1>4, <2>2 DEF Underway, StepInv, SameCourse
    <3> QED
      BY <1>3, <1>4, <3>1, Local DEF RoundsFit
  <2> QED
    BY <1>4, <2>1, <2>2 DEF Waiting
<1> QED
  BY <1>2, <1>3, <1>4

\* Ranks that wait wait in the same collective of the same round, and none has
\* returned while another waits, however the loads are divided, whatever the sizes
\* are and however the ranks interleave: the order that the all-reduces of
\* reserve_stream3_round and the exchanges of complete_stream3_ring keep
\* (dispatcher.cu:3845, 4109-4126, 4583).
THEOREM RoundsAlwaysInStep ==
  ASSUME ExchangeAssumption
  PROVE  Spec => []RoundsInStep
<1>1. Init => StepInv
  BY StepInvInit
<1>2. StepInv /\ [Next]_vars => StepInv'
  BY StepInvNext
<1>3. StepInv => RoundsInStep
  BY InStep
<1> QED
  BY <1>1, <1>2, <1>3, PTL DEF Spec
-----------------------------------------------------------------------------
(* The room that a round reserves.                                         *)

BanksFit ==
    /\ clean \in [Bank -> SUBSET Cand] /\ dirty \in [Bank -> SUBSET Cand]
    /\ processing \in [Bank -> BOOLEAN] /\ writeIdx \in [Rank \X Shard -> {0, 1}]
    /\ seen \in [Bank -> Nat]
    /\ outgoing \in [Rank -> SUBSET Cand] /\ incoming \in [Rank -> SUBSET Cand]
    /\ fatal \in [Rank -> BOOLEAN] /\ torn \in [Rank -> BOOLEAN] /\ room \in [Rank -> BOOLEAN]

\* Every shard of a rank has a bank that takes n more rows.
HasRoom(r, n) == \A l \in Shard : \E b \in {0, 1} : Available(<<r, l, b>>) >= n

\* Room that was found on counters of one moment is there until it is used: for the
\* batch and for what the peers send, then for what they send.
Reserving == {"request", "drain", "compact", "histogram", "update", "admitted"}
Reserved(r) == ~torn[r] =>
    /\ pc[r] \in Reserving /\ stage[r] # "end" /\ room[r] => HasRoom(r, Required)
    /\ s3phase[r] = "launched" => HasRoom(r, Required)
    /\ s3phase[r] \in {"appended", "done"} \/ pc[r] \in {"counts", "payload", "collect"}
          => HasRoom(r, RecvCapacity)

\* A rank that reserves a round in the loop has a ring for it, and it exchanges only
\* what Stream 3 is done with.
RingTaken(r) ==
    /\ stage[r] = "loop" /\ pc[r] \in Reserving \cup {"admit", "copyDirty", "copyProcessing"}
          => RingsLeft(r)
    /\ s3phase[r] = "launched" => cursor[r] - 1 \in DOMAIN Loads[r]
    /\ pc[r] \in {"counts", "payload", "collect"} => s3phase[r] \in {"idle", "done"}

\* A fatal flag is found before the exchange or ends the round.
FatalSeen(r) ==
    fatal[r] => /\ torn[r]
                /\ pc[r] = "failed" \/ (pc[r] = "pass" /\ s3phase[r] \in {"appended", "done"})

\* No rank is sent more than it has reserved for its peers.
ReceiptsFit ==
    /\ All("payload") => \A r \in Rank : Cardinality(SentTo(r)) <= RecvCapacity
    /\ \A r \in Rank : pc[r] = "collect" => Cardinality(incoming[r]) <= RecvCapacity

CreditOf(r) == Reserved(r) /\ RingTaken(r) /\ FatalSeen(r)
CreditInv == BanksFit /\ ReceiptsFit /\ \A r \in Rank : CreditOf(r)

LEMMA BankParts ==
  ASSUME NEW p \in Bank
  PROVE  /\ p[1] \in Rank /\ p[2] \in Shard /\ p[3] \in {0, 1} /\ p = <<p[1], p[2], p[3]>>
         /\ Sibling(p) = <<p[1], p[2], 1 - p[3]>> /\ Sibling(p) \in Bank
         /\ p \in Banks(p[1])
  BY DEF Bank, Sibling, Banks

LEMMA OccupancyIsNat ==
  ASSUME ExchangeAssumption, BanksFit, NEW p \in Bank
  PROVE  Used(p) \in Nat /\ Available(p) \in Nat
<1>1. Cardinality(clean[p]) \in Nat /\ Cardinality(dirty[p]) \in Nat
  BY RowsFinite DEF BanksFit
<1>2. Capacity \in Nat
  BY DEF ExchangeAssumption
<1> QED
  BY <1>1, <1>2 DEF Used, Available

LEMMA OccupancyStaysNat ==
  ASSUME ExchangeAssumption, BanksFit', NEW p \in Bank
  PROVE  Used(p)' \in Nat /\ Available(p)' \in Nat
<1>1. Cardinality(clean'[p]) \in Nat /\ Cardinality(dirty'[p]) \in Nat
  BY RowsFinite DEF BanksFit
<1>2. Capacity \in Nat
  BY DEF ExchangeAssumption
<1> QED
  BY <1>1, <1>2 DEF Used, Available

\* A sort leaves a bank at most as full as it was.
LEMMA SortShrinks ==
  ASSUME BanksFit, NEW p \in Bank
  PROVE  /\ Sorted(p) \in SUBSET Cand
         /\ Cardinality(Sorted(p)) + Cardinality({}) <= Used(p)
<1>1. clean[p] \in SUBSET Cand /\ dirty[p] \in SUBSET Cand
  BY DEF BanksFit
<1>2. clean[p] \cup dirty[p] \in SUBSET Cand
  BY <1>1
<1>3. Sorted(p) \in SUBSET (clean[p] \cup dirty[p])
  BY DEF Sorted, BestPerState, AtMost
<1>4. Cardinality(Sorted(p)) <= Cardinality(clean[p] \cup dirty[p])
  BY <1>2, <1>3, RowsFinite, FS_Subset
<1>5. Cardinality(clean[p] \cup dirty[p]) <= Cardinality(clean[p]) + Cardinality(dirty[p])
  BY <1>1, UnionBound
<1>6. Sorted(p) \in SUBSET Cand
  BY <1>2, <1>3
<1>7. /\ Cardinality(Sorted(p)) \in Nat /\ Cardinality(clean[p] \cup dirty[p]) \in Nat
      /\ Cardinality(clean[p]) \in Nat /\ Cardinality(dirty[p]) \in Nat
  BY <1>1, <1>2, <1>6, RowsFinite
<1> QED
  BY <1>4, <1>5, <1>6, <1>7, FS_EmptySet DEF Used

\* Room is not lost by steps that take no row in and no bank away.
LEMMA RoomGrows ==
  ASSUME ExchangeAssumption, BanksFit, BanksFit', NEW r \in Rank, NEW n, HasRoom(r, n),
         n \in Nat,
         \A p \in Banks(r) : Used(p)' <= Used(p) /\ (processing'[p] => processing[p])
  PROVE  HasRoom(r, n)'
<1> SUFFICES ASSUME NEW l \in Shard
             PROVE  \E b \in {0, 1} : Available(<<r, l, b>>)' >= n
  BY DEF HasRoom
<1>1. PICK b \in {0, 1} : Available(<<r, l, b>>) >= n
  BY DEF HasRoom
<1>2. PICK p \in Bank : p = <<r, l, b>>
  BY DEF Bank
<1>3. /\ Used(p) \in Nat /\ Used(p)' \in Nat /\ Capacity \in Nat
      /\ Used(p)' <= Used(p) /\ (processing'[p] => processing[p])
  BY <1>2, BankParts, OccupancyIsNat, OccupancyStaysNat DEF ExchangeAssumption
<1>4. Available(p) <= Available(p)' /\ Available(p) \in Nat /\ Available(p)' \in Nat
  BY <1>2, <1>3 DEF Available
<1>5. Available(<<r, l, b>>)' >= n
  BY <1>1, <1>2, <1>4
<1> QED
  BY <1>5

\* Rows that are no more than n for a shard leave m of n + m places free and raise
\* no fatal flag: stream3_prepare_partition_counts takes the sibling if only it has
\* the room.
LEMMA AppendLeavesRoom ==
  ASSUME ExchangeAssumption, BanksFit, BanksFit', NEW r \in Rank, NEW rows \in SUBSET Cand,
         AppendRows(r, rows), UNCHANGED <<clean, processing>>,
         NEW n \in Nat, NEW m \in Nat, HasRoom(r, n + m),
         \A l \in Shard : Cardinality(InShard(rows, l)) <= n
  PROVE  (fatal'[r] => fatal[r]) /\ HasRoom(r, m)'
<1> DEFINE share(l) == InShard(rows, l)
           target == [l \in Shard |-> WriteBank(r, l, Cardinality(share(l)))]
<1>0. Capacity \in Nat
  BY DEF ExchangeAssumption
<1>1. \A l \in Shard : share(l) \in SUBSET Cand /\ Cardinality(share(l)) \in Nat
  BY RowsFinite DEF InShard
<1>2. ASSUME NEW l \in Shard
      PROVE  /\ target[l] \in {<<r, l, 0>>, <<r, l, 1>>}
             /\ Available(target[l]) >= Cardinality(share(l))
  <2>1. PICK b \in {0, 1} : Available(<<r, l, b>>) >= n + m
    BY DEF HasRoom
  <2>2. writeIdx[<<r, l>>] \in {0, 1}
    BY DEF BanksFit
  <2>3. <<r, l, 0>> \in Bank /\ <<r, l, 1>> \in Bank
    BY DEF Bank
  <2>4. Available(<<r, l, 0>>) \in Nat /\ Available(<<r, l, 1>>) \in Nat
    BY <2>3, OccupancyIsNat
  <2>5. Available(<<r, l, b>>) >= Cardinality(share(l))
    BY <1>1, <2>1, <2>4
  <2>6. Sibling(<<r, l, 0>>) = <<r, l, 1>> /\ Sibling(<<r, l, 1>>) = <<r, l, 0>>
    BY DEF Sibling
  <2>7. target[l] = WriteBank(r, l, Cardinality(share(l)))
    OBVIOUS
  <2> HIDE DEF share, target
  <2> QED
    BY <1>1, <2>2, <2>4, <2>5, <2>6, <2>7 DEF WriteBank
<1>3. fatal' = [fatal EXCEPT ![r] = fatal[r]
                  \/ \E l \in Shard : Cardinality(share(l)) > Available(target[l])]
  BY DEF AppendRows
<1>4. fatal'[r] => fatal[r]
  <2>1. ~ \E l \in Shard : Cardinality(share(l)) > Available(target[l])
    <3> SUFFICES ASSUME NEW l \in Shard, Cardinality(share(l)) > Available(target[l])
                 PROVE  FALSE
      OBVIOUS
    <3>1. target[l] \in Bank
      BY <1>2 DEF Bank
    <3>2. Available(target[l]) \in Nat
      BY <3>1, OccupancyIsNat
    <3> HIDE DEF share, target
    <3> QED
      BY <1>1, <1>2, <3>2
  <2> HIDE DEF share, target
  <2> QED
    BY <1>3, <2>1 DEF BanksFit
<1>5. ASSUME NEW l \in Shard
      PROVE  \E b \in {0, 1} : Available(<<r, l, b>>)' >= m
  <2>1. PICK b \in {0, 1} : Available(<<r, l, b>>) >= n + m
    BY DEF HasRoom
  <2>2. PICK p \in Bank : p = <<r, l, b>>
    BY DEF Bank
  <2>3. Used(p) \in Nat /\ Used(p)' \in Nat /\ Available(p) \in Nat
    BY <2>2, OccupancyIsNat, OccupancyStaysNat
  <2>4. dirty'[p] = dirty[p] \/ dirty'[p] = dirty[p] \cup share(l)
    <3>1. p[1] = r /\ p[2] = l
      BY <2>2
    <3> QED
      BY <3>1 DEF AppendRows
  <2>5. /\ Cardinality(dirty'[p]) <= Cardinality(dirty[p]) + Cardinality(share(l))
        /\ Cardinality(dirty[p]) \in Nat /\ Cardinality(dirty'[p]) \in Nat
        /\ Cardinality(clean[p]) \in Nat
    <3>1. dirty[p] \in SUBSET Cand /\ dirty'[p] \in SUBSET Cand /\ clean[p] \in SUBSET Cand
      BY DEF BanksFit
    <3>2. /\ Cardinality(dirty[p]) \in Nat /\ Cardinality(dirty'[p]) \in Nat
          /\ Cardinality(clean[p]) \in Nat
      BY <3>1, RowsFinite
    <3>3. Cardinality(dirty[p] \cup share(l)) <= Cardinality(dirty[p]) + Cardinality(share(l))
      BY <1>1, <3>1, UnionBound
    <3>4. Cardinality(share(l)) \in Nat
      BY <1>1
    <3>5. \/ Cardinality(dirty'[p]) = Cardinality(dirty[p])
          \/ Cardinality(dirty'[p]) = Cardinality(dirty[p] \cup share(l))
      BY <2>4
    <3> DEFINE m1 == Cardinality(dirty'[p])
               m2 == Cardinality(dirty[p])
               m3 == Cardinality(dirty[p] \cup share(l))
               m4 == Cardinality(share(l))
    <3>6. m1 \in Nat /\ m2 \in Nat /\ m4 \in Nat /\ m3 <= m2 + m4 /\ (m1 = m2 \/ m1 = m3)
      BY <3>2, <3>3, <3>4, <3>5
    <3>7. m1 <= m2 + m4
      <4> HIDE DEF m1, m2, m3, m4
      <4> QED
        BY <3>6
    <3> QED
      BY <3>2, <3>7
  <2>6. Cardinality(share(l)) <= n /\ Cardinality(share(l)) \in Nat
    BY <1>1
  <2>7. Used(p)' <= Used(p) + n
    <3> HIDE DEF share
    <3> QED
      BY <2>5, <2>6 DEF Used
  <2>8. Available(p)' >= m
    <3>1. Available(p) >= n + m
      BY <2>1, <2>2
    <3>2. CASE Available(p) = 0
      <4>1. n = 0 /\ m = 0
        BY <3>1, <3>2
      <4> QED
        BY <1>0, <4>1, OccupancyStaysNat DEF Available
    <3>3. CASE ~processing[p] /\ Used(p) < Capacity /\ Available(p) = Capacity - Used(p)
      BY <1>0, <2>3, <2>7, <3>1, <3>3 DEF Available
    <3> QED
      BY <3>2, <3>3 DEF Available
  <2> QED
    BY <2>2, <2>8
<1> QED
  BY <1>4, <1>5 DEF HasRoom

\* stream3_build_ready_shard_queue takes at most one bank of a shard, and none whose
\* sibling cannot take what the peers may still send.
LEMMA BuildLeavesCredit ==
  ASSUME ExchangeAssumption, BanksFit, NEW r \in Rank, BuildReadyQueue(r),
         UNCHANGED <<clean, dirty>>, HasRoom(r, RecvCapacity)
  PROVE  HasRoom(r, RecvCapacity)'
<1> DEFINE selected == {p \in Banks(r) :
                           /\ ~processing[p] /\ ~processing[Sibling(p)]
                           /\ IsReady(p)
                           /\ IsReady(Sibling(p)) => Preferred(p, Sibling(p))}
<1>1. \A p \in Bank : /\ processing'[p] <=> processing[p] \/ p \in selected
                      /\ Used(p)' = Used(p)
  BY DEF BuildReadyQueue, Used
<1>2. RecvCapacity \in Nat \ {0} /\ Capacity \in Nat
  BY DEF ExchangeAssumption
<1>3. ASSUME NEW p \in Bank, p \notin selected
      PROVE  Available(p)' = Available(p)
  <2> HIDE DEF selected
  <2> QED
    BY <1>1, <1>3 DEF Available
<1>4. ASSUME NEW p \in selected
      PROVE  Sibling(p) \in Bank /\ Sibling(p) \notin selected
  <2>1. p \in Bank /\ p[1] = r
    BY DEF Banks
  <2>2. PICK l \in Shard, b \in {0, 1} : p = <<r, l, b>>
    BY <2>1 DEF Bank
  <2>3. PICK q \in Bank : q = Sibling(p) /\ q = <<r, l, 1 - b>> /\ Sibling(q) = p
    BY <2>2 DEF Bank, Sibling
  <2>4. ASSUME q \in selected PROVE FALSE
    <3>1. Preferred(p, q) /\ Preferred(q, p)
      BY <2>3, <2>4
    <3>2. Available(p) \in Nat /\ Available(q) \in Nat
      BY <2>1, OccupancyIsNat
    <3>3. writeIdx[<<r, l>>] \in {0, 1}
      BY DEF BanksFit
    <3>4. p[1] = r /\ p[2] = l /\ p[3] = b /\ q[1] = r /\ q[2] = l /\ q[3] = 1 - b
      BY <2>2, <2>3
    <3> QED
      BY <3>1, <3>2, <3>3, <3>4 DEF Preferred
  <2> QED
    BY <2>3, <2>4
<1> SUFFICES ASSUME NEW l \in Shard
             PROVE  \E b \in {0, 1} : Available(<<r, l, b>>)' >= RecvCapacity
  BY DEF HasRoom
<1>5. PICK b \in {0, 1} : Available(<<r, l, b>>) >= RecvCapacity
  BY DEF HasRoom
<1>6. PICK p \in Bank : p = <<r, l, b>>
  BY DEF Bank
<1>7. CASE p \notin selected
  <2>1. Available(<<r, l, b>>)' >= RecvCapacity
    BY <1>3, <1>5, <1>6, <1>7
  <2> QED
    BY <2>1
<1>8. CASE p \in selected
  <2>1. Sibling(p) \in Bank /\ Available(Sibling(p))' = Available(Sibling(p))
    BY <1>3, <1>4, <1>8
  <2>2. Available(Sibling(p)) >= RecvCapacity
    BY <1>8 DEF IsReady
  <2>3. Sibling(p) = <<r, l, 1 - b>> /\ 1 - b \in {0, 1}
    BY <1>6 DEF Sibling
  <2>4. Available(<<r, l, 1 - b>>)' >= RecvCapacity
    BY <2>1, <2>2, <2>3
  <2> QED
    BY <2>3, <2>4
<1> QED
  BY <1>7, <1>8

\* What a step leaves of a rank that it is not about.
SameRank(q) ==
    /\ pc'[q] = pc[q] /\ stage'[q] = stage[q] /\ cursor'[q] = cursor[q]
    /\ s3phase'[q] = s3phase[q] /\ room'[q] = room[q] /\ torn'[q] = torn[q]
    /\ fatal'[q] = fatal[q] /\ incoming'[q] = incoming[q]

\* A step that gives a rank no row and takes no bank of it away.
Gains(q) == \A p \in Banks(q) : Used(p)' <= Used(p) /\ (processing'[p] => processing[p])

LEMMA GainsKeep ==
  ASSUME ExchangeAssumption, BanksFit, BanksFit', NEW q \in Rank, Gains(q)
  PROVE  /\ HasRoom(q, Required) => HasRoom(q, Required)'
         /\ HasRoom(q, RecvCapacity) => HasRoom(q, RecvCapacity)'
<1>1. Required \in Nat /\ RecvCapacity \in Nat
  BY DEF ExchangeAssumption, Required
<1>2. HasRoom(q, Required) => HasRoom(q, Required)'
  BY <1>1, RoomGrows DEF Gains
<1> QED
  BY <1>1, <1>2, RoomGrows DEF Gains

LEMMA SameGains ==
  ASSUME ExchangeAssumption, BanksFit, NEW q \in Rank,
         \A p \in Banks(q) : /\ clean'[p] = clean[p] /\ dirty'[p] = dirty[p]
                             /\ processing'[p] = processing[p]
  PROVE  Gains(q)
<1> SUFFICES ASSUME NEW p \in Banks(q)
             PROVE  Used(p)' <= Used(p) /\ (processing'[p] => processing[p])
  BY DEF Gains
<1>1. Used(p) \in Nat
  BY OccupancyIsNat DEF Banks
<1>2. Used(p)' = Used(p)
  BY DEF Used
<1> QED
  BY <1>1, <1>2

LEMMA SameKeeps ==
  ASSUME ExchangeAssumption, BanksFit, BanksFit', NEW q \in Rank, CreditOf(q), SameRank(q), Gains(q)
  PROVE  CreditOf(q)'
<1>1. Reserved(q)'
  BY GainsKeep DEF CreditOf, Reserved, SameRank
<1>2. RingTaken(q)' /\ FatalSeen(q)'
  BY DEF CreditOf, RingTaken, RingsLeft, FatalSeen, SameRank
<1> QED
  BY <1>1, <1>2 DEF CreditOf

\* A rank that moves alone, but does not go to where what it is sent counts.
LEMMA AloneCredits ==
  ASSUME ExchangeAssumption, CreditInv, BanksFit', NEW r \in Rank,
         \A q \in Rank \ {r} : SameRank(q) /\ Gains(q),
         pc'[r] \notin {"payload", "collect"}, CreditOf(r)'
  PROVE  CreditInv'
<1>1. \A q \in Rank \ {r} : CreditOf(q)'
  BY SameKeeps DEF CreditInv
<1>2. ReceiptsFit'
  BY DEF CreditInv, ReceiptsFit, All, SameRank
<1> QED
  BY <1>1, <1>2 DEF CreditInv

LEMMA AppendTypes ==
  ASSUME BanksFit, NEW r \in Rank, NEW rows \in SUBSET Cand, AppendRows(r, rows)
  PROVE  /\ dirty' \in [Bank -> SUBSET Cand] /\ writeIdx' \in [Rank \X Shard -> {0, 1}]
         /\ fatal' \in [Rank -> BOOLEAN]
<1> DEFINE share(l) == InShard(rows, l)
           target == [l \in Shard |-> WriteBank(r, l, Cardinality(share(l)))]
<1>1. \A l \in Shard : share(l) \in SUBSET Cand
  BY DEF InShard
<1>2. \A l \in Shard : target[l][3] \in {0, 1}
  <2>1. \A l \in Shard : writeIdx[<<r, l>>] \in {0, 1}
    BY DEF BanksFit
  <2> QED
    BY <2>1 DEF WriteBank, Sibling
<1>3. /\ writeIdx' = [x \in DOMAIN writeIdx |->
             IF x[1] = r /\ share(x[2]) # {} THEN target[x[2]][3] ELSE writeIdx[x]]
      /\ fatal' = [fatal EXCEPT ![r] = fatal[r]
                      \/ \E l \in Shard : Cardinality(share(l)) > Available(target[l])]
      /\ dirty' = [p \in Bank |->
             IF p[1] = r /\ target[p[2]] = p /\ ~fatal'[r] THEN dirty[p] \cup share(p[2])
             ELSE dirty[p]]
  BY DEF AppendRows
<1> HIDE DEF share, target
<1>4. writeIdx' \in [Rank \X Shard -> {0, 1}]
  BY <1>2, <1>3 DEF BanksFit
<1>5. fatal' \in [Rank -> BOOLEAN]
  BY <1>3 DEF BanksFit
<1>6. dirty' \in [Bank -> SUBSET Cand]
  BY <1>1, <1>3, BankParts DEF BanksFit
<1> QED
  BY <1>4, <1>5, <1>6

LEMMA SortBanksGain ==
  ASSUME ExchangeAssumption, BanksFit, NEW which \in SUBSET Bank, SortBanks(which)
  PROVE  /\ clean' \in [Bank -> SUBSET Cand] /\ dirty' \in [Bank -> SUBSET Cand]
         /\ \A q \in Rank : Gains(q)
         /\ UNCHANGED <<processing, writeIdx, ready>>
<1>1. /\ clean' = [p \in Bank |-> IF p \in which THEN Sorted(p) ELSE clean[p]]
      /\ dirty' = [p \in Bank |-> IF p \in which THEN {} ELSE dirty[p]]
      /\ UNCHANGED <<processing, writeIdx, ready>>
  BY DEF SortBanks
<1>2. \A p \in Bank : Sorted(p) \in SUBSET Cand
  BY SortShrinks
<1>3. clean' \in [Bank -> SUBSET Cand] /\ dirty' \in [Bank -> SUBSET Cand]
  BY <1>1, <1>2 DEF BanksFit
<1>4. ASSUME NEW p \in Bank PROVE Used(p)' <= Used(p)
  <2>1. CASE p \in which
    <3>1. Used(p)' = Cardinality(Sorted(p)) + Cardinality({})
      BY <1>1, <2>1 DEF Used
    <3> QED
      BY <3>1, SortShrinks
  <2>2. CASE p \notin which
    <3>1. Used(p)' = Used(p)
      BY <1>1, <2>2 DEF Used
    <3> QED
      BY <3>1, OccupancyIsNat
  <2> QED
    BY <2>1, <2>2
<1> QED
  BY <1>1, <1>3, <1>4 DEF Gains, Banks

\* What Stream 3 appends and sends of a load.
LEMMA LoadFits ==
  ASSUME ExchangeAssumption, CreditInv, NEW r \in Rank, s3phase[r] = "launched",
         NEW batch, batch = Loads[r][cursor[r] - 1],
         NEW kept, kept = BestPerState(AtMost(batch, threshold[r]))
  PROVE  /\ batch \in SUBSET Cand /\ kept \in SUBSET Cand /\ OwnedBy(kept, r) \in SUBSET Cand
         /\ \A l \in Shard : Cardinality(InShard(OwnedBy(kept, r), l)) <= BatchSize
<1>1. cursor[r] - 1 \in DOMAIN Loads[r]
  BY DEF CreditInv, CreditOf, RingTaken
<1>2. batch \in SUBSET Cand /\ Cardinality(batch) <= BatchSize /\ BatchSize \in Nat
  BY <1>1 DEF ExchangeAssumption
<1>3. kept \in SUBSET batch /\ OwnedBy(kept, r) \in SUBSET batch
  BY DEF BestPerState, AtMost, OwnedBy
<1>4. ASSUME NEW l \in Shard
      PROVE  Cardinality(InShard(OwnedBy(kept, r), l)) <= BatchSize
  <2>1. InShard(OwnedBy(kept, r), l) \in SUBSET batch
    BY <1>3 DEF InShard
  <2>2. Cardinality(InShard(OwnedBy(kept, r), l)) <= Cardinality(batch)
    BY <1>2, <2>1, RowsFinite, FS_Subset
  <2>3. InShard(OwnedBy(kept, r), l) \in SUBSET Cand
    BY <1>2, <2>1
  <2> QED
    BY <1>2, <2>2, <2>3, RowsFinite
<1> QED
  BY <1>2, <1>3, <1>4

LEMMA SentAreRows ==
  ASSUME BanksFit, NEW r \in Rank
  PROVE  SentTo(r) \in SUBSET Cand /\ Cardinality(SentTo(r)) \in Nat
<1>1. SentTo(r) \in SUBSET Cand
  BY DEF SentTo, OwnedBy, BanksFit
<1> QED
  BY <1>1, RowsFinite

LEMMA BuildTypes ==
  ASSUME BanksFit, NEW r \in Rank, BuildReadyQueue(r)
  PROVE  processing' \in [Bank -> BOOLEAN] /\ writeIdx' \in [Rank \X Shard -> {0, 1}]
<1> DEFINE selected == {p \in Banks(r) :
                           /\ ~processing[p] /\ ~processing[Sibling(p)]
                           /\ IsReady(p)
                           /\ IsReady(Sibling(p)) => Preferred(p, Sibling(p))}
           turned(x) == {b \in {0, 1} : LET p == <<x[1], x[2], b>> IN
                           p \in selected /\ Used(Sibling(p)) < Capacity}
<1>1. /\ processing' = [p \in Bank |-> processing[p] \/ p \in selected]
      /\ writeIdx' = [x \in DOMAIN writeIdx |->
             IF turned(x) = {} THEN writeIdx[x] ELSE 1 - CHOOSE b \in turned(x) : TRUE]
  BY DEF BuildReadyQueue
<1>2. \A x : turned(x) # {} => (CHOOSE b \in turned(x) : TRUE) \in {0, 1}
  OBVIOUS
<1> HIDE DEF selected, turned
<1>3. writeIdx' \in [Rank \X Shard -> {0, 1}]
  BY <1>1, <1>2 DEF BanksFit
<1>4. processing' \in [Bank -> BOOLEAN]
  BY <1>1 DEF BanksFit
<1> QED
  BY <1>3, <1>4

LEMMA TypesStep ==
  ASSUME ExchangeAssumption, CreditInv, [Next]_vars
  PROVE  BanksFit'
<1>0. BanksFit
  BY DEF CreditInv
<1>1. ASSUME UNCHANGED <<seen, room, torn, streamVars, bankVars>> PROVE BanksFit'
  BY <1>0, <1>1 DEF BanksFit, streamVars, bankVars
<1>2. CASE Collective
  <2>1. CASE ~ExchangePayload
    BY <1>1, <1>2, <2>1 DEF Collective, AgreeRounds, AgreeRequest, UpdateThreshold, ExchangeCounts,
       Select
  <2>2. CASE ExchangePayload
    <3>1. /\ incoming' = [r \in Rank |-> SentTo(r)] /\ outgoing' = [r \in Rank |-> {}]
          /\ UNCHANGED <<seen, room, torn, fatal, bankVars>>
      BY <2>2 DEF ExchangePayload, Start
    <3> QED
      BY <1>0, <3>1, SentAreRows DEF BanksFit, bankVars
  <2> QED
    BY <2>1, <2>2
<1>3. ASSUME NEW r \in Rank, Step(r) PROVE BanksFit'
  <2>1. CASE \/ Serve(r) \/ FinishStream3(r) \/ LeaveLoop(r) \/ TailRound(r) \/ Drain(r)
             \/ TakeHistogram(r)
    BY <1>1, <2>1 DEF Serve, FinishStream3, LeaveLoop, TailRound, Drain, TakeHistogram
  <2>2. CASE CopyCleanCounts(r) \/ CopyDirtyCounts(r)
    <3>1. \A p \in Bank : Cardinality(clean[p]) \in Nat /\ Cardinality(dirty[p]) \in Nat
      BY <1>0, RowsFinite DEF BanksFit
    <3>2. seen' \in [Bank -> Nat]
      BY <1>0, <2>2, <3>1 DEF BanksFit, CopyCleanCounts, CopyDirtyCounts
    <3> QED
      BY <1>0, <2>2, <3>2 DEF BanksFit, CopyCleanCounts, CopyDirtyCounts, streamVars, bankVars
  <2>3. CASE CopyProcessingFlags(r)
    <3>1. seen' \in [Bank -> Nat]
      BY <1>0, <2>3 DEF BanksFit, CopyProcessingFlags
    <3>2. Writable(r, seen) \in BOOLEAN
      BY DEF Writable
    <3>3. room' \in [Rank -> BOOLEAN] /\ torn' \in [Rank -> BOOLEAN]
      BY <1>0, <2>3, <3>2 DEF BanksFit, CopyProcessingFlags
    <3> QED
      BY <1>0, <2>3, <3>1, <3>3 DEF BanksFit, CopyProcessingFlags, streamVars, bankVars
  <2>4. ASSUME NEW which \in SUBSET Bank, SortBanks(which),
               UNCHANGED <<seen, room, torn, streamVars>>
        PROVE  BanksFit'
    BY <1>0, <2>4, SortBanksGain DEF BanksFit, streamVars
  <2>5. CASE Compact(r)
    BY <2>4, <2>5 DEF Compact, Banks
  <2>6. CASE Flush(r)
    <3>1. PICK again \in SUBSET Banks(r) : SortBanks({p \in Banks(r) : dirty[p] # {}} \cup again)
      BY <2>6 DEF Flush
    <3>2. {p \in Banks(r) : dirty[p] # {}} \cup again \in SUBSET Bank
      BY DEF Banks
    <3> QED
      BY <2>4, <2>6, <3>1, <3>2 DEF Flush
  <2>7. CASE Launch(r)
    <3>1. outgoing' \in [Rank -> SUBSET Cand]
      BY <1>0, <2>7 DEF BanksFit, Launch
    <3> QED
      BY <1>0, <2>7, <3>1 DEF BanksFit, Launch, bankVars
  <2>8. CASE Collect(r)
    <3>1. incoming[r] \in SUBSET Cand
      BY <1>0 DEF BanksFit
    <3>2. AppendRows(r, incoming[r])
      BY <2>8 DEF Collect
    <3>3. incoming' \in [Rank -> SUBSET Cand]
      BY <1>0, <2>8 DEF BanksFit, Collect
    <3> QED
      BY <1>0, <2>8, <3>1, <3>2, <3>3, AppendTypes DEF BanksFit, Collect
  <2> QED
    BY <1>3, <2>1, <2>2, <2>3, <2>5, <2>6, <2>7, <2>8 DEF Step
<1>4. ASSUME NEW r \in Rank, Stream3Append(r) PROVE BanksFit'
  <2> DEFINE batch == Loads[r][cursor[r] - 1]
             kept == BestPerState(AtMost(batch, threshold[r]))
  <2>1. /\ s3phase[r] = "launched" /\ AppendRows(r, OwnedBy(kept, r))
        /\ outgoing' = [outgoing EXCEPT ![r] = kept \ OwnedBy(kept, r)]
        /\ UNCHANGED <<seen, room, torn, incoming, clean, processing>>
    BY <1>4 DEF Stream3Append, hostVars
  <2>2. kept \in SUBSET Cand /\ OwnedBy(kept, r) \in SUBSET Cand
    BY <2>1, LoadFits
  <2> HIDE DEF kept, batch
  <2>3. outgoing' \in [Rank -> SUBSET Cand]
    BY <1>0, <2>1, <2>2 DEF BanksFit
  <2> QED
    BY <1>0, <2>1, <2>2, <2>3, AppendTypes DEF BanksFit
<1>5. ASSUME NEW r \in Rank, Stream3BuildReady(r) PROVE BanksFit'
  BY <1>0, <1>5, BuildTypes DEF BanksFit, Stream3BuildReady, hostVars
<1>6. ASSUME NEW r \in Rank, NEW p \in Banks(r), Stream4Job(p) PROVE BanksFit'
  <2>1. p \in Bank
    BY DEF Banks
  <2>2. Sorted(p) \in SUBSET Cand
    BY <1>0, <2>1, SortShrinks
  <2> QED
    BY <1>0, <1>6, <2>2 DEF BanksFit, Stream4Job, hostVars, streamVars
<1>7. CASE UNCHANGED vars
  BY <1>1, <1>7 DEF vars, hostVars
<1> QED
  BY <1>2, <1>3, <1>4, <1>5, <1>6, <1>7 DEF Next, Ended, Stream3

\* Steps of the host of a rank that move no row of it.
LEMMA HostCredits ==
  ASSUME ExchangeAssumption, StepInv, CreditInv, BanksFit', NEW r \in Rank,
         UNCHANGED <<cursor, room, torn, streamVars, clean, dirty, processing>>,
         \A q \in Rank \ {r} : pc'[q] = pc[q] /\ stage'[q] = stage[q],
         \/ Serve(r) \/ FinishStream3(r) \/ LeaveLoop(r) \/ TailRound(r)
         \/ CopyCleanCounts(r) \/ CopyDirtyCounts(r) \/ Drain(r) \/ TakeHistogram(r)
  PROVE  CreditInv'
<1>0. BanksFit /\ Reserved(r) /\ RingTaken(r) /\ FatalSeen(r)
  BY DEF CreditInv, CreditOf
<1>1. \A q \in Rank : Gains(q)
  BY <1>0, SameGains
<1>2. \A q \in Rank \ {r} : SameRank(q) /\ Gains(q)
  BY <1>1 DEF SameRank, streamVars
<1>3. /\ UNCHANGED <<cursor, room, torn, s3phase, fatal>>
      /\ HasRoom(r, Required) => HasRoom(r, Required)'
      /\ HasRoom(r, RecvCapacity) => HasRoom(r, RecvCapacity)'
  BY <1>0, <1>1, GainsKeep DEF streamVars
<1>4. ASSUME NEW to, pc'[r] = to, to \notin {"payload", "collect"},
             to \in Reserving /\ stage'[r] # "end" /\ room[r] =>
                 pc[r] \in Reserving /\ stage[r] # "end",
             to = "counts" => s3phase[r] = "done",
             stage'[r] = "loop" /\ to \in Reserving \cup {"admit", "copyDirty", "copyProcessing"}
                 => RingsLeft(r),
             fatal[r] => to = "failed" \/ (to = "pass" /\ s3phase[r] \in {"appended", "done"})
      PROVE  CreditInv'
  <2>1. Reserved(r)'
    BY <1>0, <1>3, <1>4 DEF Reserved
  <2>2. RingTaken(r)'
    BY <1>0, <1>3, <1>4 DEF RingTaken, RingsLeft
  <2>3. FatalSeen(r)'
    BY <1>0, <1>3, <1>4 DEF FatalSeen
  <2> QED
    BY <1>2, <1>4, <2>1, <2>2, <2>3, AloneCredits DEF CreditOf
<1>5. CASE Serve(r)
  <2>1. PICK to : /\ Goto(r, to)
                  /\ \/ stage[r] = "loop" /\ to = "pass"
                     \/ stage[r] = "loop" /\ to = "admit" /\ RingsLeft(r) /\ s3phase[r] = "idle"
                     \/ stage[r] = "tail" /\ to = "tail"
    BY <1>5 DEF Serve
  <2>2. pc'[r] = to /\ pc[r] \in {"pass", "launch"} /\ stage'[r] = stage[r]
    BY <1>5, <2>1, Local DEF Serve
  <2>3. s3phase[r] # "idle" => stage[r] = "loop"
    BY Local DEF StageFits
  <2> QED
    BY <1>0, <1>4, <2>1, <2>2, <2>3 DEF FatalSeen, Reserving
<1>6. CASE FinishStream3(r)
  <2>1. /\ pc'[r] = IF fatal[r] THEN "failed" ELSE "counts"
        /\ pc[r] = "pass" /\ s3phase[r] = "done"
    BY <1>6, Local DEF FinishStream3
  <2> QED
    BY <1>4, <2>1 DEF Reserving
<1>7. CASE LeaveLoop(r)
  <2>1. pc'[r] = "tail" /\ s3phase[r] = "idle" /\ pc[r] = "pass"
    BY <1>7, Local DEF LeaveLoop, MoreToDo
  <2> QED
    BY <1>0, <1>4, <2>1 DEF FatalSeen, Reserving
<1>8. CASE TailRound(r)
  <2>1. pc[r] = "tail" /\ stage[r] = "tail"
    BY <1>8, Local DEF TailRound, StageFits
  <2>2. CASE Goto(r, "admit") /\ UNCHANGED stage
    <3>1. pc'[r] = "admit"
      BY <2>2, Local
    <3> QED
      BY <1>0, <1>4, <2>1, <2>2, <3>1 DEF FatalSeen, Reserving
  <2>3. CASE Goto(r, "request") /\ stage' = [stage EXCEPT ![r] = "end"]
    <3>1. pc'[r] = "request" /\ stage'[r] = "end"
      BY <2>3, Local DEF StepInv, Maps
    <3> QED
      BY <1>0, <1>4, <2>1, <3>1 DEF FatalSeen, Reserving
  <2> QED
    BY <1>8, <2>2, <2>3 DEF TailRound
<1>9. CASE CopyCleanCounts(r)
  <2>1. pc[r] = "admit" /\ pc'[r] = "copyDirty" /\ stage'[r] = stage[r]
    BY <1>9, Local DEF CopyCleanCounts
  <2> QED
    BY <1>0, <1>4, <2>1 DEF FatalSeen, RingTaken, Reserving
<1>10. CASE CopyDirtyCounts(r)
  <2>1. pc[r] = "copyDirty" /\ pc'[r] = "copyProcessing" /\ stage'[r] = stage[r]
    BY <1>10, Local DEF CopyDirtyCounts
  <2> QED
    BY <1>0, <1>4, <2>1 DEF FatalSeen, RingTaken, Reserving
<1>11. CASE Drain(r)
  <2>1. /\ pc[r] = "drain" /\ stage'[r] = stage[r]
        /\ pc'[r] = "drain" \/ pc'[r] = IF then[r] = "flush" THEN "flush" ELSE "compact"
    BY <1>11, Local DEF Drain
  <2> QED
    BY <1>0, <1>4, <2>1 DEF FatalSeen, RingTaken, Reserving
<1>12. CASE TakeHistogram(r)
  <2>1. pc[r] = "histogram" /\ pc'[r] = "update" /\ stage'[r] = stage[r]
    BY <1>12, Local DEF TakeHistogram
  <2> QED
    BY <1>0, <1>4, <2>1 DEF FatalSeen, RingTaken, Reserving
<1> QED
  BY <1>5, <1>6, <1>7, <1>8, <1>9, <1>10, <1>11, <1>12

\* The check of the room: counters that are no lower than the banks were all the
\* time since they were read leave what they promise.
LEMMA CheckCredits ==
  ASSUME ExchangeAssumption, StepInv, CreditInv, BanksFit', NEW r \in Rank, CopyProcessingFlags(r)
  PROVE  CreditInv'
<1>0. BanksFit /\ Reserved(r) /\ RingTaken(r) /\ FatalSeen(r)
  BY DEF CreditInv, CreditOf
<1>1. /\ pc[r] = "copyProcessing" /\ pc'[r] = "request" /\ stage[r] # "end"
      /\ UNCHANGED <<stage, cursor, streamVars, clean, dirty, processing>>
      /\ \A q \in Rank \ {r} : /\ pc'[q] = pc[q] /\ room'[q] = room[q] /\ torn'[q] = torn[q]
      /\ room'[r] = Writable(r, seen)
      /\ torn'[r] = (Writable(r, seen) /\ \E p \in Banks(r) : seen[p] < Used(p))
  BY <1>0, Local DEF CopyProcessingFlags, StageFits, BanksFit, StepInv, Maps, Goto, bankVars
<1>2. \A q \in Rank : Gains(q)
  BY <1>0, <1>1, SameGains
<1>3. \A q \in Rank \ {r} : SameRank(q) /\ Gains(q)
  BY <1>1, <1>2 DEF SameRank, streamVars
<1>4. ASSUME room'[r], ~torn'[r]
      PROVE  HasRoom(r, Required)
  <2>1. Writable(r, seen) /\ \A p \in Banks(r) : ~(seen[p] < Used(p))
    BY <1>1, <1>4
  <2> SUFFICES ASSUME NEW l \in Shard
               PROVE  \E b \in {0, 1} : Available(<<r, l, b>>) >= Required
    BY DEF HasRoom
  <2>2. PICK b \in {0, 1} :
           /\ ~processing[<<r, l, b>>] /\ seen[<<r, l, b>>] < Capacity
           /\ Capacity - seen[<<r, l, b>>] >= Required
    BY <2>1 DEF Writable
  <2>3. PICK p \in Bank : p = <<r, l, b>>
    BY DEF Bank
  <2>4. p \in Banks(r)
    BY <2>3 DEF Banks
  <2>5. seen[p] \in Nat /\ Used(p) \in Nat /\ Capacity \in Nat /\ Required \in Nat
    BY <1>0, OccupancyIsNat DEF BanksFit, ExchangeAssumption, Required
  <2>6. Available(p) >= Required
    BY <2>1, <2>2, <2>3, <2>4, <2>5 DEF Available
  <2> QED
    BY <2>3, <2>6
<1>5. Reserved(r)'
  <2>1. HasRoom(r, Required) => HasRoom(r, Required)'
    BY <1>0, <1>2, GainsKeep
  <2>2. s3phase'[r] = "idle"
    BY <1>1, Local DEF StageFits, streamVars
  <2> QED
    BY <1>1, <1>4, <2>1, <2>2 DEF Reserved
<1>6. RingTaken(r)' /\ FatalSeen(r)'
  BY <1>0, <1>1 DEF RingTaken, RingsLeft, FatalSeen, Reserving, streamVars
<1> QED
  BY <1>1, <1>3, <1>5, <1>6, AloneCredits DEF CreditOf

\* Sorting banks of a rank that waits for its Stream 4.
LEMMA SortCredits ==
  ASSUME ExchangeAssumption, StepInv, CreditInv, BanksFit', NEW r \in Rank, Compact(r) \/ Flush(r)
  PROVE  CreditInv'
<1>0. BanksFit /\ Reserved(r) /\ RingTaken(r) /\ FatalSeen(r)
  BY DEF CreditInv, CreditOf
<1>1. PICK which \in SUBSET Bank : SortBanks(which)
  <2>1. CASE Compact(r)
    BY <2>1 DEF Compact, Banks
  <2>2. CASE Flush(r)
    <3>1. PICK again \in SUBSET Banks(r) : SortBanks({p \in Banks(r) : dirty[p] # {}} \cup again)
      BY <2>2 DEF Flush
    <3>2. {p \in Banks(r) : dirty[p] # {}} \cup again \in SUBSET Bank
      BY DEF Banks
    <3> QED
      BY <3>1, <3>2
  <2> QED
    BY <2>1, <2>2
<1>2. \A q \in Rank : Gains(q)
  BY <1>0, <1>1, SortBanksGain
<1>3. /\ UNCHANGED <<stage, cursor, room, torn, streamVars>>
      /\ \/ pc[r] = "compact" /\ pc'[r] = then[r]
         \/ pc[r] = "flush" /\ pc'[r] = "select"
      /\ \A q \in Rank \ {r} : pc'[q] = pc[q]
  BY Local DEF Compact, Flush, Goto, StepInv, Maps
<1>4. then[r] \in {"flush", "histogram", "admitted"} /\ (pc[r] = "compact" => then[r] # "flush")
  BY Local DEF StageFits
<1>5. \A q \in Rank \ {r} : SameRank(q) /\ Gains(q)
  BY <1>2, <1>3 DEF SameRank, streamVars
<1>6. Reserved(r)'
  BY <1>0, <1>2, <1>3, <1>4, GainsKeep DEF Reserved, Reserving, streamVars
<1>7. RingTaken(r)' /\ FatalSeen(r)'
  BY <1>0, <1>3, <1>4 DEF RingTaken, RingsLeft, FatalSeen, Reserving, streamVars
<1> QED
  BY <1>3, <1>4, <1>5, <1>6, <1>7, AloneCredits DEF CreditOf

\* A round begins only with room.
LEMMA LaunchCredits ==
  ASSUME ExchangeAssumption, StepInv, CreditInv, BanksFit', NEW r \in Rank, Launch(r)
  PROVE  CreditInv'
<1>0. BanksFit /\ Reserved(r) /\ RingTaken(r) /\ FatalSeen(r)
  BY DEF CreditInv, CreditOf
<1>1. /\ pc[r] = "admitted" /\ stage[r] # "end" /\ s3phase[r] = "idle"
      /\ UNCHANGED <<stage, room, torn, incoming, fatal, clean, dirty, processing>>
      /\ \A q \in Rank \ {r} : /\ pc'[q] = pc[q] /\ cursor'[q] = cursor[q]
                              /\ s3phase'[q] = s3phase[q]
  BY Local DEF Launch, Goto, StepInv, Maps, StageFits, bankVars
<1>2. \A q \in Rank : Gains(q)
  BY <1>0, <1>1, SameGains
<1>3. \A q \in Rank \ {r} : SameRank(q) /\ Gains(q)
  BY <1>1, <1>2 DEF SameRank
<1>4. ~fatal[r]
  BY <1>0, <1>1 DEF FatalSeen
<1>5. CASE pc'[r] = "failed" /\ UNCHANGED <<cursor, s3phase>>
  <2>1. Reserved(r)' /\ RingTaken(r)' /\ FatalSeen(r)'
    BY <1>0, <1>1, <1>4, <1>5 DEF Reserved, RingTaken, FatalSeen, Reserving
  <2> QED
    BY <1>3, <1>5, <2>1, AloneCredits DEF CreditOf
<1>6. CASE room[r] \/ Writable(r, [p \in Bank |-> Used(p)])
  <2>1. torn[r] \/ HasRoom(r, Required)
    <3>1. CASE room[r]
      BY <1>0, <1>1, <3>1 DEF Reserved, Reserving
    <3>2. CASE Writable(r, [p \in Bank |-> Used(p)])
      <4> SUFFICES ASSUME NEW l \in Shard
                   PROVE  \E b \in {0, 1} : Available(<<r, l, b>>) >= Required
        BY DEF HasRoom
      <4>1. \A b \in {0, 1} : <<r, l, b>> \in Bank
        BY DEF Bank
      <4> QED
        BY <3>2, <4>1 DEF Writable, Available
    <3> QED
      BY <1>6, <3>1, <3>2
  <2>2. torn[r] \/ (HasRoom(r, Required)' /\ HasRoom(r, RecvCapacity)')
    <3>1. HasRoom(r, Required)' => HasRoom(r, RecvCapacity)'
      <4>1. Required \in Nat /\ RecvCapacity \in Nat /\ RecvCapacity <= Required
        BY DEF ExchangeAssumption, Required
      <4> SUFFICES ASSUME NEW l \in Shard, HasRoom(r, Required)'
                   PROVE  \E b \in {0, 1} : Available(<<r, l, b>>)' >= RecvCapacity
        BY DEF HasRoom
      <4>2. PICK b \in {0, 1} : Available(<<r, l, b>>)' >= Required
        BY DEF HasRoom
      <4>3. PICK p \in Bank : p = <<r, l, b>>
        BY DEF Bank
      <4>4. Available(<<r, l, b>>)' \in Nat
        BY <4>3, OccupancyStaysNat
      <4> QED
        BY <4>1, <4>2, <4>4
    <3> QED
      BY <1>0, <1>2, <2>1, <3>1, GainsKeep
  <2>3. CASE /\ pc'[r] = "pass" /\ s3phase'[r] = "launched" /\ cursor'[r] = cursor[r] + 1
             /\ stage[r] = "loop"
    <3>1. Reserved(r)' /\ FatalSeen(r)'
      BY <1>1, <1>4, <2>2, <2>3 DEF Reserved, FatalSeen, Reserving
    <3>2. cursor[r] >= 1 /\ cursor[r] \in Nat /\ Len(Loads[r]) \in Nat
          /\ DOMAIN Loads[r] = 1..Len(Loads[r])
      BY <1>1, <2>3, Local DEF RoundsFit, ExchangeAssumption
    <3>3. RingsLeft(r)
      BY <1>0, <1>1, <2>3 DEF RingTaken, Reserving
    <3>4. RingTaken(r)'
      BY <2>3, <3>2, <3>3 DEF RingTaken, RingsLeft, Reserving
    <3> QED
      BY <1>3, <2>3, <3>1, <3>4, AloneCredits DEF CreditOf
  <2>4. CASE pc'[r] = "counts" /\ s3phase' = s3phase /\ cursor' = cursor /\ stage[r] # "loop"
    <3>1. Reserved(r)' /\ FatalSeen(r)' /\ RingTaken(r)'
      BY <1>0, <1>1, <1>4, <2>2, <2>4 DEF Reserved, FatalSeen, RingTaken, Reserving
    <3> QED
      BY <1>3, <2>4, <3>1, AloneCredits DEF CreditOf
  <2>5. CASE pc'[r] = "failed"
    BY <1>5, <1>6, <2>5, Local DEF Launch
  <2> QED
    BY <1>5, <1>6, <2>3, <2>4, Local DEF Launch, StepInv, Maps
<1>7. CASE ~room[r] /\ ~Writable(r, [p \in Bank |-> Used(p)])
  BY <1>5, <1>7, Local DEF Launch
<1> QED
  BY <1>6, <1>7

\* Appending leaves the other ranks alone.
LEMMA AppendSpares ==
  ASSUME ExchangeAssumption, BanksFit, NEW r \in Rank, NEW rows, AppendRows(r, rows),
         UNCHANGED <<clean, processing>>, NEW q \in Rank \ {r}
  PROVE  Gains(q) /\ fatal'[q] = fatal[q]
<1>1. \A p \in Banks(q) : dirty'[p] = dirty[p]
  BY DEF AppendRows, Banks
<1>2. fatal'[q] = fatal[q]
  BY DEF AppendRows, BanksFit
<1> QED
  BY <1>1, <1>2, SameGains

LEMMA CollectCredits ==
  ASSUME ExchangeAssumption, StepInv, CreditInv, BanksFit', NEW r \in Rank, Collect(r)
  PROVE  CreditInv'
<1>0. BanksFit /\ Reserved(r) /\ RingTaken(r) /\ FatalSeen(r)
  BY DEF CreditInv, CreditOf
<1>1. /\ pc[r] = "collect" /\ ~fatal[r] /\ s3phase[r] \in {"idle", "done"}
      /\ AppendRows(r, incoming[r]) /\ incoming' = [incoming EXCEPT ![r] = {}]
      /\ UNCHANGED <<stage, cursor, room, torn, clean, processing>>
  BY <1>0 DEF Collect, RingTaken, FatalSeen
<1>2. \A q \in Rank \ {r} : pc'[q] = pc[q] /\ s3phase'[q] = s3phase[q]
  BY Local DEF Collect, Goto, StepInv, Maps
<1>3. \A q \in Rank \ {r} : SameRank(q) /\ Gains(q)
  BY <1>0, <1>1, <1>2, AppendSpares DEF SameRank, BanksFit
<1>4. ~torn[r] => ~fatal'[r]
  <2> SUFFICES ASSUME ~torn[r] PROVE ~fatal'[r]
    OBVIOUS
  <2>1. RecvCapacity \in Nat /\ RecvCapacity + 0 = RecvCapacity /\ 0 \in Nat
    BY DEF ExchangeAssumption
  <2>2. HasRoom(r, RecvCapacity + 0)
    BY <1>0, <1>1, <2>1 DEF Reserved
  <2>3. PICK rows \in SUBSET Cand : rows = incoming[r]
    BY <1>0 DEF BanksFit
  <2>4. \A l \in Shard : Cardinality(InShard(rows, l)) <= RecvCapacity
    <3> SUFFICES ASSUME NEW l \in Shard
                 PROVE  Cardinality(InShard(rows, l)) <= RecvCapacity
      OBVIOUS
    <3>1. Cardinality(rows) <= RecvCapacity
      BY <1>1, <2>3 DEF CreditInv, ReceiptsFit
    <3>2. InShard(rows, l) \in SUBSET rows
      BY DEF InShard
    <3>3. Cardinality(InShard(rows, l)) <= Cardinality(rows)
      BY <3>2, RowsFinite, FS_Subset
    <3>4. Cardinality(rows) \in Nat /\ Cardinality(InShard(rows, l)) \in Nat
      <4>1. InShard(rows, l) \in SUBSET Cand
        BY <3>2
      <4> QED
        BY <4>1, RowsFinite
    <3> QED
      BY <2>1, <3>1, <3>3, <3>4
  <2>5. AppendRows(r, rows)
    BY <1>1, <2>3
  <2>6. fatal'[r] => fatal[r]
    BY <1>0, <1>1, <2>1, <2>2, <2>4, <2>5, AppendLeavesRoom
  <2> QED
    BY <1>1, <2>6
<1>5. CASE fatal'[r]
  <2>1. pc'[r] = "failed" /\ s3phase' = s3phase
    BY <1>5, Local DEF Collect
  <2>2. Reserved(r)' /\ FatalSeen(r)' /\ RingTaken(r)'
    BY <1>0, <1>1, <1>4, <1>5, <2>1 DEF Reserved, FatalSeen, RingTaken, Reserving
  <2> QED
    BY <1>3, <2>1, <2>2, AloneCredits DEF CreditOf
<1>6. CASE ~fatal'[r]
  <2>1. pc'[r] \in {"launch", "pass"} /\ s3phase'[r] = "idle"
    BY <1>6, Local DEF Collect, StepInv, Maps
  <2>2. Reserved(r)' /\ FatalSeen(r)' /\ RingTaken(r)'
    BY <1>6, <2>1 DEF Reserved, FatalSeen, RingTaken, Reserving
  <2> QED
    BY <1>3, <2>1, <2>2, AloneCredits DEF CreditOf
<1> QED
  BY <1>5, <1>6

\* Stream 3 uses up what was reserved for its batch.
LEMMA AppendCredits ==
  ASSUME ExchangeAssumption, StepInv, CreditInv, BanksFit', NEW r \in Rank, Stream3Append(r)
  PROVE  CreditInv'
<1> DEFINE batch == Loads[r][cursor[r] - 1]
           kept == BestPerState(AtMost(batch, threshold[r]))
<1>0. BanksFit /\ Reserved(r) /\ RingTaken(r) /\ FatalSeen(r)
  BY DEF CreditInv, CreditOf
<1>1. /\ s3phase[r] = "launched" /\ s3phase' = [s3phase EXCEPT ![r] = "appended"]
      /\ AppendRows(r, OwnedBy(kept, r))
      /\ UNCHANGED <<pc, stage, cursor, room, torn, incoming, clean, processing>>
  BY DEF Stream3Append, hostVars
<1>2. PICK rows \in SUBSET Cand :
         /\ rows = OwnedBy(kept, r)
         /\ \A l \in Shard : Cardinality(InShard(rows, l)) <= BatchSize
  BY <1>1, LoadFits
<1> HIDE DEF batch, kept
<1>3. pc[r] \in {"pass", "failed"} /\ s3phase'[r] = "appended"
  BY <1>0, <1>1, Local DEF StageFits, RingTaken, StepInv, Maps
<1>4. \A q \in Rank \ {r} : SameRank(q) /\ Gains(q)
  BY <1>0, <1>1, <1>2, AppendSpares DEF SameRank, BanksFit, StepInv, Maps
<1>5. ~torn[r] => ~fatal'[r] /\ HasRoom(r, RecvCapacity)'
  <2> SUFFICES ASSUME ~torn[r] PROVE ~fatal'[r] /\ HasRoom(r, RecvCapacity)'
    OBVIOUS
  <2>1. RecvCapacity \in Nat /\ BatchSize \in Nat
    BY DEF ExchangeAssumption
  <2>2. HasRoom(r, BatchSize + RecvCapacity) /\ ~fatal[r]
    BY <1>0, <1>1 DEF Reserved, FatalSeen, Required
  <2>3. AppendRows(r, rows)
    BY <1>1, <1>2
  <2> QED
    BY <1>0, <1>1, <1>2, <2>1, <2>2, <2>3, AppendLeavesRoom
<1>6. Reserved(r)' /\ RingTaken(r)' /\ FatalSeen(r)'
  BY <1>1, <1>3, <1>5 DEF Reserved, RingTaken, FatalSeen, Reserving, RingsLeft
<1> QED
  BY <1>1, <1>3, <1>4, <1>6, AloneCredits DEF CreditOf

LEMMA BuildCredits ==
  ASSUME ExchangeAssumption, StepInv, CreditInv, BanksFit', NEW r \in Rank, Stream3BuildReady(r)
  PROVE  CreditInv'
<1>0. BanksFit /\ Reserved(r) /\ RingTaken(r) /\ FatalSeen(r)
  BY DEF CreditInv, CreditOf
<1>1. /\ s3phase[r] = "appended" /\ s3phase' = [s3phase EXCEPT ![r] = "done"]
      /\ BuildReadyQueue(r)
      /\ UNCHANGED <<pc, stage, cursor, room, torn, incoming, fatal, clean, dirty>>
  BY DEF Stream3BuildReady, hostVars
<1>2. pc[r] \in {"pass", "failed"} /\ s3phase'[r] = "done"
  BY <1>0, <1>1, Local DEF StageFits, RingTaken, StepInv, Maps
<1>3. \A q \in Rank \ {r} : SameRank(q) /\ Gains(q)
  <2>1. ASSUME NEW q \in Rank \ {r} PROVE Gains(q)
    <3>1. \A p \in Banks(q) : processing'[p] = processing[p]
      BY <1>0, <1>1 DEF BuildReadyQueue, Banks, BanksFit
    <3> QED
      BY <1>0, <1>1, <3>1, SameGains
  <2> QED
    BY <1>1, <2>1 DEF SameRank, StepInv, Maps
<1>4. HasRoom(r, RecvCapacity) => HasRoom(r, RecvCapacity)'
  BY <1>0, <1>1, BuildLeavesCredit
<1>5. Reserved(r)' /\ RingTaken(r)' /\ FatalSeen(r)'
  BY <1>0, <1>1, <1>2, <1>4 DEF Reserved, RingTaken, FatalSeen, Reserving, RingsLeft
<1> QED
  BY <1>1, <1>2, <1>3, <1>5, AloneCredits DEF CreditOf

\* Steps that leave all ranks where they are, and their banks no fuller.
LEMMA IdleCredits ==
  ASSUME ExchangeAssumption, CreditInv, BanksFit',
         UNCHANGED <<hostVars, streamVars>>, \A q \in Rank : Gains(q)
  PROVE  CreditInv'
<1>1. \A q \in Rank : CreditOf(q)'
  BY SameKeeps DEF CreditInv, SameRank, hostVars, streamVars
<1>2. ReceiptsFit'
  BY DEF CreditInv, ReceiptsFit, All, SentTo, hostVars, streamVars
<1> QED
  BY <1>1, <1>2 DEF CreditInv

LEMMA JobGains ==
  ASSUME ExchangeAssumption, BanksFit, NEW p \in Bank, Stream4Job(p), NEW q \in Rank
  PROVE  Gains(q)
<1> SUFFICES ASSUME NEW b \in Banks(q)
             PROVE  Used(b)' <= Used(b) /\ (processing'[b] => processing[b])
  BY DEF Gains
<1>1. b \in Bank /\ Used(b) \in Nat
  BY OccupancyIsNat DEF Banks
<1>2. CASE b = p
  <2>1. clean'[b] = Sorted(b) /\ dirty'[b] = {} /\ ~processing'[b]
    BY <1>1, <1>2 DEF Stream4Job, BanksFit
  <2>2. Used(b)' = Cardinality(Sorted(b)) + Cardinality({})
    BY <2>1 DEF Used
  <2> QED
    BY <1>1, <2>1, <2>2, SortShrinks
<1>3. CASE b # p
  <2>1. clean'[b] = clean[b] /\ dirty'[b] = dirty[b] /\ processing'[b] = processing[b]
    BY <1>1, <1>3 DEF Stream4Job, BanksFit
  <2> QED
    BY <1>1, <2>1 DEF Used
<1> QED
  BY <1>2, <1>3

\* A collective moves no row into a bank.
LEMMA CollectiveCredits ==
  ASSUME ExchangeAssumption, StepInv, CreditInv, BanksFit', Collective
  PROVE  CreditInv'
<1>0. BanksFit /\ \A r \in Rank : Reserved(r) /\ RingTaken(r) /\ FatalSeen(r)
  BY DEF CreditInv, CreditOf
<1>1. UNCHANGED <<stage, cursor, room, torn, fatal, s3phase, clean, dirty, processing>>
  BY DEF Collective, AgreeRounds, AgreeRequest, UpdateThreshold, ExchangeCounts,
     ExchangePayload, Select, streamVars, bankVars
<1>2. \A q \in Rank : Gains(q)
  BY <1>0, <1>1, SameGains
<1>3. \A q \in Rank : /\ HasRoom(q, Required) => HasRoom(q, Required)'
                      /\ HasRoom(q, RecvCapacity) => HasRoom(q, RecvCapacity)'
  BY <1>0, <1>2, GainsKeep
<1>4. ASSUME \A r \in Rank : pc[r] # "failed" /\ ~fatal[r],
             \A r \in Rank :
                 /\ pc'[r] \in Reserving /\ stage[r] # "end" => pc[r] \in Reserving
                 /\ pc'[r] # "counts" /\ pc'[r] \notin {"admit", "copyDirty", "copyProcessing"}
                 /\ pc'[r] \in {"payload", "collect"} => pc[r] \in {"counts", "payload"},
             ReceiptsFit'
      PROVE  CreditInv'
  <2>1. ASSUME NEW r \in Rank PROVE CreditOf(r)'
    <3>1. Reserved(r)'
      BY <1>0, <1>1, <1>3, <1>4 DEF Reserved
    <3>2. RingTaken(r)'
      BY <1>0, <1>1, <1>4 DEF RingTaken, RingsLeft
    <3>3. FatalSeen(r)'
      BY <1>1, <1>4 DEF FatalSeen
    <3> QED
      BY <3>1, <3>2, <3>3 DEF CreditOf
  <2> QED
    BY <1>4, <2>1 DEF CreditInv
<1>5. ASSUME NEW place \in {"rounds", "request", "update", "counts", "payload", "select"},
             All(place)
      PROVE  \A r \in Rank : pc[r] = place /\ pc[r] # "failed" /\ ~fatal[r]
  BY <1>0, <1>5 DEF All, FatalSeen
<1>6. Rank # {}
  BY RankFinite
<1>7. CASE AgreeRounds
  <2>1. \A r \in Rank : pc'[r] = "pass"
    BY <1>7 DEF AgreeRounds, GotoAll, Start
  <2>2. ReceiptsFit'
    BY <1>6, <2>1 DEF ReceiptsFit, All
  <2> QED
    BY <1>4, <1>5, <1>7, <2>1, <2>2 DEF AgreeRounds, Reserving
<1>8. CASE AgreeRequest \/ UpdateThreshold
  <2>1. \A r \in Rank : /\ pc[r] \in {"request", "update"}
                        /\ pc'[r] \in {"drain", "admitted", "histogram"}
    <3>1. CASE UpdateThreshold
      BY <3>1 DEF UpdateThreshold, GotoAll, Settled, All
    <3>2. CASE AgreeRequest
      <4>1. \A q \in Rank : OwnRequest(q) \in {0, 1, 2}
        BY <3>2, Local DEF AgreeRequest, All, RoundsFit, OwnRequest
      <4>2. \A r \in Rank : GlobalRequest(r) \in {0, 1, 2}
        BY <4>1, RequestAgreed
      <4> QED
        BY <3>2, <4>2 DEF AgreeRequest, GotoAll, Settled, All
    <3> QED
      BY <1>8, <3>1, <3>2
  <2>2. ReceiptsFit'
    BY <1>6, <2>1 DEF ReceiptsFit, All
  <2>3. \A r \in Rank : pc[r] # "failed" /\ ~fatal[r]
    BY <1>0, <2>1 DEF FatalSeen
  <2> QED
    BY <1>4, <2>1, <2>2, <2>3 DEF Reserving
<1>9. CASE ExchangeCounts
  <2>1. /\ \A r \in Rank : pc'[r] = IF Cardinality(SentTo(r)) > RecvCapacity THEN "failed"
                                     ELSE "payload"
        /\ UNCHANGED <<outgoing, incoming>>
    BY <1>9 DEF ExchangeCounts, GotoAll, streamVars
  <2>2. \A r \in Rank : Cardinality(SentTo(r)) \in Nat /\ RecvCapacity \in Nat
                        /\ SentTo(r)' = SentTo(r)
    BY <1>0, <2>1, SentAreRows DEF ExchangeAssumption, SentTo
  <2>3. ReceiptsFit'
    BY <1>6, <2>1, <2>2 DEF ReceiptsFit, All
  <2>4. \A r \in Rank : pc[r] = "counts" /\ pc'[r] \in {"failed", "payload"}
    BY <1>9, <2>1 DEF ExchangeCounts, All
  <2> QED
    BY <1>4, <1>5, <1>9, <2>3, <2>4 DEF ExchangeCounts, Reserving
<1>10. CASE ExchangePayload
  <2>1. \A r \in Rank : pc[r] = "payload" /\ pc'[r] = "collect" /\ incoming'[r] = SentTo(r)
    BY <1>10 DEF ExchangePayload, GotoAll, Start, All
  <2>2. \A r \in Rank : Cardinality(SentTo(r)) <= RecvCapacity
    BY <1>10 DEF ExchangePayload, CreditInv, ReceiptsFit
  <2>3. ReceiptsFit'
    BY <1>6, <2>1, <2>2 DEF ReceiptsFit, All
  <2> QED
    BY <1>4, <1>5, <1>10, <2>1, <2>3 DEF ExchangePayload, Reserving
<1>11. CASE Select
  <2>1. \A r \in Rank : pc'[r] = "done"
    BY <1>11 DEF Select, GotoAll, Start
  <2>2. ReceiptsFit'
    BY <1>6, <2>1 DEF ReceiptsFit, All
  <2> QED
    BY <1>4, <1>5, <1>11, <2>1, <2>2 DEF Select, Reserving
<1> QED
  BY <1>7, <1>8, <1>9, <1>10, <1>11 DEF Collective

LEMMA CreditStep ==
  ASSUME ExchangeAssumption, StepInv, CreditInv, [Next]_vars
  PROVE  CreditInv'
<1>0. BanksFit /\ BanksFit'
  BY TypesStep DEF CreditInv
<1>1. CASE Collective
  BY <1>0, <1>1, CollectiveCredits
<1>2. ASSUME NEW r \in Rank, Step(r) PROVE CreditInv'
  <2>1. CASE \/ Serve(r) \/ FinishStream3(r) \/ LeaveLoop(r) \/ TailRound(r)
             \/ CopyCleanCounts(r) \/ CopyDirtyCounts(r) \/ Drain(r) \/ TakeHistogram(r)
    <3>1. UNCHANGED <<cursor, room, torn, streamVars, clean, dirty, processing>>
      BY <2>1 DEF Serve, FinishStream3, LeaveLoop, TailRound, CopyCleanCounts, CopyDirtyCounts,
         Drain, TakeHistogram, bankVars
    <3>2. \A q \in Rank \ {r} : pc'[q] = pc[q] /\ stage'[q] = stage[q]
      BY <2>1 DEF Serve, FinishStream3, LeaveLoop, TailRound, CopyCleanCounts, CopyDirtyCounts,
         Drain, TakeHistogram, Goto, StepInv, Maps
    <3> QED
      BY <1>0, <2>1, <3>1, <3>2, HostCredits
  <2> QED
    BY <1>0, <1>2, <2>1, CheckCredits, SortCredits, LaunchCredits, CollectCredits DEF Step
<1>3. ASSUME NEW r \in Rank, Stream3(r) PROVE CreditInv'
  BY <1>0, <1>3, AppendCredits, BuildCredits DEF Stream3
<1>4. ASSUME NEW r \in Rank, NEW p \in Banks(r), Stream4Job(p) PROVE CreditInv'
  <2>1. p \in Bank
    BY DEF Banks
  <2>2. \A q \in Rank : Gains(q)
    BY <1>0, <1>4, <2>1, JobGains
  <2> QED
    BY <1>0, <1>4, <2>2, IdleCredits DEF Stream4Job
<1>5. CASE UNCHANGED vars
  <2>1. \A q \in Rank : Gains(q)
    BY <1>0, <1>5, SameGains DEF vars, bankVars
  <2> QED
    BY <1>0, <1>5, <2>1, IdleCredits DEF vars
<1> QED
  BY <1>1, <1>2, <1>3, <1>4, <1>5 DEF Next, Ended

LEMMA CreditInit ==
  ASSUME ExchangeAssumption, Init
  PROVE  CreditInv
<1>1. Rank # {}
  BY RankFinite
<1>2. BanksFit
  BY DEF Init, Start, BanksFit
<1>3. ReceiptsFit /\ \A r \in Rank : CreditOf(r)
  BY <1>1 DEF Init, Start, ReceiptsFit, CreditOf, Reserved, RingTaken, FatalSeen, All, Reserving
<1> QED
  BY <1>2, <1>3 DEF CreditInv

\* "Local collection preserves the pre-admitted receive credit", for every number of
\* ranks, every division of the loads and all sizes: a rank whose room was checked on
\* counters of one moment finds it when its batch and what the peers send arrive,
\* however Stream 4, the updates and the peers come in between
\* (reserve_stream3_round, stream3_build_ready_shard_queue and
\* stream3_collect_remote_recv; dispatcher.cu:3524).
THEOREM CreditAlwaysKept ==
  ASSUME ExchangeAssumption
  PROVE  Spec => []CreditKept
<1>1. Init => StepInv /\ CreditInv
  BY StepInvInit, CreditInit
<1>2. StepInv /\ CreditInv /\ [Next]_vars => StepInv' /\ CreditInv'
  BY StepInvNext, CreditStep
<1>3. CreditInv => CreditKept
  BY DEF CreditInv, CreditOf, FatalSeen, CreditKept
<1> QED
  BY <1>1, <1>2, <1>3, PTL DEF Spec
-----------------------------------------------------------------------------
(* What a reduction makes of the counts of shards and ranks.                *)

\* A sum of counts, each at most the size of a set of its own, is at most the size
\* of all of them together.
LEMMA TotalBound ==
  ASSUME NEW D, NEW n \in [D -> Nat], NEW A, NEW B, IsFiniteSet(B),
         \A x \in D : A[x] \in SUBSET B /\ n[x] <= Cardinality(A[x]),
         \A x, y \in D : x # y => A[x] \cap A[y] = {}
  PROVE  Total([x \in D |-> 1..n[x]]) \in Nat /\ Total([x \in D |-> 1..n[x]]) <= Cardinality(B)
<1> DEFINE T == UNION {{x} \X (1..n[x]) : x \in D}
           g == [x \in D |-> CHOOSE h : h \in Injection(1..n[x], A[x])]
           f == [p \in T |-> g[p[1]][p[2]]]
<1>1. ASSUME NEW x \in D PROVE g[x] \in Injection(1..n[x], A[x])
  <2>1. IsFiniteSet(A[x])
    BY FS_Subset
  <2>2. Cardinality(A[x]) \in Nat /\ ExistsBijection(1..Cardinality(A[x]), A[x])
    BY <2>1, FS_CardinalityType
  <2>3. PICK h : h \in Bijection(1..Cardinality(A[x]), A[x])
    BY <2>2 DEF ExistsBijection
  <2> DEFINE k == [i \in 1..n[x] |-> h[i]]
  <2>4. 1..n[x] \subseteq 1..Cardinality(A[x])
    BY <2>2
  <2>5. k \in Injection(1..n[x], A[x])
    BY <2>3, <2>4 DEF Bijection, Injection, IsInjective
  <2> QED
    BY <2>5
<1>2. \A p \in T : p = <<p[1], p[2]>> /\ p[1] \in D /\ p[2] \in 1..n[p[1]]
  OBVIOUS
<1> HIDE DEF T, g
<1>3. f \in Injection(T, B)
  <2>1. \A p \in T : f[p] \in A[p[1]] /\ f[p] \in B
    BY <1>1, <1>2 DEF Injection
  <2>2. ASSUME NEW p \in T, NEW q \in T, f[p] = f[q] PROVE p = q
    <3>1. p[1] = q[1]
      BY <1>2, <2>1, <2>2
    <3>2. p[2] = q[2]
      BY <1>1, <1>2, <2>2, <3>1 DEF Injection, IsInjective
    <3> QED
      BY <1>2, <3>1, <3>2
  <2> QED
    BY <2>1, <2>2 DEF Injection, IsInjective
<1> HIDE DEF f
<1>4. IsFiniteSet(T) /\ Cardinality(T) <= Cardinality(B)
  BY <1>3, FS_Injection
<1>5. Total([x \in D |-> 1..n[x]]) = Cardinality(T)
  BY DEF Total, T
<1> QED
  BY <1>4, <1>5, FS_CardinalityType

\* The sum of the sizes of sets that share nothing is the size of their union.
LEMMA TotalOfSets ==
  ASSUME NEW D, NEW F, DOMAIN F = D, IsFiniteSet(UNION {F[x] : x \in D}),
         \A x, y \in D : x # y => F[x] \cap F[y] = {}
  PROVE  Total(F) = Cardinality(UNION {F[x] : x \in D})
<1> DEFINE T == UNION {{x} \X F[x] : x \in D}
           U == UNION {F[x] : x \in D}
           f == [p \in T |-> p[2]]
<1>1. \A p \in T : p = <<p[1], p[2]>> /\ p[1] \in D /\ p[2] \in F[p[1]]
  OBVIOUS
<1>2. \A x \in D : \A y \in F[x] : <<x, y>> \in T
  OBVIOUS
<1>3. /\ \A p \in T : p[2] \in U
      /\ \A u \in U : \E p \in T : p[2] = u
  <2>1. ASSUME NEW u \in U PROVE \E p \in T : p[2] = u
    <3>1. PICK x \in D : u \in F[x]
      OBVIOUS
    <3>2. <<x, u>> \in T /\ <<x, u>>[2] = u
      BY <1>2, <3>1
    <3> HIDE DEF T
    <3> QED
      BY <3>2
  <2> QED
    BY <1>1, <2>1
<1> HIDE DEF T
<1>4. f \in Injection(T, U) /\ f \in Surjection(T, U)
  <2>1. \A p, q \in T : f[p] = f[q] => p = q
    BY <1>1
  <2>2. f \in [T -> U]
    BY <1>3
  <2>3. \A u \in U : \E p \in T : f[p] = u
    BY <1>3
  <2> HIDE DEF U, f
  <2> QED
    BY <2>1, <2>2, <2>3 DEF Injection, IsInjective, Surjection
<1>5. IsFiniteSet(U)
  OBVIOUS
<1> HIDE DEF U, f
<1>6. Cardinality(T) = Cardinality(U)
  BY <1>4, <1>5, FS_Injection
<1> QED
  BY <1>6 DEF Total, T, U
-----------------------------------------------------------------------------
(* Where the rows are.                                                     *)

\* The rows offered that belong to shard l of rank r.
Homes(r, l) == {c \in offered : OwnerOf[StateOf[c]] = r /\ ShardOf[StateOf[c]] = l}

\* Rows are held where they belong: in a bank of their rank and shard, on the way
\* to their rank, or by a rank that has yet to send them.
RowsInv ==
    /\ offered \in SUBSET Cand /\ hist \in [Bank -> SUBSET Cand]
    /\ \A p \in Bank : /\ clean[p] \subseteq Homes(p[1], p[2])
                       /\ dirty[p] \subseteq Homes(p[1], p[2])
                       /\ hist[p] \subseteq Homes(p[1], p[2])
                       /\ OnePerState(hist[p])
    /\ \A r \in Rank : /\ incoming[r] \subseteq OwnedBy(offered, r)
                       /\ outgoing[r] \subseteq offered \ OwnedBy(offered, r)

\* Rows are on their way only during an exchange.
MovesInv ==
    \A r \in Rank :
        /\ incoming[r] # {} => pc[r] = "collect"
        /\ outgoing[r] # {} => s3phase[r] \in {"appended", "done"} /\ pc[r] # "collect"

rowVars == <<offered, incoming, outgoing, fatal, clean, dirty, hist>>
thresholdVars == <<threshold, initialized>>

\* The steps that leave every row where it is, and the threshold as it is.
Quiet(r) ==
    \/ Serve(r) \/ FinishStream3(r) \/ LeaveLoop(r) \/ TailRound(r)
    \/ CopyCleanCounts(r) \/ CopyDirtyCounts(r) \/ CopyProcessingFlags(r)
    \/ Drain(r) \/ TakeHistogram(r) \/ Stream3BuildReady(r)

\* Banks of `which` are sorted, by the host or by a Stream 4 job.
SortsOf(which) ==
    /\ clean' = [p \in Bank |-> IF p \in which THEN Sorted(p) ELSE clean[p]]
    /\ dirty' = [p \in Bank |-> IF p \in which THEN {} ELSE dirty[p]]
    /\ hist' = [p \in Bank |-> IF p \in which THEN Sorted(p) ELSE hist[p]]

Sorts ==
    /\ \E which \in SUBSET Bank : SortsOf(which)
    /\ \A r \in Rank : \/ pc'[r] = pc[r]
                       \/ pc[r] = "compact" /\ pc'[r] \in {"histogram", "admitted"}
                       \/ pc[r] = "flush" /\ pc'[r] = "select"
    /\ UNCHANGED <<stage, cursor, offered, incoming, outgoing, fatal, s3phase, thresholdVars,
                   beam>>

LEMMA QuietKeeps ==
  ASSUME NEW r \in Rank, Quiet(r)
  PROVE  UNCHANGED <<rowVars, thresholdVars, beam>>
BY DEF Quiet, Serve, FinishStream3, LeaveLoop, TailRound, CopyCleanCounts, CopyDirtyCounts,
   CopyProcessingFlags, Drain, TakeHistogram, Stream3BuildReady, rowVars, thresholdVars,
   streamVars, bankVars

LEMMA SortSteps ==
  ASSUME StepInv, BanksFit, RowsInv, NEW r \in Rank,
         Compact(r) \/ Flush(r) \/ \E p \in Banks(r) : Stream4Job(p)
  PROVE  Sorts
<1>1. CASE Compact(r)
  <2>1. Banks(r) \in SUBSET Bank
    BY DEF Banks
  <2>2. /\ pc[r] = "compact" /\ pc'[r] \in {"histogram", "admitted"}
        /\ \A q \in Rank \ {r} : pc'[q] = pc[q]
    BY <1>1, Local DEF Compact, StageFits, Goto, StepInv, Maps
  <2> QED
    BY <1>1, <2>1, <2>2 DEF Compact, SortBanks, Sorts, SortsOf, streamVars, thresholdVars
<1>2. CASE Flush(r)
  <2>1. PICK again \in SUBSET Banks(r) : SortBanks({p \in Banks(r) : dirty[p] # {}} \cup again)
    BY <1>2 DEF Flush
  <2>2. PICK which \in SUBSET Bank : SortsOf(which)
    BY <2>1 DEF Banks, SortBanks, SortsOf
  <2>3. pc[r] = "flush" /\ pc'[r] = "select" /\ \A q \in Rank \ {r} : pc'[q] = pc[q]
    BY <1>2 DEF Flush, Goto, StepInv, Maps
  <2> QED
    BY <1>2, <2>2, <2>3 DEF Flush, Sorts, streamVars, thresholdVars
<1>3. ASSUME NEW p \in Banks(r), Stream4Job(p) PROVE Sorts
  <2>1. p \in Bank
    BY DEF Banks
  <2>2. SortsOf({p})
    BY <1>3, <2>1 DEF Stream4Job, SortsOf, BanksFit, RowsInv
  <2> QED
    BY <1>3, <2>1, <2>2 DEF Stream4Job, Sorts, hostVars, streamVars, thresholdVars
<1> QED
  BY <1>1, <1>2, <1>3

\* Every step is one of these.
LEMMA StepKinds ==
  ASSUME StepInv, BanksFit, RowsInv, [Next]_vars
  PROVE  \/ \E r \in Rank : Quiet(r) \/ Launch(r) \/ Stream3Append(r) \/ Collect(r)
         \/ Sorts
         \/ AgreeRounds \/ AgreeRequest \/ UpdateThreshold
         \/ ExchangeCounts \/ ExchangePayload \/ Select
         \/ UNCHANGED vars
<1>1. ASSUME NEW r \in Rank, Step(r)
      PROVE  Quiet(r) \/ Launch(r) \/ Collect(r) \/ Sorts
  BY <1>1, SortSteps DEF Step, Quiet
<1>2. ASSUME NEW r \in Rank, Stream3(r) PROVE Quiet(r) \/ Stream3Append(r)
  BY <1>2 DEF Stream3, Quiet
<1>3. ASSUME NEW r \in Rank, NEW p \in Banks(r), Stream4Job(p) PROVE Sorts
  BY <1>3, SortSteps
<1> QED
  BY <1>1, <1>2, <1>3 DEF Next, Ended, Collective

LEMMA SortedRows ==
  ASSUME BanksFit, NEW p \in Bank
  PROVE  /\ Sorted(p) \subseteq clean[p] \cup dirty[p]
         /\ Sorted(p) \in SUBSET Cand /\ OnePerState(Sorted(p))
<1>1. AtMost(clean[p] \cup dirty[p], threshold[p[1]]) \in SUBSET Cand
  BY DEF BanksFit, AtMost
<1> QED
  BY <1>1, BestIsUnique DEF Sorted, BestPerState, AtMost

\* Rows appended land in the banks of their shard on the rank, and nowhere else.
LEMMA AppendPlaces ==
  ASSUME NEW r \in Rank, NEW rows, AppendRows(r, rows), NEW p \in Bank
  PROVE  /\ dirty[p] \subseteq dirty'[p]
         /\ dirty'[p] \subseteq dirty[p] \cup InShard(rows, p[2])
         /\ p[1] # r => dirty'[p] = dirty[p]
BY DEF AppendRows

LEMMA QuietRows ==
  ASSUME RowsInv, UNCHANGED <<offered, incoming, outgoing, clean, dirty, hist>>
  PROVE  RowsInv'
BY DEF RowsInv, Homes, OwnedBy, OnePerState

LEMMA SortRows ==
  ASSUME BanksFit, RowsInv, Sorts
  PROVE  RowsInv'
<1>1. PICK which \in SUBSET Bank : SortsOf(which)
  BY DEF Sorts
<1>2. UNCHANGED <<offered, incoming, outgoing>>
  BY DEF Sorts
<1>3. ASSUME NEW p \in Bank
      PROVE  /\ clean'[p] \subseteq Homes(p[1], p[2]) /\ dirty'[p] \subseteq Homes(p[1], p[2])
             /\ hist'[p] \subseteq Homes(p[1], p[2]) /\ OnePerState(hist'[p])
  <2>1. /\ Sorted(p) \subseteq clean[p] \cup dirty[p] /\ OnePerState(Sorted(p))
    BY SortedRows
  <2>2. Sorted(p) \subseteq Homes(p[1], p[2])
    BY <2>1 DEF RowsInv
  <2> QED
    BY <1>1, <2>1, <2>2 DEF SortsOf, RowsInv
<1>4. hist' \in [Bank -> SUBSET Cand]
  BY <1>1, SortedRows DEF SortsOf, RowsInv
<1> QED
  BY <1>2, <1>3, <1>4 DEF RowsInv, Homes, OwnedBy, OnePerState

LEMMA AppendRowsHold ==
  ASSUME ExchangeAssumption, CreditInv, RowsInv, NEW r \in Rank, Stream3Append(r)
  PROVE  RowsInv'
<1> DEFINE batch == Loads[r][cursor[r] - 1]
           kept == BestPerState(AtMost(batch, threshold[r]))
<1>0. BanksFit
  BY DEF CreditInv
<1>1. /\ s3phase[r] = "launched" /\ AppendRows(r, OwnedBy(kept, r))
      /\ outgoing' = [outgoing EXCEPT ![r] = kept \ OwnedBy(kept, r)]
      /\ offered' = offered \cup batch /\ UNCHANGED <<incoming, clean, hist>>
  BY DEF Stream3Append
<1>2. batch \in SUBSET Cand /\ kept \subseteq batch
  BY <1>1, LoadFits DEF BestPerState, AtMost
<1> HIDE DEF batch, kept
<1>3. offered \subseteq offered' /\ kept \subseteq offered' /\ offered' \in SUBSET Cand
  BY <1>1, <1>2 DEF RowsInv
<1>4. ASSUME NEW p \in Bank
      PROVE  /\ clean'[p] \subseteq Homes(p[1], p[2])' /\ dirty'[p] \subseteq Homes(p[1], p[2])'
             /\ hist'[p] \subseteq Homes(p[1], p[2])' /\ OnePerState(hist'[p])
  <2>1. Homes(p[1], p[2]) \subseteq Homes(p[1], p[2])'
    BY <1>3 DEF Homes
  <2>2. InShard(OwnedBy(kept, r), p[2]) \subseteq Homes(r, p[2])'
    BY <1>3 DEF Homes, OwnedBy, InShard
  <2>3. dirty'[p] \subseteq dirty[p] \cup InShard(OwnedBy(kept, r), p[2]) /\ (p[1] # r => dirty'[p] = dirty[p])
    BY <1>1, AppendPlaces
  <2> QED
    BY <1>1, <2>1, <2>2, <2>3 DEF RowsInv
<1>5. ASSUME NEW q \in Rank
      PROVE  /\ incoming'[q] \subseteq OwnedBy(offered', q)
             /\ outgoing'[q] \subseteq offered' \ OwnedBy(offered', q)
  <2>1. outgoing'[q] = IF q = r THEN kept \ OwnedBy(kept, r) ELSE outgoing[q]
    BY <1>0, <1>1 DEF BanksFit
  <2> QED
    BY <1>1, <1>3, <2>1 DEF RowsInv, OwnedBy
<1> QED
  BY <1>1, <1>3, <1>4, <1>5 DEF RowsInv, OwnedBy, OnePerState

LEMMA CollectRows ==
  ASSUME BanksFit, RowsInv, NEW r \in Rank, Collect(r)
  PROVE  RowsInv'
<1>1. /\ AppendRows(r, incoming[r]) /\ incoming' = [incoming EXCEPT ![r] = {}]
      /\ UNCHANGED <<outgoing, offered, clean, hist>>
  BY DEF Collect
<1>2. PICK rows : rows = incoming[r]
  OBVIOUS
<1>3. ASSUME NEW p \in Bank PROVE dirty'[p] \subseteq Homes(p[1], p[2])
  <2>1. dirty'[p] \subseteq dirty[p] \cup InShard(rows, p[2]) /\ (p[1] # r => dirty'[p] = dirty[p])
    BY <1>1, <1>2, AppendPlaces
  <2>2. InShard(rows, p[2]) \subseteq Homes(r, p[2])
    BY <1>2 DEF RowsInv, InShard, OwnedBy, Homes
  <2> QED
    BY <2>1, <2>2 DEF RowsInv
<1>4. \A q \in Rank : incoming'[q] \subseteq incoming[q]
  BY <1>1 DEF BanksFit
<1> QED
  BY <1>1, <1>3, <1>4 DEF RowsInv, Homes, OwnedBy, OnePerState

LEMMA PayloadRows ==
  ASSUME RowsInv, ExchangePayload
  PROVE  RowsInv'
<1>1. /\ incoming' = [r \in Rank |-> SentTo(r)] /\ outgoing' = [r \in Rank |-> {}]
      /\ UNCHANGED <<offered, clean, dirty, hist>>
  BY DEF ExchangePayload, Start, bankVars
<1>2. \A r \in Rank : SentTo(r) \subseteq OwnedBy(offered, r)
  BY DEF RowsInv, SentTo, OwnedBy
<1> QED
  BY <1>1, <1>2 DEF RowsInv, Homes, OwnedBy, OnePerState

LEMMA RowsStep ==
  ASSUME ExchangeAssumption, StepInv, CreditInv, RowsInv, [Next]_vars
  PROVE  RowsInv'
<1>0. BanksFit
  BY DEF CreditInv
<1>1. ASSUME NEW r \in Rank, Quiet(r) PROVE RowsInv'
  BY <1>1, QuietKeeps, QuietRows DEF rowVars
<1>2. ASSUME NEW r \in Rank, Launch(r) PROVE RowsInv'
  <2>1. /\ UNCHANGED <<offered, incoming, clean, dirty, hist>>
        /\ \A q \in Rank : outgoing'[q] = outgoing[q] \/ outgoing'[q] = {}
    BY <1>0, <1>2 DEF Launch, bankVars, BanksFit
  <2> QED
    BY <2>1 DEF RowsInv, Homes, OwnedBy, OnePerState
<1>3. CASE AgreeRounds \/ AgreeRequest \/ UpdateThreshold \/ ExchangeCounts \/ Select
  BY <1>3, QuietRows DEF AgreeRounds, AgreeRequest, UpdateThreshold, ExchangeCounts, Select,
     streamVars, bankVars
<1>4. CASE UNCHANGED vars
  BY <1>4, QuietRows DEF vars, streamVars, bankVars
<1> QED
  BY <1>0, <1>1, <1>2, <1>3, <1>4, StepKinds, SortRows, AppendRowsHold, CollectRows, PayloadRows

\* What the ranks request of each other is one of three things.
LEMMA RequestKnown ==
  ASSUME ExchangeAssumption, StepInv, AgreeRequest
  PROVE  \A r \in Rank : GlobalRequest(r) \in {0, 1, 2}
<1>1. \A q \in Rank : OwnRequest(q) \in {0, 1, 2}
  BY Local DEF AgreeRequest, All, RoundsFit, OwnRequest
<1> QED
  BY <1>1, RequestAgreed

LEMMA MovesStep ==
  ASSUME ExchangeAssumption, StepInv, CreditInv, RowsInv, MovesInv, [Next]_vars
  PROVE  MovesInv'
<1>0. BanksFit /\ Maps /\ \A r \in Rank : StageFits(r) /\ RingTaken(r)
  BY DEF CreditInv, CreditOf, StepInv
<1>1. ASSUME NEW r \in Rank, Quiet(r) PROVE MovesInv'
  <2>1. /\ UNCHANGED <<incoming, outgoing>>
        /\ \A q \in Rank \ {r} : pc'[q] = pc[q]
        /\ s3phase' = s3phase \/ (s3phase[r] = "appended" /\ s3phase' = [s3phase EXCEPT ![r] = "done"])
    BY <1>0, <1>1 DEF Quiet, Serve, FinishStream3, LeaveLoop, TailRound, CopyCleanCounts,
       CopyDirtyCounts, CopyProcessingFlags, Drain, TakeHistogram, Stream3BuildReady,
       streamVars, hostVars, Goto, Maps
  <2>2. pc'[r] = pc[r] \/ (pc[r] # "collect" /\ pc'[r] # "collect")
    BY <1>0, <1>1 DEF Quiet, Serve, FinishStream3, LeaveLoop, TailRound, CopyCleanCounts,
       CopyDirtyCounts, CopyProcessingFlags, Drain, TakeHistogram, Stream3BuildReady,
       hostVars, Goto, Maps
  <2> QED
    BY <1>0, <2>1, <2>2 DEF MovesInv, Maps
<1>2. ASSUME NEW r \in Rank, Launch(r) PROVE MovesInv'
  <2>1. /\ pc[r] = "admitted" /\ s3phase[r] = "idle" /\ UNCHANGED incoming
        /\ \A q \in Rank : outgoing'[q] = outgoing[q] \/ outgoing'[q] = {}
        /\ \A q \in Rank \ {r} : pc'[q] = pc[q] /\ s3phase'[q] = s3phase[q]
        /\ pc'[r] # "collect"
    BY <1>0, <1>2 DEF Launch, BanksFit, StageFits, Goto, Maps
  <2> QED
    BY <2>1 DEF MovesInv
<1>3. ASSUME NEW r \in Rank, Stream3Append(r) PROVE MovesInv'
  <2>1. /\ s3phase[r] = "launched" /\ s3phase' = [s3phase EXCEPT ![r] = "appended"]
        /\ UNCHANGED <<pc, incoming>> /\ \A q \in Rank \ {r} : outgoing'[q] = outgoing[q]
    BY <1>0, <1>3 DEF Stream3Append, hostVars, BanksFit
  <2> QED
    BY <1>0, <2>1 DEF MovesInv, RingTaken, Maps
<1>4. ASSUME NEW r \in Rank, Collect(r) PROVE MovesInv'
  <2>1. /\ pc[r] = "collect" /\ pc'[r] # "collect" /\ UNCHANGED outgoing /\ incoming'[r] = {}
        /\ \A q \in Rank \ {r} : /\ pc'[q] = pc[q] /\ s3phase'[q] = s3phase[q]
                                /\ incoming'[q] = incoming[q]
    BY <1>0, <1>4 DEF Collect, Goto, Maps, BanksFit
  <2> QED
    BY <2>1 DEF MovesInv
<1>5. CASE Sorts
  BY <1>5 DEF Sorts, MovesInv
<1>6. CASE AgreeRounds \/ AgreeRequest \/ UpdateThreshold \/ ExchangeCounts \/ Select
  <2>1. \A r \in Rank : pc[r] # "collect"
    BY <1>6 DEF AgreeRounds, AgreeRequest, UpdateThreshold, ExchangeCounts, Select, All
  <2>2. \A r \in Rank : pc'[r] # "collect"
    <3>1. CASE AgreeRequest
      BY <3>1, RequestKnown DEF AgreeRequest, GotoAll, Settled
    <3> QED
      BY <1>6, <3>1 DEF AgreeRounds, UpdateThreshold, ExchangeCounts, Select, GotoAll, Start, Settled
  <2>3. UNCHANGED <<incoming, outgoing, s3phase>>
    BY <1>6 DEF AgreeRounds, AgreeRequest, UpdateThreshold, ExchangeCounts, Select, streamVars
  <2> QED
    BY <2>1, <2>2, <2>3 DEF MovesInv
<1>7. CASE ExchangePayload
  <2>1. \A r \in Rank : pc'[r] = "collect" /\ outgoing'[r] = {}
    BY <1>7 DEF ExchangePayload, GotoAll, Start
  <2> QED
    BY <2>1 DEF MovesInv
<1>8. CASE UNCHANGED vars
  BY <1>8 DEF vars, hostVars, streamVars, MovesInv
<1> QED
  BY <1>0, <1>1, <1>2, <1>3, <1>4, <1>5, <1>6, <1>7, <1>8, StepKinds

-----------------------------------------------------------------------------
(* Nothing better than the threshold is lost.                              *)

\* The ranks use the same threshold; it excludes nothing before the first update.
SameThreshold ==
    /\ threshold \in [Rank -> Cutoffs] /\ initialized \in [Rank -> BOOLEAN]
    /\ \A q, r \in Rank : threshold[q] = threshold[r] /\ initialized[q] = initialized[r]
    /\ \A r \in Rank : /\ ~initialized[r] => threshold[r] = NoThreshold
                       /\ initialized[r] => threshold[r] \in Scores

\* Rows in the banks, and rows between two ranks.
Held == (UNION {clean[p] \cup dirty[p] : p \in Bank})
            \cup (UNION {incoming[r] \cup outgoing[r] : r \in Rank})

Excluded(c) == \A r \in Rank : Score[c] > threshold[r]

\* Of every row offered, one that stands for it is held, or the threshold excludes it.
NothingLost ==
    (\A r \in Rank : ~fatal[r]) =>
        \A c \in offered : Excluded(c) \/ \E h \in Held : StandsFor(h, c)

LEMMA CutoffsAreNat == Cutoffs \in SUBSET Nat /\ \A c \in Cand : Score[c] \in Nat /\ Score[c] \in Cutoffs
BY ScoresBounded, CandAssumption DEF Cutoffs, Scores

\* A row that one threshold lets pass is let pass by all.
LEMMA LetPass ==
  ASSUME SameThreshold
  PROVE  \A r \in Rank : /\ threshold[r] \in Nat /\ threshold[r] <= threshold[r]
                         /\ \A c \in Cand : ~Excluded(c) => Score[c] <= threshold[r]
<1>1. \A r \in Rank : threshold[r] \in Nat
  BY CutoffsAreNat DEF SameThreshold
<1>2. ASSUME NEW r \in Rank, NEW c \in Cand, ~Excluded(c) PROVE Score[c] <= threshold[r]
  <2>1. PICK q \in Rank : ~(Score[c] > threshold[q])
    BY <1>2 DEF Excluded
  <2>2. threshold[q] = threshold[r]
    BY DEF SameThreshold
  <2> QED
    BY <1>1, <2>1, <2>2, CutoffsAreNat
<1> QED
  BY <1>1, <1>2

LEMMA HeldAreRows ==
  ASSUME BanksFit
  PROVE  Held \in SUBSET Cand
BY DEF BanksFit, Held

\* A step that adds rows to those offered: every row held, and every row added, is
\* excluded or stood for afterwards.
LEMMA KeepLost ==
  ASSUME BanksFit, BanksFit', RowsInv, RowsInv', SameThreshold, SameThreshold', NothingLost,
         NEW G \in SUBSET Cand, offered' = offered \cup G,
         \A r \in Rank : (fatal[r] => fatal'[r]) /\ threshold'[r] <= threshold[r],
         (\A r \in Rank : ~fatal'[r]) =>
             \A c \in Held \cup G : Excluded(c) \/ \E h \in Held' : StandsFor(h, c)
  PROVE  NothingLost'
<1> SUFFICES ASSUME \A r \in Rank : ~fatal'[r], NEW c \in offered', ~Excluded(c)'
             PROVE  \E h \in Held' : StandsFor(h, c)
  BY DEF NothingLost, StandsFor, Better
<1>1. /\ c \in Cand /\ Score[c] \in Nat
      /\ \A r \in Rank : threshold[r] \in Nat /\ threshold'[r] \in Nat
  BY CutoffsAreNat DEF RowsInv, SameThreshold
<1>2. ~Excluded(c)
  BY <1>1 DEF Excluded
<1>3. CASE c \in G
  BY <1>2, <1>3
<1>4. CASE c \in offered
  <2>1. PICK h \in Held : StandsFor(h, c)
    BY <1>2, <1>4 DEF NothingLost
  <2>2. h \in Cand /\ Score[h] \in Nat /\ Score[h] <= Score[c]
    BY <1>1, <2>1, HeldAreRows, CutoffsAreNat, BetterOrder DEF StandsFor
  <2>3. ~Excluded(h)
    BY <1>1, <1>2, <2>2 DEF Excluded
  <2>4. PICK g \in Held' : StandsFor(g, h)
    BY <2>1, <2>3
  <2>5. g \in Cand
    <3>1. Held' \in SUBSET Cand
      BY DEF BanksFit, Held
    <3> QED
      BY <2>4, <3>1
  <2>6. StandsFor(g, c)
    BY <1>1, <2>1, <2>2, <2>4, <2>5, StandsInTurn
  <2> QED
    BY <2>4, <2>6
<1> QED
  BY <1>3, <1>4

\* Every row stands for itself.
LEMMA StandsForItself ==
  ASSUME NEW c \in Cand
  PROVE  StandsFor(c, c)
BY BetterOrder DEF StandsFor

LEMMA HeldParts ==
  /\ \A p \in Bank : clean[p] \subseteq Held /\ dirty[p] \subseteq Held
  /\ \A r \in Rank : incoming[r] \subseteq Held /\ outgoing[r] \subseteq Held
  /\ \A h \in Held : \/ \E p \in Bank : h \in clean[p] \/ h \in dirty[p]
                     \/ \E r \in Rank : h \in incoming[r] \/ h \in outgoing[r]
BY DEF Held

LEMMA HeldStayParts ==
  /\ \A p \in Bank : clean'[p] \subseteq Held' /\ dirty'[p] \subseteq Held'
  /\ \A r \in Rank : incoming'[r] \subseteq Held' /\ outgoing'[r] \subseteq Held'
BY DEF Held

\* A step that offers nothing, and after which every row held is held.
LEMMA KeepHeld ==
  ASSUME BanksFit, BanksFit', RowsInv, RowsInv', SameThreshold, SameThreshold', NothingLost,
         offered' = offered,
         \A r \in Rank : (fatal[r] => fatal'[r]) /\ threshold'[r] <= threshold[r],
         (\A r \in Rank : ~fatal'[r]) => Held \subseteq Held'
  PROVE  NothingLost'
<1>1. \A c \in Held : StandsFor(c, c)
  BY HeldAreRows, StandsForItself
<1>2. PICK G \in SUBSET Cand : G = {} /\ offered' = offered \cup G
  <2>1. {} \in SUBSET Cand /\ offered' = offered \cup {}
    OBVIOUS
  <2> QED
    BY <2>1
<1>3. (\A r \in Rank : ~fatal'[r]) =>
             \A c \in Held \cup G : Excluded(c) \/ \E h \in Held' : StandsFor(h, c)
  BY <1>1, <1>2
<1> QED
  BY <1>2, <1>3, KeepLost

\* Without a fatal flag every row appended is in a bank.
LEMMA AppendLands ==
  ASSUME ExchangeAssumption, BanksFit, NEW r \in Rank, NEW rows \in SUBSET Cand,
         AppendRows(r, rows), ~fatal'[r], NEW c \in rows
  PROVE  \E p \in Bank : c \in dirty'[p]
<1> DEFINE share(l) == InShard(rows, l)
           target == [l \in Shard |-> WriteBank(r, l, Cardinality(share(l)))]
           l == ShardOf[StateOf[c]]
<1>1. l \in Shard /\ c \in share(l)
  BY ShardAssumption DEF InShard
<1>2. target[l] \in {<<r, l, 0>>, <<r, l, 1>>}
  <2>1. writeIdx[<<r, l>>] \in {0, 1}
    BY <1>1 DEF BanksFit
  <2>2. target[l] = WriteBank(r, l, Cardinality(share(l)))
    BY <1>1
  <2> HIDE DEF share, target, l
  <2> QED
    BY <2>1, <2>2 DEF WriteBank, Sibling
<1>3. PICK p \in Bank : p = target[l] /\ p[1] = r /\ p[2] = l
  <2>1. <<r, l, 0>> \in Bank /\ <<r, l, 1>> \in Bank
    BY <1>1 DEF Bank
  <2> HIDE DEF target, l
  <2> QED
    BY <1>2, <2>1
<1>4. dirty' = [q \in Bank |->
             IF q[1] = r /\ target[q[2]] = q /\ ~fatal'[r] THEN dirty[q] \cup share(q[2])
             ELSE dirty[q]]
  BY DEF AppendRows
<1> HIDE DEF share, target, l
<1>5. c \in dirty'[p]
  BY <1>1, <1>3, <1>4
<1> QED
  BY <1>5

\* Sorting drops a row that is excluded or that a better row of its state is kept for.
LEMMA SortLosesNothing ==
  ASSUME BanksFit, BanksFit', RowsInv, RowsInv', SameThreshold, SameThreshold', NothingLost, Sorts
  PROVE  NothingLost'
<1>1. PICK which \in SUBSET Bank : SortsOf(which)
  BY DEF Sorts
<1>2. UNCHANGED <<offered, incoming, outgoing, fatal, threshold>>
  BY DEF Sorts, thresholdVars
<1>3. ASSUME NEW h \in Held, ~Excluded(h)
      PROVE  \E g \in Held' : StandsFor(g, h)
  <2>0. h \in Cand /\ StandsFor(h, h)
    BY HeldAreRows, StandsForItself
  <2>1. CASE \E r \in Rank : h \in incoming[r] \/ h \in outgoing[r]
    BY <1>2, <2>0, <2>1, HeldStayParts
  <2>2. ASSUME NEW p \in Bank, h \in clean[p] \/ h \in dirty[p]
        PROVE  \E g \in Held' : StandsFor(g, h)
    <3>1. CASE p \notin which
      <4>1. h \in clean'[p] \/ h \in dirty'[p]
        BY <1>1, <2>2, <3>1 DEF SortsOf
      <4> QED
        BY <2>0, <4>1, HeldStayParts
    <3>2. CASE p \in which
      <4>1. p[1] \in Rank
        BY BankParts
      <4>2. Score[h] <= threshold[p[1]]
        BY <1>3, <2>0, <4>1, LetPass
      <4>3. h \in AtMost(clean[p] \cup dirty[p], threshold[p[1]])
        BY <2>2, <4>2 DEF AtMost
      <4>4. AtMost(clean[p] \cup dirty[p], threshold[p[1]]) \in SUBSET Cand
        BY DEF BanksFit, AtMost
      <4>5. PICK g \in Sorted(p) : StandsFor(g, h)
        BY <4>3, <4>4, BestExists DEF Sorted
      <4>6. g \in clean'[p]
        BY <1>1, <3>2, <4>5 DEF SortsOf
      <4> QED
        BY <4>5, <4>6, HeldStayParts
    <3> QED
      BY <3>1, <3>2
  <2> QED
    BY <2>1, <2>2, HeldParts
<1>4. \A r \in Rank : threshold'[r] <= threshold[r]
  BY <1>2, LetPass
<1>5. PICK G \in SUBSET Cand : G = {} /\ offered' = offered \cup G
  <2>1. {} \in SUBSET Cand /\ offered' = offered \cup {}
    BY <1>2
  <2> QED
    BY <2>1
<1>6. \A c \in Held \cup G : Excluded(c) \/ \E h \in Held' : StandsFor(h, c)
  BY <1>3, <1>5
<1> QED
  BY <1>2, <1>4, <1>5, <1>6, KeepLost

\* What Stream 3 drops of a load is excluded, or a better row of its state goes to
\* a bank or to the rank that owns it.
LEMMA AppendLosesNothing ==
  ASSUME ExchangeAssumption, CreditInv, BanksFit', RowsInv, RowsInv', MovesInv,
         SameThreshold, SameThreshold', NothingLost, NEW r \in Rank, Stream3Append(r)
  PROVE  NothingLost'
<1> DEFINE batch == Loads[r][cursor[r] - 1]
           kept == BestPerState(AtMost(batch, threshold[r]))
<1>0. BanksFit
  BY DEF CreditInv
<1>1. /\ s3phase[r] = "launched" /\ AppendRows(r, OwnedBy(kept, r))
      /\ outgoing' = [outgoing EXCEPT ![r] = kept \ OwnedBy(kept, r)]
      /\ offered' = offered \cup batch /\ UNCHANGED <<incoming, clean, threshold>>
  BY DEF Stream3Append
<1>2. batch \in SUBSET Cand /\ kept \in SUBSET Cand /\ OwnedBy(kept, r) \in SUBSET Cand
  BY <1>1, LoadFits
<1>3. ASSUME NEW c \in batch, ~Excluded(c) PROVE \E h \in kept : StandsFor(h, c)
  <2>1. Score[c] <= threshold[r]
    <3>1. c \in Cand
      BY <1>2
    <3> QED
      BY <1>3, <3>1, LetPass
  <2>2. c \in AtMost(batch, threshold[r]) /\ AtMost(batch, threshold[r]) \in SUBSET Cand
    BY <1>2, <2>1 DEF AtMost
  <2> QED
    BY <2>2, BestExists
<1> HIDE DEF batch, kept
<1>4. ASSUME ~fatal'[r], NEW h \in kept PROVE h \in Held'
  <2>1. CASE h \in OwnedBy(kept, r)
    <3>1. \E p \in Bank : h \in dirty'[p]
      BY <1>0, <1>1, <1>2, <1>4, <2>1, AppendLands
    <3> QED
      BY <3>1, HeldStayParts
  <2>2. CASE h \notin OwnedBy(kept, r)
    <3>1. h \in outgoing'[r]
      BY <1>0, <1>1, <2>2 DEF BanksFit
    <3> QED
      BY <3>1, HeldStayParts
  <2> QED
    BY <2>1, <2>2
<1>5. ASSUME NEW h \in Held PROVE h \in Held'
  <2>1. \A p \in Bank : dirty[p] \subseteq dirty'[p]
    BY <1>1, AppendPlaces
  <2>2. \A q \in Rank : outgoing[q] \subseteq outgoing'[q]
    <3>1. outgoing[r] = {}
      BY <1>1 DEF MovesInv
    <3> QED
      BY <1>0, <1>1, <3>1 DEF BanksFit
  <2> QED
    BY <1>1, <2>1, <2>2, HeldParts, HeldStayParts
<1>6. ASSUME \A q \in Rank : ~fatal'[q], NEW c \in Held \cup batch
      PROVE  Excluded(c) \/ \E h \in Held' : StandsFor(h, c)
  BY <1>3, <1>4, <1>5, <1>6, HeldAreRows, StandsForItself, <1>0
<1>7. \A q \in Rank : (fatal[q] => fatal'[q]) /\ threshold'[q] <= threshold[q]
  BY <1>0, <1>1, LetPass DEF AppendRows, BanksFit
<1> QED
  BY <1>0, <1>1, <1>2, <1>6, <1>7, KeepLost

\* What a rank receives goes to its banks.
LEMMA CollectLosesNothing ==
  ASSUME ExchangeAssumption, BanksFit, BanksFit', RowsInv, RowsInv', SameThreshold,
         SameThreshold', NothingLost, NEW r \in Rank, Collect(r)
  PROVE  NothingLost'
<1>1. /\ AppendRows(r, incoming[r]) /\ incoming' = [incoming EXCEPT ![r] = {}]
      /\ UNCHANGED <<outgoing, offered, clean, threshold>>
  BY DEF Collect
<1>2. PICK rows \in SUBSET Cand : rows = incoming[r]
  BY DEF BanksFit
<1>3. ASSUME ~fatal'[r], NEW h \in Held PROVE h \in Held'
  <2>1. CASE h \in incoming[r]
    <3>1. AppendRows(r, rows) /\ h \in rows
      BY <1>1, <1>2, <2>1
    <3>2. \E p \in Bank : h \in dirty'[p]
      BY <1>3, <3>1, AppendLands
    <3> QED
      BY <3>2, HeldStayParts
  <2>2. CASE h \notin incoming[r]
    <3>1. \A p \in Bank : dirty[p] \subseteq dirty'[p]
      BY <1>1, AppendPlaces
    <3>2. \A q \in Rank : h \in incoming[q] => h \in incoming'[q]
      BY <1>1, <2>2 DEF BanksFit
    <3> QED
      BY <1>1, <3>1, <3>2, HeldParts, HeldStayParts
  <2> QED
    BY <2>1, <2>2
<1>4. \A q \in Rank : (fatal[q] => fatal'[q]) /\ threshold'[q] <= threshold[q]
  BY <1>1, LetPass DEF AppendRows, BanksFit
<1> QED
  BY <1>1, <1>3, <1>4, KeepHeld

\* What a rank sends arrives at its owner.
LEMMA PayloadLosesNothing ==
  ASSUME ExchangeAssumption, BanksFit, BanksFit', RowsInv, RowsInv', MovesInv, SameThreshold,
         SameThreshold', NothingLost, ExchangePayload
  PROVE  NothingLost'
<1>1. /\ incoming' = [r \in Rank |-> SentTo(r)] /\ \A r \in Rank : incoming[r] = {}
      /\ UNCHANGED <<offered, fatal, clean, dirty, threshold>>
  BY DEF ExchangePayload, bankVars, MovesInv, All
<1>2. ASSUME NEW h \in Held PROVE h \in Held'
  <2>1. ASSUME NEW q \in Rank, h \in outgoing[q] PROVE h \in Held'
    <3>1. PICK r \in Rank : r = OwnerOf[StateOf[h]] /\ r # q
      BY <2>1 DEF ExchangeAssumption, RowsInv, OwnedBy
    <3>2. h \in SentTo(r)
      BY <2>1, <3>1 DEF SentTo, OwnedBy
    <3> QED
      BY <1>1, <3>2, HeldStayParts
  <2> QED
    BY <1>1, <2>1, HeldParts, HeldStayParts
<1>3. \A q \in Rank : (fatal[q] => fatal'[q]) /\ threshold'[q] <= threshold[q]
  BY <1>1, LetPass
<1> QED
  BY <1>1, <1>2, <1>3, KeepHeld

-----------------------------------------------------------------------------
(* The threshold never cuts below the beam width.                          *)

\* Once it is set, the states offered at or below the threshold fill the beam.
ThresholdSound ==
    \A r \in Rank : initialized[r] =>
        Cardinality(States(AtMost(offered, threshold[r]))) >= BeamWidth

\* f counts at most the states of the rows G at or below each score, and as many
\* for the worst score as for no threshold.
Modest(f, G) ==
    /\ f \in [Cutoffs -> Nat]
    /\ \A t \in Cutoffs : f[t] <= Cardinality(States(AtMost(G, t)))
    /\ \A t \in Scores : (\A u \in Scores : u <= t) => f[t] = f[NoThreshold]

\* The histogram that a rank brings to the all-reduce counts no state twice, and only
\* states of its own.
Brought == \A r \in Rank : pc[r] = "update" =>
    \E f : brings[r] = <<f>> /\ Modest(f, OwnedBy(offered, r))

LEMMA StatesGrowMore ==
  ASSUME NEW S \in SUBSET Cand, NEW T \in SUBSET S, NEW t
  PROVE  /\ AtMost(T, t) \in SUBSET AtMost(S, t) /\ AtMost(S, t) \in SUBSET Cand
         /\ Cardinality(States(AtMost(T, t))) <= Cardinality(States(AtMost(S, t)))
         /\ Cardinality(States(AtMost(T, t))) \in Nat /\ Cardinality(States(AtMost(S, t))) \in Nat
         /\ IsFiniteSet(States(AtMost(S, t)))
<1>1. AtMost(T, t) \in SUBSET AtMost(S, t) /\ AtMost(S, t) \in SUBSET Cand
  BY DEF AtMost
<1>2. AtMost(T, t) \in SUBSET Cand
  BY <1>1
<1> QED
  BY <1>1, <1>2, StatesGrow, StatesFinite

\* No score is worse than the worst.
LEMMA WorstScore ==
  ASSUME NEW t \in Scores, \A u \in Scores : u <= t, NEW S \in SUBSET Cand
  PROVE  AtMost(S, t) = AtMost(S, NoThreshold)
<1>1. \A c \in S : Score[c] <= t /\ Score[c] <= NoThreshold
  BY CandAssumption DEF Scores
<1> QED
  BY <1>1 DEF AtMost

\* What the two banks of a shard count for: the larger of them, or their union.
Pair(r, l, t) == IF then[r] = "histogram" THEN PairUnion(<<r, l, 0>>, t)
                 ELSE PairBound(<<r, l, 0>>, t)

LEMMA PairIsModest ==
  ASSUME BanksFit, RowsInv, NEW r \in Rank, NEW l \in Shard
  PROVE  /\ \A t \in Cutoffs : /\ Pair(r, l, t) \in Nat
                               /\ Pair(r, l, t) <= Cardinality(States(AtMost(Homes(r, l), t)))
         /\ \A t \in Scores : (\A u \in Scores : u <= t) => Pair(r, l, t) = Pair(r, l, NoThreshold)
<1>1. PICK p \in Bank, q \in Bank : p = <<r, l, 0>> /\ q = <<r, l, 1>> /\ q = Sibling(p)
  <2>1. <<r, l, 0>> \in Bank /\ <<r, l, 1>> \in Bank /\ Sibling(<<r, l, 0>>) = <<r, l, 1>>
    BY DEF Bank, Sibling
  <2> QED
    BY <2>1
<1> DEFINE both == clean[p] \cup clean[q]
           B == BestPerState(both)
<1>2. /\ Homes(r, l) \in SUBSET Cand /\ both \in SUBSET Homes(r, l)
      /\ hist[p] \in SUBSET Homes(r, l) /\ hist[q] \in SUBSET Homes(r, l)
      /\ hist[p] \in SUBSET Cand /\ hist[q] \in SUBSET Cand /\ both \in SUBSET Cand
      /\ OnePerState(hist[p]) /\ OnePerState(hist[q])
  <2>1. p[1] = r /\ p[2] = l /\ q[1] = r /\ q[2] = l
    BY <1>1
  <2>2. Homes(r, l) \in SUBSET Cand
    BY DEF RowsInv, Homes
  <2>3. /\ clean[p] \in SUBSET Homes(r, l) /\ clean[q] \in SUBSET Homes(r, l)
        /\ hist[p] \in SUBSET Homes(r, l) /\ hist[q] \in SUBSET Homes(r, l)
        /\ OnePerState(hist[p]) /\ OnePerState(hist[q])
    BY <2>1 DEF RowsInv
  <2> QED
    BY <2>2, <2>3
<1>3. \A t : /\ PairUnion(<<r, l, 0>>, t) = Cardinality(AtMost(B, t))
             /\ PairBound(<<r, l, 0>>, t) =
                  IF Cardinality(AtMost(hist[p], t)) < Cardinality(AtMost(hist[q], t))
                  THEN Cardinality(AtMost(hist[q], t)) ELSE Cardinality(AtMost(hist[p], t))
  BY <1>1 DEF PairUnion, PairBound, Prefix
<1>4. ASSUME NEW t \in Cutoffs
      PROVE  /\ Pair(r, l, t) \in Nat
             /\ Pair(r, l, t) <= Cardinality(States(AtMost(Homes(r, l), t)))
  <2>1. t \in Nat
    BY CutoffsAreNat
  <2>2. ASSUME NEW h \in {hist[p], hist[q]}
        PROVE  /\ Cardinality(AtMost(h, t)) \in Nat
               /\ Cardinality(AtMost(h, t)) <= Cardinality(States(AtMost(Homes(r, l), t)))
    <3>1. /\ AtMost(h, t) \in SUBSET Cand /\ OnePerState(AtMost(h, t)) /\ h \in SUBSET Homes(r, l)
      BY <1>2 DEF AtMost, OnePerState
    <3>2. Cardinality(AtMost(h, t)) = Cardinality(States(AtMost(h, t)))
      BY <3>1, StatesCount
    <3> QED
      BY <1>2, <3>1, <3>2, StatesGrowMore
  <2>3. Cardinality(AtMost(B, t)) = Cardinality(States(AtMost(both, t)))
    BY <1>2, <2>1, StatesAtMost
  <2>4. /\ Cardinality(AtMost(B, t)) \in Nat
        /\ Cardinality(AtMost(B, t)) <= Cardinality(States(AtMost(Homes(r, l), t)))
    <3> HIDE DEF both, B
    <3> QED
      BY <1>2, <2>3, StatesGrowMore
  <2> HIDE DEF B, both
  <2>5. Pair(r, l, t) \in {Cardinality(AtMost(B, t)), Cardinality(AtMost(hist[p], t)),
                           Cardinality(AtMost(hist[q], t))}
    BY <1>3 DEF Pair
  <2> QED
    BY <2>2, <2>4, <2>5
<1>5. ASSUME NEW t \in Scores, \A u \in Scores : u <= t
      PROVE  Pair(r, l, t) = Pair(r, l, NoThreshold)
  <2>1. B \in SUBSET Cand
    BY <1>2 DEF BestPerState
  <2> HIDE DEF B, both
  <2>2. \A S \in SUBSET Cand : AtMost(S, t) = AtMost(S, NoThreshold)
    BY <1>5, WorstScore
  <2>3. /\ AtMost(B, t) = AtMost(B, NoThreshold) /\ AtMost(hist[p], t) = AtMost(hist[p], NoThreshold)
        /\ AtMost(hist[q], t) = AtMost(hist[q], NoThreshold)
    BY <1>2, <2>1, <2>2
  <2> QED
    BY <1>3, <2>3 DEF Pair
<1> QED
  BY <1>4, <1>5

\* The counts of a rank: no state is in two shards.
LEMMA LocalCountsModest ==
  ASSUME BanksFit, RowsInv, NEW r \in Rank
  PROVE  Modest(LocalCounts(r), OwnedBy(offered, r))
<1> DEFINE G == OwnedBy(offered, r)
<1>1. LocalCounts(r) = [t \in Cutoffs |-> Total([l \in Shard |-> 1..Pair(r, l, t)])]
  BY DEF LocalCounts, Pair
<1>2. G \in SUBSET Cand /\ \A l \in Shard : Homes(r, l) \in SUBSET G
  BY DEF RowsInv, OwnedBy, Homes
<1>3. ASSUME NEW t \in Cutoffs
      PROVE  /\ LocalCounts(r)[t] \in Nat
             /\ LocalCounts(r)[t] <= Cardinality(States(AtMost(G, t)))
  <2> DEFINE n == [l \in Shard |-> Pair(r, l, t)]
             A == [l \in Shard |-> States(AtMost(Homes(r, l), t))]
             B == States(AtMost(G, t))
  <2>1. IsFiniteSet(B)
    BY <1>2, StatesGrowMore
  <2>2. n \in [Shard -> Nat] /\ \A l \in Shard : n[l] <= Cardinality(A[l])
    BY PairIsModest
  <2>3. \A l \in Shard : A[l] \in SUBSET B
    BY <1>2 DEF States, AtMost
  <2>4. \A k, l \in Shard : k # l => A[k] \cap A[l] = {}
    <3>1. \A l \in Shard : \A s \in A[l] : ShardOf[s] = l
      BY DEF States, AtMost, Homes
    <3> HIDE DEF A
    <3> QED
      BY <3>1
  <2>5. [l \in Shard |-> 1..n[l]] = [l \in Shard |-> 1..Pair(r, l, t)]
    OBVIOUS
  <2> HIDE DEF n, A, B, G
  <2>6. Total([l \in Shard |-> 1..n[l]]) \in Nat /\ Total([l \in Shard |-> 1..n[l]]) <= Cardinality(B)
    BY <2>1, <2>2, <2>3, <2>4, TotalBound
  <2> QED
    BY <1>1, <2>5, <2>6 DEF B
<1>4. ASSUME NEW t \in Scores, \A u \in Scores : u <= t
      PROVE  LocalCounts(r)[t] = LocalCounts(r)[NoThreshold]
  <2>1. \A l \in Shard : Pair(r, l, t) = Pair(r, l, NoThreshold)
    BY <1>4, PairIsModest
  <2>2. t \in Cutoffs /\ NoThreshold \in Cutoffs
    BY DEF Cutoffs
  <2> QED
    BY <1>1, <2>1, <2>2
<1> HIDE DEF G
<1>5. LocalCounts(r) \in [Cutoffs -> Nat]
  BY <1>1, <1>3
<1> QED
  BY <1>3, <1>4, <1>5 DEF Modest, G

\* The counts of all ranks: no state is on two ranks.
LEMMA GlobalCountModest ==
  ASSUME ExchangeAssumption, RowsInv, Brought, All("update")
  PROVE  /\ \A t \in Cutoffs : /\ GlobalCount(t) \in Nat
                               /\ GlobalCount(t) <= Cardinality(States(AtMost(offered, t)))
         /\ \A t \in Scores : (\A u \in Scores : u <= t) => GlobalCount(t) = GlobalCount(NoThreshold)
<1>1. ASSUME NEW r \in Rank PROVE Modest(brings[r][1], OwnedBy(offered, r))
  <2>1. PICK f : brings[r] = <<f>> /\ Modest(f, OwnedBy(offered, r))
    BY DEF Brought, All
  <2> QED
    BY <2>1
<1>2. offered \in SUBSET Cand /\ \A r \in Rank : OwnedBy(offered, r) \in SUBSET offered
  BY DEF RowsInv, OwnedBy
<1>3. ASSUME NEW t \in Cutoffs
      PROVE  GlobalCount(t) \in Nat /\ GlobalCount(t) <= Cardinality(States(AtMost(offered, t)))
  <2> DEFINE n == [r \in Rank |-> brings[r][1][t]]
             A == [r \in Rank |-> States(AtMost(OwnedBy(offered, r), t))]
             B == States(AtMost(offered, t))
  <2>1. IsFiniteSet(B)
    BY <1>2, StatesGrowMore
  <2>2. n \in [Rank -> Nat] /\ \A r \in Rank : n[r] <= Cardinality(A[r])
    BY <1>1 DEF Modest
  <2>3. \A r \in Rank : A[r] \in SUBSET B
    BY <1>2 DEF States, AtMost
  <2>4. \A q, r \in Rank : q # r => A[q] \cap A[r] = {}
    <3>1. \A r \in Rank : \A s \in A[r] : OwnerOf[s] = r
      BY DEF States, AtMost, OwnedBy
    <3> HIDE DEF A
    <3> QED
      BY <3>1
  <2>5. [r \in Rank |-> 1..n[r]] = [r \in Rank |-> 1..brings[r][1][t]]
    OBVIOUS
  <2> HIDE DEF n, A, B
  <2>6. Total([r \in Rank |-> 1..n[r]]) \in Nat /\ Total([r \in Rank |-> 1..n[r]]) <= Cardinality(B)
    BY <2>1, <2>2, <2>3, <2>4, TotalBound
  <2> QED
    BY <2>5, <2>6 DEF GlobalCount, B
<1>4. ASSUME NEW t \in Scores, \A u \in Scores : u <= t
      PROVE  GlobalCount(t) = GlobalCount(NoThreshold)
  <2>1. \A r \in Rank : brings[r][1][t] = brings[r][1][NoThreshold]
    BY <1>1, <1>4 DEF Modest
  <2> QED
    BY <2>1 DEF GlobalCount
<1> QED
  BY <1>3, <1>4

\* A count that fills the beam has a least score that does.
LEMMA CutoffFills ==
  ASSUME ExchangeAssumption, RowsInv, Brought, All("update"),
         GlobalCount(NoThreshold) >= BeamWidth
  PROVE  /\ Cutoff \in Scores
         /\ Cardinality(States(AtMost(offered, Cutoff))) >= BeamWidth
<1> DEFINE R == {t \in Scores : GlobalCount(t) >= BeamWidth}
<1>1. PICK m \in Scores : \A u \in Scores : u <= m
  <2>1. Scores # {}
    <3>1. SUFFICES ASSUME Scores = {} PROVE FALSE
      OBVIOUS
    <3>2. Cand = {}
      BY <3>1 DEF Scores
    <3>3. AtMost(offered, NoThreshold) = {} /\ NoThreshold \in Cutoffs
      BY <3>2 DEF RowsInv, AtMost, Cutoffs
    <3>4. States(AtMost(offered, NoThreshold)) = {}
      BY <3>3 DEF States
    <3>5. GlobalCount(NoThreshold) <= 0 /\ GlobalCount(NoThreshold) \in Nat
      BY <3>3, <3>4, GlobalCountModest, FS_EmptySet
    <3> QED
      BY <3>5, WidthAssumption
  <2>2. IsFiniteSet(Scores)
    <3> DEFINE f == [c \in Cand |-> Score[c]]
    <3>1. f \in Surjection(Cand, Scores)
      BY DEF Surjection, Scores
    <3> QED
      BY <3>1, CandAssumption, FS_Surjection
  <2> QED
    BY <2>1, <2>2, ScoresBounded, Greatest
<1>2. m \in R
  BY <1>1, GlobalCountModest
<1>3. PICK k \in R : \A u \in R : k <= u
  <2>1. R \in SUBSET Nat
    BY ScoresBounded
  <2> HIDE DEF R
  <2> QED
    BY <1>2, <2>1, LeastNatural
<1>4. Cutoff \in Scores /\ GlobalCount(Cutoff) >= BeamWidth
  <2>1. \E t \in Scores : /\ GlobalCount(t) >= BeamWidth
                          /\ \A u \in Scores : GlobalCount(u) >= BeamWidth => t <= u
    BY <1>3
  <2> QED
    BY <2>1 DEF Cutoff
<1>5. PICK t \in Scores : t = Cutoff /\ GlobalCount(t) >= BeamWidth
  BY <1>4
<1>6. /\ GlobalCount(t) <= Cardinality(States(AtMost(offered, t))) /\ GlobalCount(t) \in Nat
  BY GlobalCountModest DEF Cutoffs
<1>7. Cardinality(States(AtMost(offered, t))) \in Nat
  BY StatesGrowMore DEF RowsInv
<1>8. Cardinality(States(AtMost(offered, t))) >= BeamWidth
  BY <1>5, <1>6, <1>7, WidthAssumption
<1> QED
  BY <1>5, <1>8

\* The update tightens the threshold of all ranks alike.
LEMMA UpdateStaysSound ==
  ASSUME ExchangeAssumption, RowsInv, Brought, SameThreshold, ThresholdSound, UpdateThreshold
  PROVE  /\ SameThreshold' /\ ThresholdSound' /\ offered' = offered
         /\ \A r \in Rank : threshold'[r] <= threshold[r]
<1>1. All("update") /\ offered' = offered
  BY DEF UpdateThreshold, streamVars
<1>2. CASE GlobalCount(NoThreshold) >= BeamWidth
  <2>1. /\ threshold' = [r \in Rank |->
                   IF ~initialized[r] \/ Cutoff < threshold[r] THEN Cutoff ELSE threshold[r]]
        /\ initialized' = [r \in Rank |-> TRUE]
    BY <1>2 DEF UpdateThreshold, Start
  <2>2. PICK k \in Scores : k = Cutoff /\ Cardinality(States(AtMost(offered, k))) >= BeamWidth
    BY <1>1, <1>2, CutoffFills
  <2>3. k \in Cutoffs /\ k \in Nat /\ k < NoThreshold /\ NoThreshold \in Nat
    BY ScoresBounded, CandAssumption DEF Cutoffs
  <2>4. ASSUME NEW r \in Rank
        PROVE  /\ threshold[r] \in Nat /\ threshold'[r] \in Scores /\ initialized'[r]
               /\ threshold'[r] <= threshold[r]
               /\ Cardinality(States(AtMost(offered, threshold'[r]))) >= BeamWidth
    <3>0. threshold[r] \in Nat
      BY LetPass
    <3>1. CASE initialized[r] /\ ~(k < threshold[r])
      BY <2>1, <2>2, <3>0, <3>1 DEF ThresholdSound, SameThreshold
    <3>2. CASE ~initialized[r] \/ k < threshold[r]
      <4>1. threshold'[r] = k
        BY <2>1, <2>2, <3>2
      <4> QED
        BY <2>1, <2>2, <2>3, <3>0, <3>2, <4>1 DEF SameThreshold
    <3> QED
      BY <3>1, <3>2
  <2>5. \A q, r \in Rank : threshold'[q] = threshold'[r]
    <3> SUFFICES ASSUME NEW q \in Rank, NEW r \in Rank PROVE threshold'[q] = threshold'[r]
      OBVIOUS
    <3>1. threshold[q] = threshold[r] /\ initialized[q] = initialized[r]
      BY DEF SameThreshold
    <3> QED
      BY <2>1, <3>1
  <2>6. threshold' \in [Rank -> Cutoffs]
    BY <2>1, <2>4 DEF Cutoffs
  <2>7. SameThreshold'
    BY <2>1, <2>4, <2>5, <2>6 DEF SameThreshold
  <2>8. ThresholdSound'
    BY <1>1, <2>4 DEF ThresholdSound, AtMost, States
  <2> QED
    BY <1>1, <2>4, <2>7, <2>8
<1>3. CASE ~(GlobalCount(NoThreshold) >= BeamWidth)
  <2>1. UNCHANGED <<threshold, initialized>>
    BY <1>3 DEF UpdateThreshold
  <2> QED
    BY <1>1, <2>1, LetPass DEF SameThreshold, ThresholdSound, AtMost, States
<1> QED
  BY <1>2, <1>3

\* What counts modestly counts modestly when more is offered.
LEMMA ModestGrows ==
  ASSUME NEW H \in SUBSET Cand, NEW G \in SUBSET H, NEW f, Modest(f, G)
  PROVE  Modest(f, H)
<1>1. ASSUME NEW t \in Cutoffs PROVE f[t] <= Cardinality(States(AtMost(H, t)))
  <2>1. /\ f[t] <= Cardinality(States(AtMost(G, t))) /\ f[t] \in Nat
        /\ Cardinality(States(AtMost(G, t))) <= Cardinality(States(AtMost(H, t)))
        /\ Cardinality(States(AtMost(G, t))) \in Nat /\ Cardinality(States(AtMost(H, t))) \in Nat
    BY StatesGrowMore DEF Modest
  <2> QED
    BY <2>1
<1> QED
  BY <1>1 DEF Modest

LEMMA OfferedGrows ==
  ASSUME ExchangeAssumption, StepInv, CreditInv, RowsInv, [Next]_vars
  PROVE  offered \subseteq offered'
<1>0. BanksFit
  BY DEF CreditInv
<1>1. ASSUME NEW r \in Rank, Quiet(r) \/ Launch(r) \/ Stream3Append(r) \/ Collect(r)
      PROVE  offered \subseteq offered'
  BY <1>1, QuietKeeps DEF Launch, Stream3Append, Collect, rowVars
<1>2. CASE AgreeRounds \/ AgreeRequest \/ UpdateThreshold \/ ExchangeCounts \/ ExchangePayload \/ Select
  BY <1>2 DEF AgreeRounds, AgreeRequest, UpdateThreshold, ExchangeCounts, ExchangePayload,
     Select, streamVars
<1> QED
  BY <1>0, <1>1, <1>2, StepKinds DEF Sorts, vars, streamVars

\* A step of one rank leaves the others where they wait, and what they bring.
LEMMA BroughtStep ==
  ASSUME ExchangeAssumption, StepInv, CreditInv, RowsInv, RowsInv', Brought, [Next]_vars
  PROVE  Brought'
<1>0. BanksFit /\ Maps /\ offered \subseteq offered'
  BY OfferedGrows DEF CreditInv, StepInv
<1>1. ASSUME NEW r \in Rank, pc[r] = "update", brings'[r] = brings[r]
      PROVE  \E f : brings'[r] = <<f>> /\ Modest(f, OwnedBy(offered', r))
  <2>1. PICK f : brings[r] = <<f>> /\ Modest(f, OwnedBy(offered, r))
    BY <1>1 DEF Brought
  <2>2. OwnedBy(offered, r) \in SUBSET OwnedBy(offered', r) /\ OwnedBy(offered', r) \in SUBSET Cand
    BY <1>0 DEF OwnedBy, RowsInv
  <2>3. Modest(f, OwnedBy(offered', r))
    BY <2>1, <2>2, ModestGrows
  <2> QED
    BY <1>1, <2>1, <2>3
<1>2. ASSUME \A r \in Rank : pc'[r] = "update" => pc[r] = "update" /\ brings'[r] = brings[r]
      PROVE  Brought'
  BY <1>1, <1>2 DEF Brought, Modest, OwnedBy, AtMost, States
<1>3. ASSUME NEW r \in Rank, TakeHistogram(r) PROVE Brought'
  <2>1. /\ UNCHANGED offered /\ pc'[r] = "update" /\ brings'[r] = <<LocalCounts(r)>>
        /\ \A q \in Rank \ {r} : pc'[q] = pc[q] /\ brings'[q] = brings[q]
    BY <1>0, <1>3 DEF TakeHistogram, streamVars, Goto, Maps
  <2>2. \E f : brings'[r] = <<f>> /\ Modest(f, OwnedBy(offered', r))
    BY <1>0, <2>1, LocalCountsModest
  <2> QED
    BY <1>1, <2>1, <2>2 DEF Brought, Modest, OwnedBy, AtMost, States
<1>4. ASSUME NEW r \in Rank, Step(r), ~TakeHistogram(r) PROVE Brought'
  <2>1. /\ \A q \in Rank \ {r} : pc'[q] = pc[q] /\ brings'[q] = brings[q]
        /\ pc'[r] # "update"
    <3>1. CASE \/ Serve(r) \/ FinishStream3(r) \/ LeaveLoop(r) \/ TailRound(r)
               \/ CopyCleanCounts(r) \/ CopyDirtyCounts(r) \/ CopyProcessingFlags(r)
      BY <1>0, <3>1 DEF Serve, FinishStream3, LeaveLoop, TailRound, CopyCleanCounts,
         CopyDirtyCounts, CopyProcessingFlags, Goto, Maps
    <3>2. CASE Drain(r) \/ Launch(r) \/ Collect(r) \/ Flush(r)
      BY <1>0, <3>2 DEF Drain, Launch, Collect, Flush, Goto, Maps
    <3>3. CASE Compact(r)
      BY <1>0, <3>3, Local DEF Compact, Goto, Maps
    <3> QED
      BY <1>4, <3>1, <3>2, <3>3 DEF Step
  <2> QED
    BY <1>2, <2>1
<1>5. ASSUME NEW r \in Rank, Stream3(r) \/ \E p \in Banks(r) : Stream4Job(p) PROVE Brought'
  BY <1>2, <1>5 DEF Stream3, Stream3Append, Stream3BuildReady, Stream4Job, hostVars
<1>6. CASE Collective
  <2>1. \A r \in Rank : pc'[r] # "update"
    <3>1. CASE AgreeRequest
      BY <3>1, RequestKnown DEF AgreeRequest, GotoAll, Settled
    <3> QED
      BY <1>6, <3>1 DEF Collective, AgreeRounds, UpdateThreshold, ExchangeCounts, ExchangePayload,
         Select, GotoAll, Start, Settled
  <2> QED
    BY <1>2, <2>1
<1>7. CASE UNCHANGED vars
  BY <1>2, <1>7 DEF vars, hostVars
<1> QED
  BY <1>3, <1>4, <1>5, <1>6, <1>7 DEF Next, Ended

LEMMA ThresholdStep ==
  ASSUME ExchangeAssumption, StepInv, CreditInv, RowsInv, RowsInv', Brought, SameThreshold,
         ThresholdSound, [Next]_vars
  PROVE  SameThreshold' /\ ThresholdSound' /\ \A r \in Rank : threshold'[r] <= threshold[r]
<1>0. BanksFit /\ offered \subseteq offered'
  BY OfferedGrows DEF CreditInv
<1>1. ASSUME UNCHANGED thresholdVars
      PROVE  SameThreshold' /\ ThresholdSound' /\ \A r \in Rank : threshold'[r] <= threshold[r]
  <2>1. UNCHANGED <<threshold, initialized>>
    BY <1>1 DEF thresholdVars
  <2>2. SameThreshold' /\ \A r \in Rank : threshold'[r] <= threshold[r]
    BY <2>1, LetPass DEF SameThreshold
  <2>3. ASSUME NEW r \in Rank, initialized[r]
        PROVE  Cardinality(States(AtMost(offered', threshold[r]))) >= BeamWidth
    <3>1. Cardinality(States(AtMost(offered, threshold[r]))) >= BeamWidth
      BY <2>3 DEF ThresholdSound
    <3>2. offered \in SUBSET offered' /\ offered' \in SUBSET Cand
      BY <1>0 DEF RowsInv
    <3>3. /\ Cardinality(States(AtMost(offered, threshold[r])))
                <= Cardinality(States(AtMost(offered', threshold[r])))
          /\ Cardinality(States(AtMost(offered, threshold[r]))) \in Nat
          /\ Cardinality(States(AtMost(offered', threshold[r]))) \in Nat
      BY <3>2, StatesGrowMore
    <3> QED
      BY <3>1, <3>3, WidthAssumption
  <2> QED
    BY <2>1, <2>2, <2>3 DEF ThresholdSound, AtMost, States
<1>2. ASSUME NEW r \in Rank, Quiet(r) \/ Launch(r) \/ Stream3Append(r) \/ Collect(r)
      PROVE  UNCHANGED thresholdVars
  BY <1>2, QuietKeeps DEF Launch, Stream3Append, Collect, thresholdVars
<1>3. AgreeRounds \/ AgreeRequest \/ ExchangeCounts \/ ExchangePayload \/ Select \/ Sorts
        \/ UNCHANGED vars => UNCHANGED thresholdVars
  BY DEF AgreeRounds, AgreeRequest, ExchangeCounts, ExchangePayload, Select, Sorts, vars,
     thresholdVars
<1> QED
  BY <1>0, <1>1, <1>2, <1>3, StepKinds, UpdateStaysSound

LEMMA LostStep ==
  ASSUME ExchangeAssumption, StepInv, CreditInv, CreditInv', RowsInv, RowsInv', MovesInv, Brought,
         SameThreshold, ThresholdSound, NothingLost, [Next]_vars
  PROVE  NothingLost'
<1>0. /\ BanksFit /\ BanksFit' /\ SameThreshold' /\ Maps
      /\ \A r \in Rank : threshold'[r] <= threshold[r]
  BY ThresholdStep DEF CreditInv, StepInv
<1>1. ASSUME UNCHANGED <<offered, incoming, outgoing, fatal, clean, dirty>> PROVE NothingLost'
  <2>1. Held' = Held
    BY <1>1 DEF Held
  <2> QED
    BY <1>0, <1>1, <2>1, KeepHeld
<1>2. ASSUME NEW r \in Rank, Quiet(r) PROVE NothingLost'
  BY <1>1, <1>2, QuietKeeps DEF rowVars
<1>3. ASSUME NEW r \in Rank, Launch(r) PROVE NothingLost'
  <2>1. pc[r] = "admitted" /\ s3phase[r] = "idle"
    BY <1>3, Local DEF Launch, StageFits
  <2>2. outgoing[r] = {}
    BY <2>1 DEF MovesInv
  <2>3. outgoing' = outgoing
    <3>1. outgoing' = outgoing \/ outgoing' = [outgoing EXCEPT ![r] = {}]
      BY <1>3 DEF Launch
    <3>2. [outgoing EXCEPT ![r] = {}] = outgoing
      BY <1>0, <2>2 DEF BanksFit
    <3> QED
      BY <3>1, <3>2
  <2> QED
    BY <1>1, <1>3, <2>3 DEF Launch, bankVars
<1>4. CASE AgreeRounds \/ AgreeRequest \/ UpdateThreshold \/ ExchangeCounts \/ Select
  BY <1>1, <1>4 DEF AgreeRounds, AgreeRequest, UpdateThreshold, ExchangeCounts, Select,
     streamVars, bankVars
<1>5. CASE UNCHANGED vars
  BY <1>1, <1>5 DEF vars, streamVars, bankVars
<1> QED
  BY <1>0, <1>2, <1>3, <1>4, <1>5, StepKinds, SortLosesNothing, AppendLosesNothing,
     CollectLosesNothing, PayloadLosesNothing

-----------------------------------------------------------------------------
(* Every load is offered, and every row sorted, before the end.            *)

\* What is offered was generated; every ring load taken was offered, but the one that
\* Stream 3 is about to read; no rank leaves its loop with a load left.
LoadsInv ==
    /\ offered \subseteq AllGenerated
    /\ \A r \in Rank : \A i \in DOMAIN Loads[r] : i < cursor[r] =>
          Loads[r][i] \subseteq offered \/ (s3phase[r] = "launched" /\ i = cursor[r] - 1)
    /\ \A r \in Rank : stage[r] # "loop" => ~RingsLeft(r)

\* After the final flush of a rank its banks hold no unsorted row.
FlushedInv ==
    \A r \in Rank : pc[r] \in {"select", "done"} => \A p \in Banks(r) : dirty[p] = {}

LEMMA KeepLoads ==
  ASSUME LoadsInv, UNCHANGED <<cursor, offered>>,
         \A r \in Rank : /\ s3phase[r] = "launched" => s3phase'[r] = "launched"
                         /\ stage'[r] # "loop" => stage[r] # "loop" \/ ~RingsLeft(r)
  PROVE  LoadsInv'
BY DEF LoadsInv, RingsLeft, AllGenerated

LEMMA LoadsStep ==
  ASSUME ExchangeAssumption, StepInv, CreditInv, RowsInv, LoadsInv, [Next]_vars
  PROVE  LoadsInv'
<1>0. BanksFit /\ Maps /\ \A r \in Rank : StageFits(r) /\ RingTaken(r)
  BY DEF CreditInv, CreditOf, StepInv
<1>1. ASSUME NEW r \in Rank, Quiet(r) PROVE LoadsInv'
  <2>1. /\ UNCHANGED <<cursor, offered>>
        /\ s3phase' = s3phase \/ (s3phase[r] = "appended" /\ s3phase' = [s3phase EXCEPT ![r] = "done"])
    BY <1>1 DEF Quiet, Serve, FinishStream3, LeaveLoop, TailRound, CopyCleanCounts,
       CopyDirtyCounts, CopyProcessingFlags, Drain, TakeHistogram, Stream3BuildReady,
       streamVars, hostVars
  <2>2. \/ stage' = stage
        \/ LeaveLoop(r) /\ stage' = [stage EXCEPT ![r] = "tail"]
        \/ pc[r] = "tail" /\ stage' = [stage EXCEPT ![r] = "end"]
    BY <1>1 DEF Quiet, Serve, FinishStream3, LeaveLoop, TailRound, CopyCleanCounts,
       CopyDirtyCounts, CopyProcessingFlags, Drain, TakeHistogram, Stream3BuildReady, hostVars
  <2>3. \A q \in Rank : stage'[q] # "loop" => stage[q] # "loop" \/ ~RingsLeft(q)
    BY <1>0, <2>2 DEF Maps, LeaveLoop, MoreToDo, StageFits
  <2>4. \A q \in Rank : s3phase[q] = "launched" => s3phase'[q] = "launched"
    BY <1>0, <2>1 DEF Maps
  <2> QED
    BY <2>1, <2>3, <2>4, KeepLoads
<1>2. ASSUME NEW r \in Rank, Launch(r) PROVE LoadsInv'
  <2>1. CASE UNCHANGED <<cursor, s3phase>>
    BY <1>2, <2>1, KeepLoads DEF Launch
  <2>2. CASE /\ stage[r] = "loop" /\ s3phase' = [s3phase EXCEPT ![r] = "launched"]
             /\ cursor' = [cursor EXCEPT ![r] = @ + 1]
    <3>1. pc[r] = "admitted" /\ s3phase[r] = "idle" /\ UNCHANGED <<stage, offered>>
      BY <1>0, <1>2 DEF Launch, StageFits
    <3>2. /\ s3phase'[r] = "launched" /\ cursor'[r] = cursor[r] + 1 /\ cursor[r] \in Nat
          /\ \A q \in Rank \ {r} : s3phase'[q] = s3phase[q] /\ cursor'[q] = cursor[q]
      BY <1>0, <2>2 DEF Maps
    <3>3. ASSUME NEW i \in DOMAIN Loads[r], i < cursor[r] + 1
          PROVE  Loads[r][i] \subseteq offered \/ i = cursor[r]
      <4>1. i \in Nat
        BY DEF ExchangeAssumption
      <4> QED
        BY <3>1, <3>2, <3>3, <4>1 DEF LoadsInv
    <3>4. ASSUME NEW q \in Rank, NEW i \in DOMAIN Loads[q], i < cursor'[q]
          PROVE  Loads[q][i] \subseteq offered' \/ (s3phase'[q] = "launched" /\ i = cursor'[q] - 1)
      <4>1. CASE q = r
        BY <3>1, <3>2, <3>3, <3>4, <4>1
      <4>2. CASE q # r
        BY <3>1, <3>2, <3>4, <4>2 DEF LoadsInv
      <4> QED
        BY <4>1, <4>2
    <3>5. \A q \in Rank : stage'[q] # "loop" => ~RingsLeft(q)'
      BY <2>2, <3>1, <3>2 DEF LoadsInv, RingsLeft
    <3> QED
      BY <3>1, <3>4, <3>5 DEF LoadsInv, AllGenerated
  <2> QED
    BY <1>2, <2>1, <2>2 DEF Launch
<1>3. ASSUME NEW r \in Rank, Stream3Append(r) PROVE LoadsInv'
  <2>1. /\ s3phase[r] = "launched" /\ s3phase' = [s3phase EXCEPT ![r] = "appended"]
        /\ offered' = offered \cup Loads[r][cursor[r] - 1] /\ UNCHANGED <<cursor, stage>>
    BY <1>3 DEF Stream3Append, hostVars
  <2>2. cursor[r] - 1 \in DOMAIN Loads[r]
    BY <1>0, <2>1 DEF RingTaken
  <2>3. offered' \subseteq AllGenerated
    BY <2>1, <2>2 DEF LoadsInv, AllGenerated
  <2>4. ASSUME NEW q \in Rank, NEW i \in DOMAIN Loads[q], i < cursor[q]
        PROVE  Loads[q][i] \subseteq offered' \/ (s3phase'[q] = "launched" /\ i = cursor[q] - 1)
    <3>1. Loads[q][i] \subseteq offered \/ (s3phase[q] = "launched" /\ i = cursor[q] - 1)
      BY <2>4 DEF LoadsInv
    <3> QED
      BY <1>0, <2>1, <3>1 DEF Maps
  <2> QED
    BY <2>1, <2>3, <2>4 DEF LoadsInv, AllGenerated, RingsLeft
<1>4. ASSUME NEW r \in Rank, Collect(r) PROVE LoadsInv'
  <2>1. /\ UNCHANGED <<cursor, offered, stage>> /\ pc[r] = "collect"
        /\ s3phase' = s3phase \/ s3phase' = [s3phase EXCEPT ![r] = "idle"]
    BY <1>4 DEF Collect
  <2>2. s3phase[r] # "launched"
    BY <1>0, <2>1 DEF RingTaken
  <2>3. \A q \in Rank : s3phase[q] = "launched" => s3phase'[q] = "launched"
    BY <1>0, <2>1, <2>2 DEF Maps
  <2> QED
    BY <2>1, <2>3, KeepLoads
<1>5. CASE Sorts \/ UNCHANGED vars
  BY <1>5, KeepLoads DEF Sorts, vars, hostVars, streamVars
<1>6. CASE AgreeRounds \/ AgreeRequest \/ UpdateThreshold \/ ExchangeCounts \/ ExchangePayload
           \/ Select
  BY <1>6, KeepLoads DEF AgreeRounds, AgreeRequest, UpdateThreshold, ExchangeCounts,
     ExchangePayload, Select, streamVars
<1> QED
  BY <1>0, <1>1, <1>2, <1>3, <1>4, <1>5, <1>6, StepKinds

LEMMA FlushedStep ==
  ASSUME ExchangeAssumption, StepInv, CreditInv, RowsInv, FlushedInv, [Next]_vars
  PROVE  FlushedInv'
<1>0. BanksFit /\ Maps /\ \A r \in Rank : StageFits(r)
  BY DEF CreditInv, StepInv
<1> DEFINE End(q) == pc[q] \in {"select", "done"}
<1>1. ASSUME \A q \in Rank : End(q)' => End(q) /\ \A p \in Banks(q) : dirty'[p] \subseteq dirty[p]
      PROVE  FlushedInv'
  BY <1>1 DEF FlushedInv, Banks
<1>2. ASSUME NEW r \in Rank, Quiet(r) PROVE FlushedInv'
  <2>1. /\ \A q \in Rank \ {r} : pc'[q] = pc[q]
        /\ pc'[r] = pc[r] \/ pc'[r] \notin {"select", "done"}
    BY <1>0, <1>2 DEF Quiet, Serve, FinishStream3, LeaveLoop, TailRound, CopyCleanCounts,
       CopyDirtyCounts, CopyProcessingFlags, Drain, TakeHistogram, Stream3BuildReady,
       hostVars, Goto, Maps
  <2>2. dirty' = dirty
    BY <1>2, QuietKeeps DEF rowVars
  <2> QED
    BY <1>1, <2>1, <2>2
<1>3. ASSUME NEW r \in Rank, Launch(r) PROVE FlushedInv'
  <2>1. /\ \A q \in Rank \ {r} : pc'[q] = pc[q] /\ pc'[r] \notin {"select", "done"}
        /\ dirty' = dirty
    BY <1>0, <1>3 DEF Launch, Goto, Maps, bankVars
  <2>2. pc'[r] \notin {"select", "done"}
    BY <1>0, <1>3 DEF Launch, Goto, Maps
  <2> QED
    BY <1>1, <2>1, <2>2
<1>4. ASSUME NEW r \in Rank, Stream3Append(r) PROVE FlushedInv'
  <2>1. /\ pc[r] \notin {"select", "done"} /\ pc' = pc
        /\ \E rows : AppendRows(r, rows)
    BY <1>0, <1>4 DEF Stream3Append, StageFits, hostVars
  <2>2. \A p \in Bank : p[1] # r => dirty'[p] = dirty[p]
    BY <2>1, AppendPlaces
  <2> QED
    BY <1>1, <2>1, <2>2 DEF Banks
<1>5. ASSUME NEW r \in Rank, Collect(r) PROVE FlushedInv'
  <2>1. /\ pc'[r] \notin {"select", "done"} /\ \A q \in Rank \ {r} : pc'[q] = pc[q]
        /\ AppendRows(r, incoming[r])
    BY <1>0, <1>5 DEF Collect, Goto, Maps
  <2>2. PICK rows : AppendRows(r, rows)
    BY <2>1
  <2>3. \A p \in Bank : p[1] # r => dirty'[p] = dirty[p]
    BY <2>2, AppendPlaces
  <2> QED
    BY <1>1, <2>1, <2>3 DEF Banks
<1>6. ASSUME NEW r \in Rank, Flush(r) PROVE FlushedInv'
  <2>1. PICK again \in SUBSET Banks(r) : SortBanks({p \in Banks(r) : dirty[p] # {}} \cup again)
    BY <1>6 DEF Flush
  <2>2. \A q \in Rank \ {r} : pc'[q] = pc[q]
    BY <1>0, <1>6 DEF Flush, Goto, Maps
  <2>3. \A p \in Bank : dirty'[p] \subseteq dirty[p] /\ (p \in Banks(r) => dirty'[p] = {})
    BY <2>1 DEF SortBanks
  <2> QED
    BY <2>2, <2>3 DEF FlushedInv, Banks
<1>7. ASSUME NEW r \in Rank, Compact(r) PROVE FlushedInv'
  <2>1. \A p \in Bank : dirty'[p] \subseteq dirty[p]
    BY <1>7 DEF Compact, SortBanks
  <2>2. pc'[r] \notin {"select", "done"} /\ \A q \in Rank \ {r} : pc'[q] = pc[q]
    BY <1>0, <1>7, Local DEF Compact, Goto, Maps
  <2> QED
    BY <1>1, <2>1, <2>2 DEF Banks
<1>8. ASSUME NEW r \in Rank, NEW p \in Banks(r), Stream4Job(p) PROVE FlushedInv'
  <2>1. pc' = pc /\ \A q \in Bank : dirty'[q] \subseteq dirty[q]
    BY <1>0, <1>8 DEF Stream4Job, hostVars, BanksFit
  <2> QED
    BY <1>1, <2>1 DEF Banks
<1>9. CASE AgreeRounds \/ AgreeRequest \/ UpdateThreshold \/ ExchangeCounts \/ ExchangePayload
  <2>1. dirty' = dirty
    BY <1>9 DEF AgreeRounds, AgreeRequest, UpdateThreshold, ExchangeCounts, ExchangePayload,
       bankVars
  <2>2. \A r \in Rank : pc'[r] \notin {"select", "done"}
    <3>1. CASE AgreeRequest
      BY <3>1, RequestKnown DEF AgreeRequest, GotoAll, Settled
    <3> QED
      BY <1>9, <3>1 DEF AgreeRounds, UpdateThreshold, ExchangeCounts, ExchangePayload, GotoAll,
         Start, Settled
  <2> QED
    BY <1>1, <2>1, <2>2
<1>10. CASE Select
  <2>1. dirty' = dirty /\ \A r \in Rank : pc[r] = "select"
    BY <1>10 DEF Select, All, bankVars
  <2> QED
    BY <1>1, <2>1
<1>11. CASE UNCHANGED vars
  BY <1>1, <1>11 DEF vars, hostVars, bankVars
<1> QED
  BY <1>2, <1>3, <1>4, <1>5, <1>6, <1>7, <1>8, <1>9, <1>10, <1>11 DEF Next, Ended, Collective,
     Step, Stream3, Quiet

\* Everything that is known of the ranks at once.
BeamInv ==
    /\ StepInv /\ CreditInv /\ RowsInv /\ MovesInv /\ SameThreshold /\ ThresholdSound
    /\ Brought /\ NothingLost /\ LoadsInv /\ FlushedInv

LEMMA BeamInit ==
  ASSUME ExchangeAssumption, Init
  PROVE  BeamInv
<1>1. StepInv /\ CreditInv
  BY StepInvInit, CreditInit
<1>2. RowsInv /\ MovesInv
  BY BankParts DEF Init, Start, RowsInv, MovesInv, Homes, OwnedBy, OnePerState
<1>3. SameThreshold /\ ThresholdSound /\ Brought /\ NothingLost
  BY DEF Init, Start, SameThreshold, ThresholdSound, Brought, NothingLost, Cutoffs
<1>4. LoadsInv
  <2>1. /\ offered = {} /\ \A r \in Rank : stage[r] = "loop" /\ cursor[r] = 1
    BY DEF Init, Start
  <2>2. \A r \in Rank : \A i \in DOMAIN Loads[r] : ~(i < 1)
    BY DEF ExchangeAssumption
  <2> QED
    BY <2>1, <2>2 DEF LoadsInv
<1>5. FlushedInv
  BY DEF Init, Start, FlushedInv
<1> QED
  BY <1>1, <1>2, <1>3, <1>4, <1>5 DEF BeamInv

LEMMA BeamStep ==
  ASSUME ExchangeAssumption, BeamInv, [Next]_vars
  PROVE  BeamInv'
<1>1. /\ StepInv /\ CreditInv /\ RowsInv /\ MovesInv /\ SameThreshold /\ ThresholdSound
      /\ Brought /\ NothingLost /\ LoadsInv /\ FlushedInv
  BY DEF BeamInv
<1>2. StepInv' /\ CreditInv'
  BY <1>1, StepInvNext, CreditStep
<1>3. RowsInv' /\ MovesInv' /\ LoadsInv' /\ FlushedInv'
  BY <1>1, RowsStep, MovesStep, LoadsStep, FlushedStep
<1>4. SameThreshold' /\ ThresholdSound' /\ Brought' /\ NothingLost'
  BY <1>1, <1>2, <1>3, ThresholdStep, BroughtStep, LostStep
<1> QED
  BY <1>2, <1>3, <1>4 DEF BeamInv
-----------------------------------------------------------------------------
(* What the ranks select.                                                  *)

AllClean == UNION {clean[p] : p \in Bank}

\* When the ranks select, every load was offered and every row is in a clean bank.
LEMMA AllInBanks ==
  ASSUME ExchangeAssumption, BeamInv, All("select")
  PROVE  /\ offered = AllGenerated /\ Held = AllClean /\ \A r \in Rank : ~fatal[r]
<1>0. /\ Maps /\ RowsInv /\ MovesInv /\ LoadsInv /\ FlushedInv
      /\ \A r \in Rank : StageFits(r) /\ FatalSeen(r)
  BY DEF BeamInv, CreditInv, CreditOf, StepInv
<1>1. \A r \in Rank : /\ pc[r] = "select" /\ stage[r] = "end" /\ s3phase[r] = "idle"
                      /\ ~fatal[r] /\ incoming[r] = {} /\ outgoing[r] = {} /\ ~RingsLeft(r)
  BY <1>0 DEF All, StageFits, FatalSeen, MovesInv, LoadsInv
<1>2. \A p \in Bank : dirty[p] = {}
  BY <1>0, <1>1, BankParts DEF FlushedInv
<1>3. Held = AllClean
  BY <1>1, <1>2 DEF Held, AllClean
<1>4. ASSUME NEW r \in Rank, NEW i \in DOMAIN Loads[r] PROVE Loads[r][i] \subseteq offered
  <2>1. i \in Nat /\ i <= Len(Loads[r]) /\ Len(Loads[r]) \in Nat /\ cursor[r] \in Nat
    BY <1>0 DEF ExchangeAssumption, Maps
  <2>2. i < cursor[r]
    BY <1>1, <2>1 DEF RingsLeft
  <2> QED
    BY <1>0, <1>1, <2>2 DEF LoadsInv
<1>5. offered = AllGenerated
  BY <1>0, <1>4 DEF LoadsInv, AllGenerated
<1> QED
  BY <1>1, <1>3, <1>5

\* Rows of one state are on one rank and in one shard, so the unions per shard and
\* rank are the union of all.
LEMMA UnionIsBest ==
  ASSUME ExchangeAssumption, RowsInv
  PROVE  /\ Everything = BestPerState(AllClean) /\ Everything \in SUBSET offered
         /\ \A r \in Rank : \A c \in Union(r) : OwnerOf[StateOf[c]] = r
<1> DEFINE pair(r, l) == clean[<<r, l, 0>>] \cup clean[<<r, l, 1>>]
<1>1. ASSUME NEW r \in Rank, NEW l \in Shard, NEW c \in pair(r, l)
      PROVE  c \in AllClean /\ OwnerOf[StateOf[c]] = r /\ ShardOf[StateOf[c]] = l
  <2>1. PICK p \in Bank : c \in clean[p] /\ p[1] = r /\ p[2] = l
    BY <1>1 DEF Bank
  <2> QED
    BY <2>1 DEF RowsInv, Homes, AllClean
<1>2. ASSUME NEW c \in AllClean
      PROVE  /\ c \in offered /\ OwnerOf[StateOf[c]] \in Rank /\ ShardOf[StateOf[c]] \in Shard
             /\ c \in pair(OwnerOf[StateOf[c]], ShardOf[StateOf[c]])
  <2>1. PICK p \in Bank : c \in clean[p]
    BY <1>2 DEF AllClean
  <2>2. c \in Homes(p[1], p[2]) /\ p[1] \in Rank /\ p[2] \in Shard
    BY <2>1, BankParts DEF RowsInv
  <2>3. OwnerOf[StateOf[c]] = p[1] /\ ShardOf[StateOf[c]] = p[2] /\ c \in offered
    BY <2>2 DEF Homes
  <2>4. p = <<p[1], p[2], 0>> \/ p = <<p[1], p[2], 1>>
    BY BankParts
  <2>5. c \in pair(p[1], p[2])
    BY <2>1, <2>4
  <2> HIDE DEF pair
  <2> QED
    BY <2>2, <2>3, <2>5
<1>3. \A r \in Rank : Union(r) = UNION {BestPerState(pair(r, l)) : l \in Shard}
  BY DEF Union
<1> HIDE DEF pair
<1>4. ASSUME NEW r \in Rank, NEW c \in Union(r)
      PROVE  OwnerOf[StateOf[c]] = r /\ c \in BestPerState(AllClean)
  <2>1. PICK l \in Shard : c \in BestPerState(pair(r, l))
    BY <1>3, <1>4
  <2>2. c \in pair(r, l)
    BY <2>1 DEF BestPerState
  <2>3. c \in AllClean /\ OwnerOf[StateOf[c]] = r /\ ShardOf[StateOf[c]] = l
    BY <1>1, <2>2
  <2>4. \A d \in AllClean : StateOf[d] = StateOf[c] => d \in pair(r, l)
    BY <1>2, <2>3
  <2> QED
    BY <2>1, <2>3, <2>4 DEF BestPerState
<1>5. ASSUME NEW c \in BestPerState(AllClean) PROVE c \in Everything /\ c \in offered
  <2>1. PICK r \in Rank, l \in Shard : r = OwnerOf[StateOf[c]] /\ l = ShardOf[StateOf[c]] /\ c \in pair(r, l)
    BY <1>2, <1>5 DEF BestPerState
  <2>2. c \in BestPerState(pair(r, l))
    BY <1>1, <1>5, <2>1 DEF BestPerState
  <2>3. c \in Union(r)
    BY <1>3, <2>2
  <2> QED
    BY <1>2, <1>5, <2>3 DEF Everything, BestPerState
<1>6. \A c \in Everything : c \in BestPerState(AllClean)
  BY <1>4 DEF Everything
<1> QED
  BY <1>4, <1>5, <1>6

\* What the ranks hold has the best rows that the threshold lets pass.
LEMMA UnionAgrees ==
  ASSUME ExchangeAssumption, BeamInv, All("select"), NEW r \in Rank
  PROVE  /\ Everything \in SUBSET Cand /\ threshold[r] \in Nat
         /\ AtMost(Everything, threshold[r]) = AtMost(BestPerState(offered), threshold[r])
<1>1. /\ RowsInv /\ SameThreshold /\ NothingLost /\ offered \in SUBSET Cand
      /\ threshold[r] \in Nat
  BY LetPass DEF BeamInv, RowsInv
<1>2. AllClean \in SUBSET offered
  BY <1>1 DEF AllClean, RowsInv, Homes
<1>3. ASSUME NEW c \in offered PROVE Score[c] > threshold[r] \/ \E h \in AllClean : StandsFor(h, c)
  <2>1. Excluded(c) \/ \E h \in AllClean : StandsFor(h, c)
    BY <1>1, AllInBanks DEF NothingLost
  <2> QED
    BY <2>1 DEF Excluded
<1>4. AtMost(BestPerState(AllClean), threshold[r]) = AtMost(BestPerState(offered), threshold[r])
  BY <1>1, <1>2, <1>3, KeptIsBest
<1> QED
  BY <1>1, <1>4, UnionIsBest

\* The final threshold is no looser than the threshold of the ranks, and fills the
\* beam or excludes nothing.
LEMMA FinalThresholdFits ==
  ASSUME ExchangeAssumption, BeamInv, All("select")
  PROVE  /\ FinalThreshold \in Nat
         /\ AtMost(Everything, FinalThreshold) = AtMost(BestPerState(offered), FinalThreshold)
         /\ \/ Cardinality(AtMost(Everything, FinalThreshold)) >= BeamWidth
            \/ AtMost(Everything, FinalThreshold) = BestPerState(offered)
<1> DEFINE t == FinalThreshold
           B == BestPerState(offered)
<1>0. PICK r \in Rank : TRUE
  BY RankFinite
<1>1. /\ RowsInv /\ SameThreshold /\ ThresholdSound /\ offered \in SUBSET Cand
      /\ NoThreshold \in Nat
  BY CandAssumption DEF BeamInv, RowsInv
<1>2. /\ Everything \in SUBSET Cand /\ B \in SUBSET Cand /\ threshold[r] \in Nat
      /\ AtMost(Everything, threshold[r]) = AtMost(B, threshold[r])
  BY <1>1, UnionAgrees, ReductionsAreRows
<1>3. initialized[r] => threshold[r] \in Reaching
  <2> SUFFICES ASSUME initialized[r] PROVE threshold[r] \in Reaching
    OBVIOUS
  <2>1. Cardinality(States(AtMost(offered, threshold[r]))) >= BeamWidth /\ threshold[r] \in Scores
    BY <1>1 DEF ThresholdSound, SameThreshold
  <2>2. Cardinality(States(AtMost(offered, threshold[r]))) = Cardinality(AtMost(B, threshold[r]))
    BY <1>1, <1>2, StatesAtMost
  <2> QED
    BY <1>2, <2>1, <2>2 DEF Reaching
<1>4. CASE Reaching # {}
  <2>1. Reaching \in SUBSET Nat /\ Reaching \in SUBSET Scores
    BY ScoresBounded DEF Reaching
  <2>2. PICK m \in Reaching : \A n \in Reaching : m <= n
    BY <1>4, <2>1, LeastNatural
  <2>3. Min(Reaching) \in Reaching /\ \A u \in Reaching : Min(Reaching) <= u
    BY <2>2 DEF Min
  <2>4. t \in Reaching /\ \A u \in Reaching : t <= u
    BY <1>4, <2>3 DEF FinalThreshold
  <2>5. t \in Nat /\ t < NoThreshold
    BY <2>1, <2>4, ScoresBounded
  <2>6. t <= threshold[r]
    <3>1. CASE initialized[r]
      BY <1>3, <2>4, <3>1
    <3>2. CASE ~initialized[r]
      BY <1>0, <1>1, <2>5, <3>2 DEF SameThreshold
    <3> QED
      BY <3>1, <3>2
  <2>7. Cardinality(AtMost(Everything, t)) >= BeamWidth
    BY <2>4 DEF Reaching
  <2> HIDE DEF t, B
  <2>8. AtMost(Everything, t) = AtMost(B, t)
    <3>1. \A c \in Cand : Score[c] \in Nat /\ (Score[c] <= t => Score[c] <= threshold[r])
      BY <1>2, <2>5, <2>6, CandAssumption
    <3> QED
      BY <1>2, <3>1 DEF AtMost
  <2> QED
    BY <2>5, <2>7, <2>8 DEF t, B
<1>5. CASE Reaching = {}
  <2>1. t = NoThreshold /\ ~initialized[r]
    BY <1>3, <1>5 DEF FinalThreshold
  <2>2. threshold[r] = NoThreshold
    BY <1>0, <1>1, <2>1 DEF SameThreshold
  <2>3. \A c \in Cand : Score[c] <= NoThreshold
    BY CandAssumption
  <2> HIDE DEF t, B
  <2>4. AtMost(B, NoThreshold) = B
    BY <1>2, <2>3 DEF AtMost
  <2> QED
    BY <1>1, <1>2, <2>1, <2>2, <2>4 DEF t, B
<1> QED
  BY <1>4, <1>5

LEMMA DisjointCount ==
  ASSUME NEW S \in SUBSET Cand, NEW T \in SUBSET Cand, S \cap T = {}
  PROVE  /\ Cardinality(S \cup T) = Cardinality(S) + Cardinality(T)
         /\ Cardinality(S) \in Nat /\ Cardinality(T) \in Nat
<1>1. /\ IsFiniteSet(S) /\ IsFiniteSet(T)
      /\ Cardinality(S) \in Nat /\ Cardinality(T) \in Nat
  BY RowsFinite
<1>2. Cardinality(S \cup T) = Cardinality(S) + Cardinality(T) - Cardinality(S \cap T)
  BY <1>1, FS_Union
<1>3. Cardinality(S \cap T) = 0
  BY FS_EmptySet
<1> QED
  BY <1>1, <1>2, <1>3

\* What the ranks of R have of F together, and what is left of n places for rank r
\* after the lower ranks have taken what they have of E.
OfRanks(R, F) == UNION {F[q] : q \in R}
LeftOf(n, E, r) ==
    LET taken == Cardinality(OfRanks(Lower(r), E))
    IN IF n > taken THEN n - taken ELSE 0

\* If every rank takes what the lower ranks leave of n places, all take n together,
\* or everything.
LEMMA SharesFill ==
  ASSUME ExchangeAssumption, NEW E \in [Rank -> SUBSET Cand], NEW f, NEW n \in Nat,
         \A q, r \in Rank : q # r => E[q] \cap E[r] = {},
         \A r \in Rank : /\ f[r] \in SUBSET E[r]
                         /\ Cardinality(f[r]) = Smaller(LeftOf(n, E, r), Cardinality(E[r]))
  PROVE  Cardinality(OfRanks(Rank, f)) = Smaller(n, Cardinality(OfRanks(Rank, E)))
<1> DEFINE EqB(k) == UNION {E[q] : q \in Lower(k)}
           TiB(k) == UNION {f[q] : q \in Lower(k)}
           N == Cardinality(Rank)
           P(k) == Cardinality(TiB(k)) = Smaller(n, Cardinality(EqB(k)))
           Bad == {k \in 0..N : ~P(k)}
<1>1. N \in Nat /\ Rank = 0..(N - 1)
  BY FS_CardinalityType DEF ExchangeAssumption
<1>2. P(0)
  <2>1. Lower(0) = {}
    BY <1>1 DEF Lower
  <2>2. EqB(0) = {} /\ TiB(0) = {}
    BY <2>1
  <2> HIDE DEF EqB, TiB
  <2> QED
    BY <2>2, FS_EmptySet DEF Smaller
<1>3. ASSUME NEW k \in Rank, P(k) PROVE P(k + 1)
  <2>1. k \in Nat /\ Lower(k + 1) = Lower(k) \cup {k} /\ \A q \in Lower(k) : q \in Rank /\ q # k
    BY <1>1 DEF Lower
  <2>2. EqB(k + 1) = EqB(k) \cup E[k] /\ TiB(k + 1) = TiB(k) \cup f[k]
    BY <2>1
  <2>3. /\ EqB(k) \in SUBSET Cand /\ TiB(k) \in SUBSET Cand
        /\ E[k] \in SUBSET Cand /\ f[k] \in SUBSET Cand
        /\ EqB(k) \cap E[k] = {} /\ TiB(k) \cap f[k] = {}
    <3>1. \A q \in Lower(k) : /\ E[q] \in SUBSET Cand /\ f[q] \in SUBSET E[q]
                              /\ E[q] \cap E[k] = {}
      BY <2>1
    <3>2. f[k] \in SUBSET E[k]
      OBVIOUS
    <3>3. /\ \A c \in EqB(k) : \E q \in Lower(k) : c \in E[q]
          /\ \A c \in TiB(k) : \E q \in Lower(k) : c \in f[q]
      OBVIOUS
    <3> HIDE DEF EqB, TiB
    <3> QED
      BY <3>1, <3>2, <3>3
  <2>4. Cardinality(f[k]) = Smaller(IF n > Cardinality(EqB(k)) THEN n - Cardinality(EqB(k)) ELSE 0,
                                    Cardinality(E[k]))
    BY DEF LeftOf, OfRanks
  <2> HIDE DEF EqB, TiB
  <2>5. /\ Cardinality(EqB(k + 1)) = Cardinality(EqB(k)) + Cardinality(E[k])
        /\ Cardinality(TiB(k + 1)) = Cardinality(TiB(k)) + Cardinality(f[k])
        /\ Cardinality(EqB(k)) \in Nat /\ Cardinality(E[k]) \in Nat
        /\ Cardinality(TiB(k)) \in Nat /\ Cardinality(f[k]) \in Nat
    BY <2>2, <2>3, DisjointCount
  <2> QED
    BY <1>3, <2>4, <2>5 DEF Smaller
<1>4. ASSUME NEW k \in Bad PROVE FALSE
  <2>1. Bad \in SUBSET Nat
    BY <1>1
  <2> HIDE DEF P
  <2>2. PICK m \in Bad : \A j \in Bad : m <= j
    <3> HIDE DEF Bad
    <3> QED
      BY <1>4, <2>1, LeastNatural
  <2>3. m # 0 /\ m \in Nat /\ m <= N /\ ~P(m)
    BY <1>1, <1>2, <2>2
  <2>4. m - 1 \in Rank /\ m - 1 \notin Bad
    BY <1>1, <2>2, <2>3
  <2>5. P(m - 1)
    BY <1>1, <2>3, <2>4
  <2>6. P((m - 1) + 1) /\ (m - 1) + 1 = m
    BY <1>3, <2>3, <2>4, <2>5
  <2> QED
    BY <2>3, <2>6
<1>5. P(N)
  <2> HIDE DEF P
  <2> QED
    BY <1>1, <1>4
<1>6. Lower(N) = Rank
  BY <1>1 DEF Lower
<1> QED
  BY <1>5, <1>6 DEF OfRanks

\* Fewer than the beam width are strictly better than the final threshold.
LEMMA LessFits ==
  ASSUME ExchangeAssumption, BeamInv, All("select")
  PROVE  Cardinality({c \in Everything : Score[c] < FinalThreshold}) < BeamWidth
<1> DEFINE less == {c \in Everything : Score[c] < FinalThreshold}
           S == {Score[c] : c \in less}
<1>0. Everything \in SUBSET Cand
  <2>1. PICK r \in Rank : TRUE
    BY RankFinite
  <2> QED
    BY UnionAgrees
<1>1. less \in SUBSET Cand
  BY <1>0
<1>2. Cardinality(less) \in Nat /\ IsFiniteSet(less)
  BY <1>1, RowsFinite
<1> SUFFICES ASSUME Cardinality(less) >= BeamWidth PROVE FALSE
  BY <1>2, WidthAssumption
<1>3. PICK m \in S : \A n \in S : n <= m
  <2>1. less # {}
    BY FS_EmptySet, WidthAssumption
  <2>2. S \in SUBSET Nat /\ S # {}
    BY <1>1, <2>1, CandAssumption
  <2>3. IsFiniteSet(S)
    <3> DEFINE g == [c \in less |-> Score[c]]
    <3>1. g \in Surjection(less, S)
      BY DEF Surjection
    <3> HIDE DEF g, less, S
    <3> QED
      BY <1>2, <3>1, FS_Surjection
  <2> HIDE DEF S
  <2> QED
    BY <2>2, <2>3, Greatest
<1>4. PICK k \in less : m = Score[k]
  OBVIOUS
<1>5. m \in Scores /\ m < FinalThreshold /\ m \in Nat
  BY <1>1, <1>4, ScoresBounded DEF Scores
<1>6. less \in SUBSET AtMost(Everything, m) /\ AtMost(Everything, m) \in SUBSET Cand
  BY <1>0, <1>3 DEF AtMost
<1> HIDE DEF less
<1>7. Cardinality(AtMost(Everything, m)) >= BeamWidth
  <2>1. /\ Cardinality(less) <= Cardinality(AtMost(Everything, m))
        /\ Cardinality(AtMost(Everything, m)) \in Nat
    BY <1>6, RowsFinite, FS_Subset
  <2> QED
    BY <1>2, <2>1, WidthAssumption
<1>8. m \in Reaching
  BY <1>5, <1>7 DEF Reaching
<1>9. PICK n \in Reaching : \A u \in Reaching : n <= u
  BY <1>8, ScoresBounded, LeastNatural DEF Reaching
<1>10. FinalThreshold = Min(Reaching) /\ Min(Reaching) <= m
  BY <1>8, <1>9 DEF FinalThreshold, Min
<1>11. FinalThreshold \in Nat
  BY FinalThresholdFits
<1> QED
  BY <1>5, <1>10, <1>11

\* The ranks take together what one rank would select from all that they hold.
LEMMA SelectIsBeam ==
  ASSUME ExchangeAssumption, BeamInv, Select
  PROVE  IsBeamOf(beam', AllGenerated) /\ beam' \in SUBSET Cand
<1> DEFINE t == FinalThreshold
           U == Everything
           less == {c \in U : Score[c] < t}
           equal == {c \in U : Score[c] = t}
           n == BeamWidth - Cardinality(less)
           E == [r \in Rank |-> Equal(r)]
<1>0. All("select") /\ RowsInv
  BY DEF Select, BeamInv
<1>1. PICK ties \in [Rank -> UNION {Picks(r) : r \in Rank}] :
          /\ \A r \in Rank : ties[r] \in Picks(r)
          /\ beam' = UNION {Less(r) \cup ties[r] : r \in Rank}
  BY DEF Select
<1>2. U \in SUBSET Cand /\ t \in Nat
  <2>1. PICK r \in Rank : TRUE
    BY RankFinite
  <2> QED
    BY <1>0, UnionAgrees, FinalThresholdFits
<1>3. /\ \A r \in Rank : Less(r) \in SUBSET less /\ Equal(r) \in SUBSET equal
      /\ \A r \in Rank : \A c \in Less(r) \cup Equal(r) : OwnerOf[StateOf[c]] = r
      /\ \A c \in less : \E r \in Rank : c \in Less(r)
      /\ \A c \in equal : \E r \in Rank : c \in Equal(r)
  <2>1. \A r \in Rank : \A c \in Union(r) : OwnerOf[StateOf[c]] = r
    BY <1>0, UnionIsBest
  <2> QED
    BY <2>1 DEF Less, Equal, Everything
<1>4. less \in SUBSET Cand /\ equal \in SUBSET Cand /\ less \cap equal = {}
  <2>1. \A c \in Cand : Score[c] \in Nat
    BY CandAssumption
  <2> HIDE DEF t
  <2> QED
    BY <1>2, <2>1
<1>5. n \in Nat /\ Cardinality(less) \in Nat
  <2>1. Cardinality(less) < BeamWidth
    BY <1>0, LessFits
  <2> HIDE DEF less
  <2> QED
    BY <1>4, <2>1, RowsFinite, WidthAssumption
<1> HIDE DEF t, U, less, equal
<1>6. TotalLess = Cardinality(less)
  <2> DEFINE F == [q \in Rank |-> Less(q)]
  <2>1. UNION {F[q] : q \in Rank} = less
    BY <1>3
  <2>2. \A q, r \in Rank : q # r => F[q] \cap F[r] = {}
    BY <1>3
  <2>3. DOMAIN F = Rank /\ IsFiniteSet(less)
    BY <1>4, RowsFinite
  <2> HIDE DEF F
  <2>4. Total(F) = Cardinality(less)
    BY <2>1, <2>2, <2>3, TotalOfSets
  <2> QED
    BY <2>4 DEF TotalLess, F
<1>7. ASSUME NEW r \in Rank
      PROVE  /\ ties[r] \in SUBSET E[r]
             /\ Cardinality(ties[r]) = Smaller(LeftOf(n, E, r), Cardinality(E[r]))
  <2> DEFINE F == [q \in Lower(r) |-> Equal(q)]
             V == UNION {E[q] : q \in Lower(r)}
  <2>1. \A q \in Lower(r) : q \in Rank /\ F[q] = Equal(q) /\ E[q] = Equal(q)
    BY DEF Lower
  <2>2. UNION {F[q] : q \in Lower(r)} = V
    BY <2>1
  <2> HIDE DEF E
  <2>3. ASSUME NEW p \in Lower(r), NEW q \in Lower(r), p # q PROVE F[p] \cap F[q] = {}
    <3>1. p \in Rank /\ q \in Rank /\ F[p] = Equal(p) /\ F[q] = Equal(q)
      BY <2>1
    <3> HIDE DEF F
    <3> QED
      BY <1>3, <2>3, <3>1
  <2>4. V \in SUBSET Cand
    <3>1. \A q \in Lower(r) : E[q] \in SUBSET Cand
      BY <1>3, <1>4, <2>1
    <3> QED
      BY <3>1
  <2>5. DOMAIN F = Lower(r) /\ IsFiniteSet(V) /\ Cardinality(V) \in Nat
    BY <2>4, RowsFinite
  <2> HIDE DEF F, V
  <2>6. Total(F) = Cardinality(V)
    BY <2>2, <2>3, <2>5, TotalOfSets
  <2>7. TieRoom(r) = IF n > Cardinality(V) THEN n - Cardinality(V) ELSE 0
    BY <1>5, <1>6, <2>5, <2>6, WidthAssumption DEF TieRoom, F, n
  <2>8. ties[r] \in SUBSET E[r] /\ Cardinality(ties[r]) = Smaller(TieRoom(r), Cardinality(E[r]))
    BY <1>1 DEF Picks, E
  <2> QED
    BY <2>7, <2>8 DEF V, LeftOf, OfRanks
<1>8. Cardinality(OfRanks(Rank, ties)) = Smaller(n, Cardinality(OfRanks(Rank, E)))
  <2>1. E \in [Rank -> SUBSET Cand]
    BY <1>3, <1>4
  <2>2. \A q, r \in Rank : q # r => E[q] \cap E[r] = {}
    BY <1>3
  <2> HIDE DEF E, n
  <2>3. \A r \in Rank : /\ ties[r] \in SUBSET E[r]
                        /\ Cardinality(ties[r]) = Smaller(LeftOf(n, E, r), Cardinality(E[r]))
    BY <1>7
  <2>4. n \in Nat
    BY <1>5
  <2> QED
    BY <2>1, <2>2, <2>3, <2>4, SharesFill, ZenonT(40)
<1>9. OfRanks(Rank, E) = equal
  BY <1>3 DEF OfRanks
<1> DEFINE T == UNION {ties[r] : r \in Rank}
<1>10. beam' = less \cup T /\ T \in SUBSET equal
  <2>1. \A r \in Rank : ties[r] \in SUBSET Equal(r)
    BY <1>1 DEF Picks
  <2>2. beam' = (UNION {Less(r) : r \in Rank}) \cup T
    BY <1>1
  <2>3. UNION {Less(r) : r \in Rank} = less
    BY <1>3
  <2> QED
    BY <1>3, <2>1, <2>2, <2>3
<1> HIDE DEF T
<1>11. less \cup equal = AtMost(U, t)
  <2>1. \A c \in Cand : Score[c] \in Nat
    BY CandAssumption
  <2> QED
    BY <1>2, <2>1 DEF AtMost, less, equal
<1>12. Cardinality(beam') = Smaller(BeamWidth, Cardinality(AtMost(U, t)))
  <2>1. /\ Cardinality(less \cup equal) = Cardinality(less) + Cardinality(equal)
        /\ Cardinality(equal) \in Nat
    BY <1>4, DisjointCount
  <2>2. Cardinality(less \cup T) = Cardinality(less) + Cardinality(T)
    BY <1>4, <1>10, DisjointCount
  <2>3. Cardinality(T) = Smaller(n, Cardinality(equal))
    BY <1>8, <1>9 DEF T, OfRanks
  <2>4. Cardinality(beam') = Cardinality(less) + Cardinality(T)
    BY <1>10, <2>2
  <2>5. Cardinality(AtMost(U, t)) = Cardinality(less) + Cardinality(equal)
    BY <1>11, <2>1
  <2> QED
    BY <1>5, <2>1, <2>3, <2>4, <2>5, WidthAssumption DEF Smaller, n
<1>13. /\ AtMost(U, t) = AtMost(BestPerState(offered), t)
       /\ \/ Cardinality(AtMost(U, t)) >= BeamWidth
          \/ AtMost(U, t) = BestPerState(offered)
       /\ offered = AllGenerated /\ offered \in SUBSET Cand
  BY <1>0, FinalThresholdFits, AllInBanks DEF U, t, RowsInv
<1>14. {c \in U : Score[c] < t} \subseteq beam' /\ beam' \subseteq AtMost(U, t)
  BY <1>10, <1>11 DEF less
<1>15. PICK F : F = beam'
  OBVIOUS
<1>16. IsBeamOf(F, offered)
  BY <1>2, <1>12, <1>13, <1>14, <1>15, SelectionIsBeam
<1> QED
  BY <1>4, <1>10, <1>13, <1>15, <1>16

-----------------------------------------------------------------------------
(* The ranks implement BeamDepth.                                          *)

LEMMA SameBeam ==
  ASSUME NEW F, NEW G
  PROVE  Depth!IsBeamOf(F, G) <=> IsBeamOf(F, G)
BY DEF Depth!IsBeamOf, IsBeamOf, Depth!BestPerState, BestPerState, Depth!Better, Better,
   Depth!Smaller, Smaller, Depth!States, States, Depth!Cardinality, Cardinality

Over == \E r \in Rank : pc[r] = "failed"
DepthsDone == IF All("done") THEN 1 ELSE 0

\* A rank by itself neither returns from the depth nor comes back from a failure.
LEMMA AloneStutters ==
  ASSUME StepInv, NEW r \in Rank, Step(r)
  PROVE  /\ beam' = beam /\ pc[r] \notin {"done", "failed"} /\ pc'[r] # "done"
         /\ \A q \in Rank \ {r} : pc'[q] = pc[q]
<1>0. Maps
  BY DEF StepInv
<1>1. CASE \/ Serve(r) \/ FinishStream3(r) \/ LeaveLoop(r) \/ TailRound(r)
           \/ CopyCleanCounts(r) \/ CopyDirtyCounts(r) \/ CopyProcessingFlags(r)
  BY <1>0, <1>1 DEF Serve, FinishStream3, LeaveLoop, TailRound, CopyCleanCounts,
     CopyDirtyCounts, CopyProcessingFlags, Goto, Maps
<1>2. CASE Drain(r) \/ TakeHistogram(r) \/ Launch(r) \/ Collect(r) \/ Flush(r)
  BY <1>0, <1>2 DEF Drain, TakeHistogram, Launch, Collect, Flush, Goto, Maps
<1>3. CASE Compact(r)
  BY <1>0, <1>3, Local DEF Compact, Goto, Maps
<1> QED
  BY <1>1, <1>2, <1>3 DEF Step

\* No step but the selection ends the depth or touches the beam.
LEMMA OtherStepsStutter ==
  ASSUME ExchangeAssumption, StepInv, [Next]_vars, ~Select
  PROVE  beam' = beam /\ DepthsDone' = DepthsDone /\ (Over => Over')
<1>1. ASSUME UNCHANGED <<pc, beam>> PROVE beam' = beam /\ DepthsDone' = DepthsDone /\ (Over => Over')
  BY <1>1 DEF DepthsDone, All, Over
<1>2. ASSUME NEW r \in Rank, Step(r)
      PROVE  beam' = beam /\ DepthsDone' = DepthsDone /\ (Over => Over')
  <2>1. /\ beam' = beam /\ pc[r] \notin {"done", "failed"} /\ pc'[r] # "done"
        /\ \A q \in Rank \ {r} : pc'[q] = pc[q]
    BY <1>2, AloneStutters
  <2>2. DepthsDone' = 0 /\ DepthsDone = 0
    BY <2>1 DEF DepthsDone, All
  <2>3. Over => Over'
    BY <2>1 DEF Over
  <2> QED
    BY <2>1, <2>2, <2>3
<1>3. ASSUME NEW r \in Rank, Stream3(r) \/ \E p \in Banks(r) : Stream4Job(p)
      PROVE  UNCHANGED <<pc, beam>>
  BY <1>3 DEF Stream3, Stream3Append, Stream3BuildReady, Stream4Job, hostVars
<1>4. CASE AgreeRounds \/ AgreeRequest \/ UpdateThreshold \/ ExchangeCounts \/ ExchangePayload
  <2>1. PICK r \in Rank : TRUE
    BY RankFinite
  <2>2. \A q \in Rank : pc[q] \notin {"done", "failed"}
    BY <1>4 DEF AgreeRounds, AgreeRequest, UpdateThreshold, ExchangeCounts, ExchangePayload, All
  <2>3. pc'[r] # "done"
    <3>1. CASE AgreeRequest
      BY <3>1, RequestKnown DEF AgreeRequest, GotoAll, Settled
    <3> QED
      BY <1>4, <3>1 DEF AgreeRounds, UpdateThreshold, ExchangeCounts, ExchangePayload, GotoAll,
         Start, Settled
  <2>4. DepthsDone' = 0 /\ DepthsDone = 0 /\ ~Over
    BY <2>1, <2>2, <2>3 DEF DepthsDone, All, Over
  <2> QED
    BY <1>4, <2>4 DEF AgreeRounds, AgreeRequest, UpdateThreshold, ExchangeCounts, ExchangePayload
<1>5. CASE UNCHANGED vars
  BY <1>1, <1>5 DEF vars, hostVars
<1> QED
  BY <1>1, <1>2, <1>3, <1>4, <1>5 DEF Next, Ended, Collective

LEMMA DepthStep ==
  ASSUME ExchangeAssumption, BeamInv, [Next]_vars
  PROVE  [Depth!Next]_(Depth!abstractVars)
<1>0. StepInv
  BY DEF BeamInv
<1>1. CASE Select
  <2>1. \A r \in Rank : pc[r] = "select" /\ pc'[r] = "done"
    BY <1>1 DEF Select, All, GotoAll, Start
  <2>2. PICK r \in Rank : TRUE
    BY RankFinite
  <2>3. DepthsDone = 0 /\ DepthsDone' = 1 /\ ~Over /\ ~Over'
    BY <2>1, <2>2 DEF DepthsDone, All, Over
  <2>4. Depth!IsBeamOf(beam', AllGenerated) /\ beam' \subseteq Cand
    BY <1>1, SelectIsBeam, SameBeam
  <2>5. Depth!FinishDepth
    BY <2>3, <2>4 DEF Depth!FinishDepth, DepthsDone, Over
  <2> QED
    BY <2>5 DEF Depth!Next
<1>2. CASE ~Select
  <2>1. beam' = beam /\ DepthsDone' = DepthsDone /\ (Over => Over')
    BY <1>0, <1>2, OtherStepsStutter
  <2>2. CASE Over' = Over
    BY <2>1, <2>2 DEF Depth!abstractVars, DepthsDone, Over
  <2>3. CASE ~Over /\ Over'
    <3>1. Depth!End
      BY <2>1, <2>3 DEF Depth!End, DepthsDone, Over
    <3> QED
      BY <3>1 DEF Depth!Next
  <2>4. Over \in BOOLEAN /\ Over' \in BOOLEAN
    BY DEF Over
  <2> QED
    BY <2>1, <2>2, <2>3, <2>4
<1> QED
  BY <1>1, <1>2

\* Whatever the number of ranks, the owners of the states, the loads and the sizes,
\* and however rounds, exchanges, sorts and threshold updates interleave, a depth of
\* several ranks does what BeamDepth promises: run_depth_cuda_graphs and the
\* selection across ranks replace the frontier, in one step, by a correct beam of
\* all that the ranks generate, or a rank fails and the search ends there.
THEOREM ExchangeImplementsBeamDepth ==
  ASSUME ExchangeAssumption
  PROVE  Spec => ImplementsBeamDepth
<1>1. Init => BeamInv
  BY BeamInit
<1>2. BeamInv /\ [Next]_vars => BeamInv'
  BY BeamStep
<1>3. Init => Depth!Init
  <2>1. PICK r \in Rank : TRUE
    BY RankFinite
  <2> QED
    BY <2>1 DEF Init, Start, All, Depth!Init
<1>4. BeamInv /\ [Next]_vars => [Depth!Next]_(Depth!abstractVars)
  BY DepthStep
<1> QED
  BY <1>1, <1>2, <1>3, <1>4, PTL DEF Spec, Depth!Spec, ImplementsBeamDepth
=============================================================================
