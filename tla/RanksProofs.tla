----------------------------- MODULE RanksProofs -----------------------------
(***************************************************************************)
(* The ranks of one search, for every number of them and every output: an   *)
(* answer stands on all lines of ranks that all ended well, nothing is left *)
(* when the call is over, and the tasks of a cluster never share a rank or  *)
(* a place.                                                                 *)
(***************************************************************************)
EXTENDS Ranks, FiniteSetTheorems, TLAPS

(* Tasks of a cluster.                                                      *)

\* A directory belongs to the task that made it: a task that is past its claim
\* owns its rank, one that got as far as starting a process its place too.
OwnsRank(t) == rankDir[assigned[t].rank] = t
OwnsPlace(t) == placeDir[assigned[t].place] = t

ClaimsHeld ==
    \A t \in Tasks :
        /\ task[t] \notin {"claim", "refused", "crashed"} => OwnsRank(t)
        /\ task[t] \in {"check", "launch", "watch", "returned"} => OwnsPlace(t)
        /\ Scheduling!Started(t) => OwnsRank(t) /\ OwnsPlace(t)

RefusedHasNone == \A t \in Tasks : task[t] = "refused" => ~Scheduling!Started(t)

ClusterInv ==
    /\ Scheduling!TypeOK /\ ClaimsHeld /\ RefusedHasNone
    /\ Scheduling!OnlyOwnersFailTheRun /\ Scheduling!NothingLeftRunning

(* Ranks of one machine.                                                    *)

Stopping == {"term", "wait", "kill", "reap"}
Past == {"gather", "strict", "parse", "answered", "raised"}

\* The ranks are started in order.
StartedFirst ==
    \E n \in 0..Launching!World : \A r \in Launching!Ranks : Launching!Started(r) <=> r < n

InOrder ==
    /\ StartedFirst
    /\ pc = "spawn" => at \in Launching!Ranks /\ \A r \in Launching!Ranks : r < at => Launching!Started(r)
    /\ pc = "watch" => \A r \in Launching!Ranks : Launching!Started(r)
    /\ pc \in Stopping => at \in Launching!Ranks /\ Launching!Started(at)
    /\ pc = "gather" => at \in Launching!Ranks

\* Trees are stopped in that order, and none is left when a log is read, unless
\* a rank could not be killed.
TreesStopped ==
    /\ \A r \in Launching!Ranks : child[r] => Launching!Started(r) /\ r \in Launching!Forking
    /\ pc \in Stopping => \A r \in Launching!Ranks : r < at => ~Launching!AliveIn(r)
    /\ pc = "reap" => ~child[at] /\ (leader[at] = "running" => at \in Launching!Stuck)
    /\ pc \in Past /\ (Launching!Stuck = {} \/ ~failure) =>
         \A r \in Launching!Ranks : ~Launching!AliveIn(r)

\* Without a failure every rank ended well.
EndedWell ==
    /\ pc \in {"spawn", "watch", "parse", "answered"} => ~failure
    /\ pc \notin {"spawn", "watch"} /\ ~failure => Launching!AllZero
    /\ pc \in {"gather", "strict"} => Launching!Cohort

\* A log is what the ranks before n wrote, one after the other, and nothing else.
InTurn(log, out, n) ==
    \E end \in [0..n -> 0..Len(log)] :
        /\ end[0] = 0 /\ end[n] = Len(log)
        /\ \A r \in 0..n - 1 :
             /\ end[r + 1] = end[r] + Len(out[r])
             /\ \A i \in 1..Len(out[r]) : log[end[r] + i] = out[r][i]
Everything(log, out, n) ==
    \A r \in 0..n - 1 : \A i \in 1..Len(out[r]) : \E j \in 1..Len(log) : log[j] = out[r][i]
NothingElse(log, out, n) ==
    \A j \in 1..Len(log) : \E r \in 0..n - 1 : \E i \in 1..Len(out[r]) : log[j] = out[r][i]
Whole(log, out, n) == InTurn(log, out, n) /\ Everything(log, out, n) /\ NothingElse(log, out, n)

LogWhole ==
    /\ pc \notin Past => merged = <<>>
    /\ pc = "gather" /\ ~failure /\ ~issues => Whole(merged, stream, at)
    /\ pc = "strict" /\ ~failure /\ ~issues => Whole(merged, stream, Launching!World)
    /\ pc \in {"parse", "answered"} /\ Launching!Cohort => Whole(merged, stream, Launching!World)

\* What parse_terminal found in the lines it answered with a from.
IndicesOf(lines, k) == {i \in 1..Len(lines) : lines[i].kind = k}
Agreed(lines, a) ==
    /\ IndicesOf(lines, "terminal") # {}
    /\ \A i \in IndicesOf(lines, "terminal") : lines[i].path = a
    /\ a # Launching!NoPath => a \in Solving
    /\ \A i \in IndicesOf(lines, "collected") : lines[i].path \in Solving
    /\ \A i \in IndicesOf(lines, "width") : lines[i].width = "requested"
    /\ IndicesOf(lines, "summary") # {} =>
         LET found == IndicesOf(lines, "collected") IN
         /\ \A i \in IndicesOf(lines, "summary") : lines[i].count = Cardinality(found)
         /\ \A i, j \in found : lines[i].path = lines[j].path => i = j
         /\ found # {} <=> a # Launching!NoPath
         /\ found # {} => \E i \in found : lines[i].path = a

Judged == pc = "answered" => Agreed(Launching!Lines, answer)

LocalInv ==
    /\ Launching!TypeOK /\ InOrder /\ TreesStopped /\ EndedWell /\ LogWhole /\ Judged

LEMMA ClusterStart == Scheduling!Init => ClusterInv
  BY DEF Scheduling!Init, ClusterInv, Scheduling!TypeOK, ClaimsHeld, OwnsRank, OwnsPlace,
      RefusedHasNone, Scheduling!Started, Scheduling!OnlyOwnersFailTheRun,
      Scheduling!NothingLeftRunning

LEMMA ClusterKeep ==
  ASSUME ClusterInv, Scheduling!Next \/ UNCHANGED Scheduling!vars
  PROVE  ClusterInv'
<1>0. /\ Scheduling!TypeOK /\ ClaimsHeld /\ RefusedHasNone
      /\ Scheduling!OnlyOwnersFailTheRun /\ Scheduling!NothingLeftRunning
  BY DEF ClusterInv
<1> USE TasksAssumption DEF Scheduling!ClusterAssumption, Scheduling!NoTask
<1>1. ASSUME NEW t \in Tasks, Scheduling!ClaimRank(t) PROVE ClusterInv'
  <2>1. Scheduling!TypeOK'
    BY <1>0, <1>1, SMTT(30) DEF Scheduling!TypeOK, Scheduling!ClaimRank, Scheduling!Become,
        Scheduling!Claimable, Scheduling!CollisionOutcome
  <2>2. ClaimsHeld'
    BY <1>0, <1>1 DEF Scheduling!TypeOK, ClaimsHeld, OwnsRank, OwnsPlace, Scheduling!Started,
        Scheduling!ClaimRank, Scheduling!Become, Scheduling!Claimable,
        Scheduling!CollisionOutcome
  <2>3. RefusedHasNone'
    BY <1>0, <1>1 DEF Scheduling!TypeOK, RefusedHasNone, Scheduling!Started,
        Scheduling!ClaimRank, Scheduling!Become, Scheduling!Claimable,
        Scheduling!CollisionOutcome
  <2>4. Scheduling!OnlyOwnersFailTheRun'
    BY <1>0, <1>1 DEF Scheduling!TypeOK, ClaimsHeld, OwnsRank, Scheduling!OnlyOwnersFailTheRun,
        Scheduling!ClaimRank, Scheduling!Become, Scheduling!Claimable,
        Scheduling!CollisionOutcome
  <2>5. Scheduling!NothingLeftRunning'
    BY <1>0, <1>1 DEF Scheduling!TypeOK, Scheduling!NothingLeftRunning, Scheduling!ClaimRank,
        Scheduling!Become, Scheduling!Claimable, Scheduling!CollisionOutcome
  <2> QED
    BY <2>1, <2>2, <2>3, <2>4, <2>5 DEF ClusterInv
<1>2. ASSUME NEW t \in Tasks, Scheduling!ClaimPlace(t) PROVE ClusterInv'
  <2>1. Scheduling!TypeOK'
    BY <1>0, <1>2, SMTT(30) DEF Scheduling!TypeOK, Scheduling!ClaimPlace, Scheduling!Become
  <2>2. ClaimsHeld'
    BY <1>0, <1>2 DEF Scheduling!TypeOK, ClaimsHeld, OwnsRank, OwnsPlace, Scheduling!Started,
        Scheduling!ClaimPlace, Scheduling!Become
  <2>3. RefusedHasNone'
    BY <1>0, <1>2 DEF Scheduling!TypeOK, RefusedHasNone, Scheduling!Started,
        Scheduling!ClaimPlace, Scheduling!Become
  <2>4. Scheduling!OnlyOwnersFailTheRun'
    BY <1>0, <1>2 DEF Scheduling!TypeOK, ClaimsHeld, OwnsRank, Scheduling!OnlyOwnersFailTheRun,
        Scheduling!ClaimPlace, Scheduling!Become
  <2>5. Scheduling!NothingLeftRunning'
    BY <1>0, <1>2 DEF Scheduling!TypeOK, Scheduling!NothingLeftRunning, Scheduling!ClaimPlace,
        Scheduling!Become
  <2> QED
    BY <2>1, <2>2, <2>3, <2>4, <2>5 DEF ClusterInv
<1>3. ASSUME NEW t \in Tasks, Scheduling!CheckPeers(t) PROVE ClusterInv'
  <2>1. Scheduling!TypeOK'
    BY <1>0, <1>3 DEF Scheduling!TypeOK, Scheduling!CheckPeers, Scheduling!Become
  <2>2. ClaimsHeld'
    BY <1>0, <1>3 DEF Scheduling!TypeOK, ClaimsHeld, OwnsRank, OwnsPlace, Scheduling!Started,
        Scheduling!CheckPeers, Scheduling!Become
  <2>3. RefusedHasNone'
    BY <1>0, <1>3 DEF Scheduling!TypeOK, RefusedHasNone, Scheduling!Started,
        Scheduling!CheckPeers, Scheduling!Become
  <2>4. Scheduling!OnlyOwnersFailTheRun'
    BY <1>0, <1>3 DEF Scheduling!TypeOK, ClaimsHeld, OwnsRank, Scheduling!OnlyOwnersFailTheRun,
        Scheduling!CheckPeers, Scheduling!Become
  <2>5. Scheduling!NothingLeftRunning'
    BY <1>0, <1>3 DEF Scheduling!TypeOK, Scheduling!NothingLeftRunning, Scheduling!CheckPeers,
        Scheduling!Become
  <2> QED
    BY <2>1, <2>2, <2>3, <2>4, <2>5 DEF ClusterInv
<1>4. ASSUME NEW t \in Tasks, Scheduling!Launch(t) PROVE ClusterInv'
  <2>1. Scheduling!TypeOK'
    <3>1. native' \in [Tasks -> {"none", "running", "zero", "nonzero", "stopped"}]
      BY <1>0, <1>4 DEF Scheduling!TypeOK, Scheduling!Launch
    <3>2. task' \in {[task EXCEPT ![t] = "watch"], [task EXCEPT ![t] = "except"]}
      BY <1>4 DEF Scheduling!Launch, Scheduling!Become
    <3>3. task' \in [Tasks -> {"claim", "place", "check", "launch", "watch", "except",
                              "finally", "returned", "raised", "refused", "crashed"}]
      BY <1>0, <3>2 DEF Scheduling!TypeOK
    <3>4. task'[t] \in {"watch", "except"}
           /\ \A u \in Tasks : u # t => native'[u] = native[u] /\ task'[u] = task[u]
      BY <1>0, <1>4, <3>2 DEF Scheduling!TypeOK, Scheduling!Launch
    <3>5. UNCHANGED <<assigned, rankDir, placeDir, failed, late>>
      BY <1>4 DEF Scheduling!Launch
    <3> QED
      BY <1>0, <3>1, <3>3, <3>4, <3>5 DEF Scheduling!TypeOK
  <2>2. ClaimsHeld'
    BY <1>0, <1>4, SMTT(30) DEF Scheduling!TypeOK, ClaimsHeld, OwnsRank, OwnsPlace, Scheduling!Started,
        Scheduling!Launch, Scheduling!Become
  <2>3. RefusedHasNone'
    BY <1>0, <1>4 DEF Scheduling!TypeOK, RefusedHasNone, Scheduling!Started, Scheduling!Launch,
        Scheduling!Become
  <2>4. Scheduling!OnlyOwnersFailTheRun'
    BY <1>0, <1>4 DEF Scheduling!TypeOK, ClaimsHeld, OwnsRank, Scheduling!OnlyOwnersFailTheRun,
        Scheduling!Launch, Scheduling!Become
  <2>5. Scheduling!NothingLeftRunning'
    BY <1>0, <1>4 DEF Scheduling!TypeOK, Scheduling!NothingLeftRunning, Scheduling!Launch,
        Scheduling!Become
  <2> QED
    BY <2>1, <2>2, <2>3, <2>4, <2>5 DEF ClusterInv
<1>5. ASSUME NEW t \in Tasks, Scheduling!Watch(t) PROVE ClusterInv'
  <2>1. Scheduling!TypeOK'
    BY <1>0, <1>5, SMTT(30) DEF Scheduling!TypeOK, Scheduling!Watch, Scheduling!Become,
        Scheduling!CleanExit, Scheduling!SeesFailure, Scheduling!Overdue
  <2>2. ClaimsHeld'
    BY <1>0, <1>5 DEF Scheduling!TypeOK, ClaimsHeld, OwnsRank, OwnsPlace, Scheduling!Started,
        Scheduling!Watch, Scheduling!Become, Scheduling!CleanExit, Scheduling!SeesFailure,
        Scheduling!Overdue
  <2>3. RefusedHasNone'
    BY <1>0, <1>5 DEF Scheduling!TypeOK, RefusedHasNone, Scheduling!Started, Scheduling!Watch,
        Scheduling!Become, Scheduling!CleanExit, Scheduling!SeesFailure, Scheduling!Overdue
  <2>4. Scheduling!OnlyOwnersFailTheRun'
    BY <1>0, <1>5 DEF Scheduling!TypeOK, ClaimsHeld, OwnsRank, Scheduling!OnlyOwnersFailTheRun,
        Scheduling!Watch, Scheduling!Become, Scheduling!CleanExit, Scheduling!SeesFailure,
        Scheduling!Overdue
  <2>5. Scheduling!NothingLeftRunning'
    BY <1>0, <1>5 DEF Scheduling!TypeOK, Scheduling!NothingLeftRunning, Scheduling!Watch,
        Scheduling!Become, Scheduling!CleanExit, Scheduling!SeesFailure, Scheduling!Overdue
  <2> QED
    BY <2>1, <2>2, <2>3, <2>4, <2>5 DEF ClusterInv
<1>6. ASSUME NEW t \in Tasks, Scheduling!PublishFailure(t) PROVE ClusterInv'
  <2>1. Scheduling!TypeOK'
    BY <1>0, <1>6 DEF Scheduling!TypeOK, Scheduling!PublishFailure, Scheduling!Become
  <2>2. ClaimsHeld'
    BY <1>0, <1>6 DEF Scheduling!TypeOK, ClaimsHeld, OwnsRank, OwnsPlace, Scheduling!Started,
        Scheduling!PublishFailure, Scheduling!Become
  <2>3. RefusedHasNone'
    BY <1>0, <1>6 DEF Scheduling!TypeOK, RefusedHasNone, Scheduling!Started,
        Scheduling!PublishFailure, Scheduling!Become
  <2>4. Scheduling!OnlyOwnersFailTheRun'
    BY <1>0, <1>6 DEF Scheduling!TypeOK, ClaimsHeld, OwnsRank, Scheduling!OnlyOwnersFailTheRun,
        Scheduling!PublishFailure, Scheduling!Become
  <2>5. Scheduling!NothingLeftRunning'
    BY <1>0, <1>6 DEF Scheduling!TypeOK, Scheduling!NothingLeftRunning,
        Scheduling!PublishFailure, Scheduling!Become
  <2> QED
    BY <2>1, <2>2, <2>3, <2>4, <2>5 DEF ClusterInv
<1>7. ASSUME NEW t \in Tasks, Scheduling!Finally(t) PROVE ClusterInv'
  <2>1. Scheduling!TypeOK'
    BY <1>0, <1>7 DEF Scheduling!TypeOK, Scheduling!Finally, Scheduling!Become,
        Scheduling!AfterFinally
  <2>2. ClaimsHeld'
    BY <1>0, <1>7 DEF Scheduling!TypeOK, ClaimsHeld, OwnsRank, OwnsPlace, Scheduling!Started,
        Scheduling!Finally, Scheduling!Become, Scheduling!AfterFinally
  <2>3. RefusedHasNone'
    BY <1>0, <1>7 DEF Scheduling!TypeOK, RefusedHasNone, Scheduling!Started, Scheduling!Finally,
        Scheduling!Become, Scheduling!AfterFinally
  <2>4. Scheduling!OnlyOwnersFailTheRun'
    BY <1>0, <1>7 DEF Scheduling!TypeOK, ClaimsHeld, OwnsRank, Scheduling!OnlyOwnersFailTheRun,
        Scheduling!Finally, Scheduling!Become, Scheduling!AfterFinally
  <2>5. Scheduling!NothingLeftRunning'
    BY <1>0, <1>7 DEF Scheduling!TypeOK, Scheduling!NothingLeftRunning, Scheduling!Finally,
        Scheduling!Become, Scheduling!AfterFinally
  <2> QED
    BY <2>1, <2>2, <2>3, <2>4, <2>5 DEF ClusterInv
<1>8. ASSUME NEW t \in Tasks, Scheduling!NativeExits(t) PROVE ClusterInv'
  <2>1. Scheduling!TypeOK'
    BY <1>0, <1>8 DEF Scheduling!TypeOK, Scheduling!NativeExits
  <2>2. ClaimsHeld'
    BY <1>0, <1>8 DEF Scheduling!TypeOK, ClaimsHeld, OwnsRank, OwnsPlace, Scheduling!Started,
        Scheduling!NativeExits
  <2>3. RefusedHasNone'
    BY <1>0, <1>8 DEF Scheduling!TypeOK, RefusedHasNone, Scheduling!Started,
        Scheduling!NativeExits
  <2>4. Scheduling!OnlyOwnersFailTheRun'
    BY <1>0, <1>8 DEF Scheduling!TypeOK, ClaimsHeld, OwnsRank, Scheduling!OnlyOwnersFailTheRun,
        Scheduling!NativeExits
  <2>5. Scheduling!NothingLeftRunning'
    BY <1>0, <1>8 DEF Scheduling!TypeOK, Scheduling!NothingLeftRunning, Scheduling!NativeExits
  <2> QED
    BY <2>1, <2>2, <2>3, <2>4, <2>5 DEF ClusterInv
<1>9. ASSUME NEW t \in Tasks, Scheduling!Elapse(t) PROVE ClusterInv'
  <2>1. Scheduling!TypeOK'
    BY <1>0, <1>9 DEF Scheduling!TypeOK, Scheduling!Elapse
  <2>2. ClaimsHeld'
    BY <1>0, <1>9 DEF Scheduling!TypeOK, ClaimsHeld, OwnsRank, OwnsPlace, Scheduling!Started,
        Scheduling!Elapse
  <2>3. RefusedHasNone'
    BY <1>0, <1>9 DEF Scheduling!TypeOK, RefusedHasNone, Scheduling!Started, Scheduling!Elapse
  <2>4. Scheduling!OnlyOwnersFailTheRun'
    BY <1>0, <1>9 DEF Scheduling!TypeOK, ClaimsHeld, OwnsRank, Scheduling!OnlyOwnersFailTheRun,
        Scheduling!Elapse
  <2>5. Scheduling!NothingLeftRunning'
    BY <1>0, <1>9 DEF Scheduling!TypeOK, Scheduling!NothingLeftRunning, Scheduling!Elapse
  <2> QED
    BY <2>1, <2>2, <2>3, <2>4, <2>5 DEF ClusterInv
<1>10. ASSUME NEW t \in Tasks, Scheduling!Terminated(t) PROVE ClusterInv'
  <2>1. Scheduling!TypeOK'
    BY <1>0, <1>10 DEF Scheduling!TypeOK, Scheduling!Terminated, Scheduling!Become
  <2>2. ClaimsHeld'
    BY <1>0, <1>10 DEF Scheduling!TypeOK, ClaimsHeld, OwnsRank, OwnsPlace, Scheduling!Started,
        Scheduling!Terminated, Scheduling!Become
  <2>3. RefusedHasNone'
    BY <1>0, <1>10 DEF Scheduling!TypeOK, RefusedHasNone, Scheduling!Started,
        Scheduling!Terminated, Scheduling!Become
  <2>4. Scheduling!OnlyOwnersFailTheRun'
    BY <1>0, <1>10 DEF Scheduling!TypeOK, ClaimsHeld, OwnsRank, Scheduling!OnlyOwnersFailTheRun,
        Scheduling!Terminated, Scheduling!Become
  <2>5. Scheduling!NothingLeftRunning'
    BY <1>0, <1>10 DEF Scheduling!TypeOK, Scheduling!NothingLeftRunning, Scheduling!Terminated,
        Scheduling!Become
  <2> QED
    BY <2>1, <2>2, <2>3, <2>4, <2>5 DEF ClusterInv
<1>11. ASSUME NEW t \in Tasks, Scheduling!Crash(t) PROVE ClusterInv'
  <2>1. Scheduling!TypeOK'
    BY <1>0, <1>11 DEF Scheduling!TypeOK, Scheduling!Crash, Scheduling!Become
  <2>2. ClaimsHeld'
    BY <1>0, <1>11 DEF Scheduling!TypeOK, ClaimsHeld, OwnsRank, OwnsPlace, Scheduling!Started,
        Scheduling!Crash, Scheduling!Become
  <2>3. RefusedHasNone'
    BY <1>0, <1>11 DEF Scheduling!TypeOK, RefusedHasNone, Scheduling!Started, Scheduling!Crash,
        Scheduling!Become
  <2>4. Scheduling!OnlyOwnersFailTheRun'
    BY <1>0, <1>11 DEF Scheduling!TypeOK, ClaimsHeld, OwnsRank, Scheduling!OnlyOwnersFailTheRun,
        Scheduling!Crash, Scheduling!Become
  <2>5. Scheduling!NothingLeftRunning'
    BY <1>0, <1>11 DEF Scheduling!TypeOK, Scheduling!NothingLeftRunning, Scheduling!Crash,
        Scheduling!Become
  <2> QED
    BY <2>1, <2>2, <2>3, <2>4, <2>5 DEF ClusterInv
<1>12. CASE UNCHANGED Scheduling!vars
  BY <1>0, <1>12 DEF Scheduling!vars, ClusterInv, Scheduling!TypeOK, ClaimsHeld, OwnsRank, OwnsPlace,
      RefusedHasNone, Scheduling!Started, Scheduling!OnlyOwnersFailTheRun,
      Scheduling!NothingLeftRunning
<1> QED
  BY <1>1, <1>2, <1>3, <1>4, <1>5, <1>6, <1>7, <1>8, <1>9, <1>10, <1>11, <1>12 DEF Scheduling!Next, Scheduling!Step

\* Whatever a scheduler hands out twice, the native processes of an attempt have
\* distinct ranks and places, a refused duplicate does not fail the rightful
\* rank, and no task that ends by itself leaves its process (cluster.py:137-201).
THEOREM OwnersOnly == Spec => []OnlyOwners
<1> DEFINE Here == part \in ClusterParts => ClusterInv
<1>1. Init => Here
  BY ClusterStart DEF Init, ClusterParts
<1>2. Here /\ [Next]_allVars => Here'
  <2> SUFFICES ASSUME Here, [Next]_allVars, part' \in ClusterParts PROVE ClusterInv'
    BY DEF ClusterParts
  <2>1. ASSUME ClusterStep PROVE ClusterInv'
    BY <2>1, ClusterKeep DEF ClusterStep
  <2>2. ASSUME LaunchStep PROVE FALSE
    BY <2>2 DEF LaunchStep, ClusterParts
  <2>3. CASE UNCHANGED allVars
    <3>1. UNCHANGED Scheduling!vars /\ part \in ClusterParts
      BY <2>3 DEF allVars, clusterVars, Scheduling!vars
    <3> QED
      BY <3>1, ClusterKeep
  <2> QED
    BY <2>1, <2>2, <2>3 DEF Next
<1>3. Here => OnlyOwners
  <2> SUFFICES ASSUME ClusterInv PROVE OnlyOwners
    BY DEF OnlyOwners
  <2>1. Scheduling!DistinctNatives
    BY DEF ClusterInv, ClaimsHeld, OwnsRank, OwnsPlace, Scheduling!DistinctNatives
  <2> QED
    BY <2>1 DEF ClusterInv, OnlyOwners
<1> QED
  BY <1>1, <1>2, <1>3, PTL DEF Spec

-----------------------------------------------------------------------------
(* Ranks of one machine.                                                    *)

LEMMA LaunchFacts ==
  ASSUME Launching!TypeOK
  PROVE  /\ Launching!World \in Nat \ {0}
         /\ Launching!Ranks = 0..Launching!World - 1
         /\ Launching!Deaf \cup Launching!Stuck \cup Launching!Forking \subseteq Launching!Ranks
         /\ Launching!Cohort <=> Launching!World > 1
         /\ Launching!World = 1 => Launching!Forking = {}
         /\ \A r \in Launching!Ranks : Launching!Plan(r) \in Seq(Launching!Line)
         /\ Solving \subseteq Paths /\ Launching!NoPath \notin Paths
  BY LocalAssumption
     DEF Launching!TypeOK, Launching!RanksAssumption, Launching!World, Launching!Ranks,
         Launching!Deaf, Launching!Stuck, Launching!Forking, Launching!Cohort, Launching!Plan

\* What is fixed by the launch.
LEMMA SameLaunch ==
  ASSUME UNCHANGED launch
  PROVE  /\ UNCHANGED Launching!World /\ UNCHANGED Launching!Ranks /\ UNCHANGED Launching!Deaf
         /\ UNCHANGED Launching!Stuck /\ UNCHANGED Launching!Forking
         /\ Launching!Cohort' <=> Launching!Cohort
         /\ \A r : Launching!Plan(r)' = Launching!Plan(r)
  BY DEF Launching!World, Launching!Ranks, Launching!Deaf, Launching!Stuck, Launching!Forking,
      Launching!Cohort, Launching!Plan

LEMMA StartedStays ==
  ASSUME UNCHANGED launch, StartedFirst,
         \A r \in Launching!Ranks : Launching!Started(r)' <=> Launching!Started(r)
  PROVE  StartedFirst'
<1>1. UNCHANGED Launching!World /\ UNCHANGED Launching!Ranks
  BY SameLaunch
<1>2. PICK n \in 0..Launching!World : \A r \in Launching!Ranks : Launching!Started(r) <=> r < n
  BY DEF StartedFirst
<1>3. \A r \in Launching!Ranks' : Launching!Started(r)' <=> r < n
  BY <1>1, <1>2
<1> QED
  BY <1>1, <1>2, <1>3 DEF StartedFirst

LEMMA NothingGathered == ASSUME NEW out PROVE Whole(<<>>, out, 0)
<1>1. Len(<<>>) = 0 /\ 0..0 - 1 = {} /\ 1..0 = {}
  OBVIOUS
<1>2. PICK end : end = [n \in 0..0 |-> 0]
  OBVIOUS
<1>3. end \in [0..0 -> 0..0] /\ end[0] = 0
  BY <1>2
<1>4. \E f \in [0..0 -> 0..0] :
         /\ f[0] = 0 /\ f[0] = 0
         /\ \A r \in 0..0 - 1 :
              /\ f[r + 1] = f[r] + Len(out[r])
              /\ \A i \in 1..Len(out[r]) : <<>>[f[r] + i] = out[r][i]
  BY <1>1, <1>3
<1> QED
  BY <1>1, <1>4 DEF Whole, InTurn, Everything, NothingElse

\* The log grows by what the next rank wrote.
LEMMA OneMoreGathered ==
  ASSUME NEW S, NEW n \in Nat, NEW log \in Seq(S), NEW out, out[n] \in Seq(S), Whole(log, out, n)
  PROVE  Whole(log \o out[n], out, n + 1)
<1> DEFINE longer == log \o out[n]
<1>1. /\ Len(longer) = Len(log) + Len(out[n]) /\ Len(log) \in Nat /\ Len(out[n]) \in Nat
      /\ \A j \in 1..Len(log) : longer[j] = log[j]
      /\ \A i \in 1..Len(out[n]) : longer[Len(log) + i] = out[n][i]
  OBVIOUS
<1> HIDE DEF longer
<1>0. /\ \A r \in 0..n - 1 : \A i \in 1..Len(out[r]) : \E j \in 1..Len(log) : log[j] = out[r][i]
      /\ \A j \in 1..Len(log) : \E r \in 0..n - 1 : \E i \in 1..Len(out[r]) : log[j] = out[r][i]
  BY DEF Whole, Everything, NothingElse
<1>2. PICK end \in [0..n -> 0..Len(log)] :
         /\ end[0] = 0 /\ end[n] = Len(log)
         /\ \A r \in 0..n - 1 :
              /\ end[r + 1] = end[r] + Len(out[r])
              /\ \A i \in 1..Len(out[r]) : log[end[r] + i] = out[r][i]
  BY DEF Whole, InTurn
<1> DEFINE further == [r \in 0..n + 1 |-> IF r <= n THEN end[r] ELSE Len(longer)]
<1>3. further \in [0..n + 1 -> 0..Len(longer)] /\ further[0] = 0 /\ further[n + 1] = Len(longer)
  BY <1>1, <1>2
<1>4. ASSUME NEW r \in 0..(n + 1) - 1
      PROVE  /\ further[r + 1] = further[r] + Len(out[r])
             /\ \A i \in 1..Len(out[r]) : longer[further[r] + i] = out[r][i]
  <2>1. CASE r = n
    <3>1. further[n + 1] = Len(longer) /\ further[n] = Len(log)
      BY <1>2, <1>3
    <3> QED
      BY <1>1, <2>1, <3>1
  <2>2. CASE r # n
    <3>1. r \in 0..n - 1 /\ r + 1 \in 0..n /\ r \in 0..n
      BY <2>2
    <3>2. further[r + 1] = end[r + 1] /\ further[r] = end[r]
      BY <3>1
    <3>3. end[r] \in Nat /\ end[r + 1] \in 0..Len(log) /\ end[r + 1] = end[r] + Len(out[r])
      BY <1>1, <1>2, <3>1
    <3>4. ASSUME NEW i \in 1..Len(out[r]) PROVE longer[end[r] + i] = out[r][i]
      <4>1. end[r] + i \in 1..Len(log)
        BY <1>1, <3>3, SMTT(30)
      <4> QED
        BY <1>1, <1>2, <3>1, <4>1
    <3> QED
      BY <3>2, <3>3, <3>4
  <2> QED
    BY <2>1, <2>2
<1>5. \A r \in 0..(n + 1) - 1 : \A i \in 1..Len(out[r]) :
         \E j \in 1..Len(longer) : longer[j] = out[r][i]
  <2> SUFFICES ASSUME NEW r \in 0..(n + 1) - 1, NEW i \in 1..Len(out[r])
               PROVE  \E j \in 1..Len(longer) : longer[j] = out[r][i]
    OBVIOUS
  <2>1. CASE r = n
    <3>1. Len(log) + i \in 1..Len(longer)
      BY <1>1, <2>1
    <3> QED
      BY <1>1, <2>1, <3>1
  <2>2. CASE r # n
    <3>1. PICK j \in 1..Len(log) : log[j] = out[r][i]
      BY <1>0, <2>2
    <3> QED
      BY <1>1, <3>1
  <2> QED
    BY <2>1, <2>2
<1>6. \A j \in 1..Len(longer) :
         \E r \in 0..(n + 1) - 1 : \E i \in 1..Len(out[r]) : longer[j] = out[r][i]
  <2> SUFFICES ASSUME NEW j \in 1..Len(longer)
               PROVE  \E r \in 0..(n + 1) - 1 : \E i \in 1..Len(out[r]) : longer[j] = out[r][i]
    OBVIOUS
  <2>1. CASE j <= Len(log)
    <3>0. j \in 1..Len(log)
      BY <1>1, <2>1
    <3>1. PICK r \in 0..n - 1 : \E i \in 1..Len(out[r]) : log[j] = out[r][i]
      BY <1>0, <3>0, Zenon
    <3>2. r \in 0..(n + 1) - 1 /\ longer[j] = log[j]
      BY <1>1, <3>0
    <3> QED
      BY <3>1, <3>2
  <2>2. CASE j > Len(log)
    <3>1. PICK i : i = j - Len(log)
      OBVIOUS
    <3>2. i \in 1..Len(out[n]) /\ j = Len(log) + i /\ n \in 0..(n + 1) - 1
      BY <1>1, <2>2, <3>1
    <3>3. longer[j] = out[n][i]
      BY <1>1, <3>2
    <3> QED
      BY <3>2, <3>3
  <2> QED
    BY <1>1, <2>1, <2>2
<1> HIDE DEF further
<1>7. InTurn(longer, out, n + 1)
  <2>1. \E f \in [0..n + 1 -> 0..Len(longer)] :
           /\ f[0] = 0 /\ f[n + 1] = Len(longer)
           /\ \A r \in 0..(n + 1) - 1 :
                /\ f[r + 1] = f[r] + Len(out[r])
                /\ \A i \in 1..Len(out[r]) : longer[f[r] + i] = out[r][i]
    BY <1>3, <1>4
  <2> QED
    BY <2>1 DEF InTurn
<1>8. Whole(longer, out, n + 1)
  BY <1>5, <1>6, <1>7 DEF Whole, Everything, NothingElse
<1> QED
  BY <1>8 DEF longer

\* The trees are visited in order, to the last rank that was started.
LEMMA NextTreeMoves ==
  ASSUME Launching!TypeOK, InOrder, at \in Launching!Ranks, Launching!Started(at),
         Launching!NextTree
  PROVE  \/ /\ pc' = "term" /\ at' = at + 1 /\ at + 1 \in Launching!Ranks
            /\ Launching!Started(at + 1)
         \/ /\ Launching!Leave
            /\ \A r \in Launching!Ranks : Launching!Started(r) => r <= at
<1>1. PICK n \in 0..Launching!World : \A r \in Launching!Ranks : Launching!Started(r) <=> r < n
  BY DEF InOrder, StartedFirst
<1>2. Launching!World \in Nat \ {0} /\ Launching!Ranks = 0..Launching!World - 1
  BY LaunchFacts
<1>3. n - 1 \in Launching!Ranks /\ Launching!Started(n - 1) /\ n \in Nat /\ at < n
  BY <1>1, <1>2
<1>4. Launching!LastStarted = n - 1
  BY <1>1, <1>2, <1>3 DEF Launching!LastStarted
<1>5. CASE at < n - 1
  BY <1>1, <1>2, <1>3, <1>4, <1>5 DEF Launching!NextTree, Launching!StopFrom
<1>6. CASE ~(at < n - 1)
  BY <1>1, <1>2, <1>3, <1>4, <1>6 DEF Launching!NextTree
<1> QED
  BY <1>5, <1>6

LEMMA LocalStart == Launching!Init => LocalInv
<1> SUFFICES ASSUME Launching!Init PROVE LocalInv
  OBVIOUS
<1>1. Launching!World \in Nat \ {0} /\ Launching!Ranks = 0..Launching!World - 1
  BY LocalAssumption
     DEF Launching!Init, Launching!RanksAssumption, Launching!World, Launching!Ranks
<1>2. \A r \in Launching!Ranks : Launching!Plan(r) \in Seq(Launching!Line)
  BY LocalAssumption DEF Launching!Init, Launching!RanksAssumption, Launching!World,
      Launching!Ranks, Launching!Plan
<1>3. stream \in [Launching!Ranks -> Seq(Launching!Line)] /\ merged \in Seq(Launching!Line)
  BY DEF Launching!Init
<1>4. \A r \in Launching!Ranks : stream[r] = <<>> /\ Len(stream[r]) = 0 /\ Len(Launching!Plan(r)) \in Nat
  BY <1>2 DEF Launching!Init
<1>5. Launching!TypeOK
  <2>1. at \in 0..Launching!World
    BY <1>1 DEF Launching!Init
  <2>2. /\ leader \in [Launching!Ranks -> {"none", "running", "zero", "nonzero"}]
        /\ child \in [Launching!Ranks -> BOOLEAN]
        /\ \A r \in Launching!Ranks : leader[r] = "none"
    BY DEF Launching!Init
  <2>3. \A r \in Launching!Ranks :
           /\ Len(stream[r]) <= Len(Launching!Plan(r))
           /\ \A i \in 1..Len(stream[r]) : stream[r][i] = Launching!Plan(r)[i]
    BY <1>4
  <2>4. launch \in Launches /\ pc = "spawn" /\ failure = FALSE /\ overdue = FALSE
         /\ issues = FALSE /\ answer = Launching!NoPath
    BY DEF Launching!Init
  <2> QED
    BY <1>3, <2>1, <2>2, <2>3, <2>4 DEF Launching!TypeOK
<1>6. InOrder
  <2>1. StartedFirst
    BY <1>1 DEF Launching!Init, StartedFirst, Launching!Started
  <2> QED
    BY <1>1, <2>1 DEF Launching!Init, InOrder, Launching!Started, Stopping
<1>7. TreesStopped /\ EndedWell /\ LogWhole /\ Judged
  BY DEF Launching!Init, TreesStopped, EndedWell, LogWhole, Judged, Stopping, Past
<1> QED
  BY <1>5, <1>6, <1>7 DEF LocalInv

LEMMA SameCardinality == \A S : Launching!Cardinality(S) = Cardinality(S)
  BY Zenon DEF Launching!Cardinality, Cardinality

\* An accepted log is agreed on, and its answer is a path of it.
LEMMA AcceptedIsAgreed ==
  ASSUME Launching!Lines \in Seq(Launching!Line), Launching!Accepted, Launching!WidthRequested
  PROVE  /\ Agreed(Launching!Lines, Launching!Result)
         /\ Launching!Result \in Paths \cup {Launching!NoPath}
<1>1. \A k : Launching!At(k) = IndicesOf(Launching!Lines, k)
  BY DEF Launching!At, IndicesOf
<1>2. /\ Launching!At("terminal") # {}
      /\ \A i \in Launching!At("terminal") : Launching!Lines[i].path = Launching!Result
  BY DEF Launching!Accepted, Launching!Unanimous, Launching!PathsOf
<1>3. Launching!Result # Launching!NoPath => Launching!Result \in Solving
  BY <1>2 DEF Launching!Accepted, Launching!GoodTerminals, Launching!PathsOf, Launching!Replays
<1>4. \A i \in Launching!At("collected") : Launching!Lines[i].path \in Solving
  BY DEF Launching!Accepted, Launching!GoodCollected, Launching!PathsOf, Launching!Replays
<1>5. \A i \in Launching!At("width") : Launching!Lines[i].width = "requested"
  BY DEF Launching!WidthRequested
<1>6. Launching!At("summary") # {} =>
         /\ \A i \in Launching!At("summary") :
              Launching!Lines[i].count = Cardinality(Launching!At("collected"))
         /\ \A i, j \in Launching!At("collected") :
              Launching!Lines[i].path = Launching!Lines[j].path => i = j
         /\ Launching!At("collected") # {} <=> Launching!Result # Launching!NoPath
         /\ Launching!At("collected") # {} =>
              \E i \in Launching!At("collected") : Launching!Lines[i].path = Launching!Result
  <2>1. Launching!At("summary") # {} => Launching!Result \in Launching!PathsOf("collected")
                                      \/ Launching!At("collected") = {}
    BY DEF Launching!Accepted, Launching!Bucket
  <2>2. Launching!Result \in Launching!PathsOf("collected") =>
           \E i \in Launching!At("collected") : Launching!Lines[i].path = Launching!Result
    BY DEF Launching!PathsOf
  <2>3. ASSUME Launching!At("summary") # {}
        PROVE  /\ \A i \in Launching!At("summary") :
                     Launching!Lines[i].count = Cardinality(Launching!At("collected"))
               /\ \A i, j \in Launching!At("collected") :
                     Launching!Lines[i].path = Launching!Lines[j].path => i = j
    <3>1. Launching!Bucket
      BY DEF Launching!Accepted
    <3>2. \A i \in Launching!At("summary") :
             Launching!Lines[i].count = Cardinality(Launching!At("collected"))
      BY <2>3, <3>1, SameCardinality DEF Launching!Bucket
    <3>3. \A i, j \in Launching!At("collected") :
             Launching!Lines[i].path = Launching!Lines[j].path => i = j
      BY <2>3, <3>1, Zenon DEF Launching!Bucket
    <3> QED
      BY <3>2, <3>3
  <2>4. Launching!At("summary") # {} =>
           (Launching!At("collected") # {} <=> Launching!Result # Launching!NoPath)
    BY Zenon DEF Launching!Accepted, Launching!Bucket
  <2> QED
    BY <2>1, <2>2, <2>3, <2>4
<1>7. Agreed(Launching!Lines, Launching!Result)
  BY <1>1, <1>2, <1>3, <1>4, <1>5, <1>6 DEF Agreed
<1>8. Launching!Result \in Paths \cup {Launching!NoPath}
  BY <1>3, LocalAssumption DEF Launching!RanksAssumption
<1> QED
  BY <1>7, <1>8

LEMMA LocalKeep ==
  ASSUME LocalInv, Launching!Next \/ UNCHANGED Launching!vars
  PROVE  LocalInv'
<1>0. Launching!TypeOK /\ InOrder /\ TreesStopped /\ EndedWell /\ LogWhole /\ Judged
  BY DEF LocalInv
<1>a. /\ Launching!World \in Nat \ {0}
      /\ Launching!Ranks = 0..Launching!World - 1
      /\ Launching!Deaf \cup Launching!Stuck \cup Launching!Forking \subseteq Launching!Ranks
      /\ Launching!Cohort <=> Launching!World > 1
      /\ Launching!World = 1 => Launching!Forking = {}
  BY <1>0, LaunchFacts
<1> USE DEF Stopping, Past
<1>1. ASSUME NEW r \in Launching!Ranks, Launching!WriteLine(r) PROVE LocalInv'
  <2>0. /\ UNCHANGED launch /\ UNCHANGED Launching!World /\ UNCHANGED Launching!Ranks
        /\ UNCHANGED Launching!Stuck /\ UNCHANGED Launching!Forking
        /\ Launching!Cohort' <=> Launching!Cohort
        /\ \A q : Launching!Plan(q)' = Launching!Plan(q)
    <3>1. UNCHANGED launch
      BY <1>1 DEF Launching!WriteLine
    <3> QED
      BY <3>1, SameLaunch
  <2>1. Launching!TypeOK'
    <3>1. /\ stream' = [stream EXCEPT ![r] = Append(stream[r], Launching!Plan(r)[Len(stream[r]) + 1])]
          /\ Len(stream[r]) < Len(Launching!Plan(r))
      BY <1>1 DEF Launching!WriteLine
    <3>2. stream \in [Launching!Ranks -> Seq(Launching!Line)]
           /\ stream[r] \in Seq(Launching!Line) /\ Launching!Plan(r) \in Seq(Launching!Line)
      BY <1>0, LaunchFacts DEF Launching!TypeOK
    <3>3. Len(stream[r]) + 1 \in 1..Len(Launching!Plan(r))
      BY <3>1, <3>2
    <3>4. Launching!Plan(r)[Len(stream[r]) + 1] \in Launching!Line
      BY <3>2, <3>3
    <3>5. Append(stream[r], Launching!Plan(r)[Len(stream[r]) + 1]) \in Seq(Launching!Line)
      BY <3>2, <3>4
    <3>6. stream' \in [Launching!Ranks -> Seq(Launching!Line)]
      BY <3>1, <3>2, <3>5
    <3>7. /\ Len(stream'[r]) <= Len(Launching!Plan(r))
          /\ \A i \in 1..Len(stream'[r]) : stream'[r][i] = Launching!Plan(r)[i]
      <4>1. stream'[r] = Append(stream[r], Launching!Plan(r)[Len(stream[r]) + 1])
        BY <3>1, <3>2
      <4>2. /\ Len(stream'[r]) = Len(stream[r]) + 1
            /\ \A i \in 1..Len(stream[r]) : stream'[r][i] = stream[r][i]
            /\ stream'[r][Len(stream[r]) + 1] = Launching!Plan(r)[Len(stream[r]) + 1]
        BY <3>2, <3>4, <4>1
      <4>3. \A i \in 1..Len(stream[r]) : stream[r][i] = Launching!Plan(r)[i]
        BY <1>0 DEF Launching!TypeOK
      <4>4. Len(stream[r]) \in Nat /\ Len(Launching!Plan(r)) \in Nat
        BY <3>2
      <4> QED
        BY <3>1, <4>2, <4>3, <4>4
    <3>8. \A q \in Launching!Ranks : q # r => stream'[q] = stream[q]
      BY <3>1, <3>2
    <3>9. \A q \in Launching!Ranks :
             /\ Len(stream'[q]) <= Len(Launching!Plan(q))
             /\ \A i \in 1..Len(stream'[q]) : stream'[q][i] = Launching!Plan(q)[i]
      BY <1>0, <3>7, <3>8 DEF Launching!TypeOK
    <3> QED
      BY <1>0, <1>1, <2>0, <3>6, <3>9 DEF Launching!TypeOK, Launching!WriteLine
  <2>2. InOrder'
    <3>1. \A q \in Launching!Ranks : Launching!Started(q)' <=> Launching!Started(q)
      BY <1>0, <1>1 DEF Launching!WriteLine, Launching!TypeOK, Launching!Started
    <3>2. StartedFirst'
      BY <1>0, <2>0, <3>1, StartedStays DEF InOrder
    <3> QED
      BY <1>0, <1>a, <1>1, <2>0, <3>1, <3>2 DEF InOrder, Launching!TypeOK, Launching!WriteLine
  <2>3. TreesStopped'
    BY <1>0, <1>a, <1>1, <2>0
       DEF TreesStopped, Launching!AliveIn, Launching!Started, Launching!WriteLine,
           Launching!TypeOK
  <2>4. EndedWell'
    BY <1>0, <1>a, <1>1, <2>0
       DEF EndedWell, Launching!AllZero, Launching!WriteLine, Launching!TypeOK, TreesStopped,
           Launching!AliveIn
  <2>5. LogWhole'
    BY <1>0, <1>a, <1>1, <2>0
       DEF LogWhole, Launching!WriteLine, Launching!TypeOK, TreesStopped, EndedWell,
           Launching!AliveIn
  <2>6. Judged'
    BY <1>0, <1>a, <1>1, <2>0
       DEF Judged, Launching!WriteLine, Launching!TypeOK, TreesStopped, EndedWell,
           Launching!AliveIn, Launching!Lines
  <2> QED
    BY <2>1, <2>2, <2>3, <2>4, <2>5, <2>6 DEF LocalInv
<1>2. ASSUME NEW r \in Launching!Ranks, Launching!ExitLeader(r) PROVE LocalInv'
  <2>0. /\ UNCHANGED launch /\ UNCHANGED Launching!World /\ UNCHANGED Launching!Ranks
        /\ UNCHANGED Launching!Stuck /\ UNCHANGED Launching!Forking
        /\ Launching!Cohort' <=> Launching!Cohort
        /\ \A q : Launching!Plan(q)' = Launching!Plan(q)
    <3>1. UNCHANGED launch
      BY <1>2 DEF Launching!ExitLeader
    <3> QED
      BY <3>1, SameLaunch
  <2>1. Launching!TypeOK'
    <3>1. PICK code \in {"zero", "nonzero"} : leader' = [leader EXCEPT ![r] = code]
      BY <1>2 DEF Launching!ExitLeader
    <3>2. leader' \in [Launching!Ranks -> {"none", "running", "zero", "nonzero"}]
      BY <1>0, <3>1 DEF Launching!TypeOK
    <3>3. \A q \in Launching!Ranks : leader'[q] = "none" <=> leader[q] = "none"
      BY <1>0, <1>2, <3>1 DEF Launching!TypeOK, Launching!ExitLeader
    <3>4. UNCHANGED <<pc, at, child, stream, failure, overdue, merged, issues, answer>>
      BY <1>2 DEF Launching!ExitLeader
    <3> QED
      BY <1>0, <2>0, <3>2, <3>3, <3>4 DEF Launching!TypeOK
  <2>2. InOrder'
    <3>1. \A q \in Launching!Ranks : Launching!Started(q)' <=> Launching!Started(q)
      BY <1>0, <1>2 DEF Launching!ExitLeader, Launching!TypeOK, Launching!Started
    <3>2. StartedFirst'
      BY <1>0, <2>0, <3>1, StartedStays DEF InOrder
    <3> QED
      BY <1>0, <1>a, <1>2, <2>0, <3>1, <3>2 DEF InOrder, Launching!TypeOK, Launching!ExitLeader
  <2>3. TreesStopped'
    BY <1>0, <1>a, <1>2, <2>0, SMTT(30)
       DEF TreesStopped, Launching!AliveIn, Launching!Started, Launching!ExitLeader,
           Launching!TypeOK
  <2>4. EndedWell'
    BY <1>0, <1>a, <1>2, <2>0
       DEF EndedWell, Launching!AllZero, Launching!ExitLeader, Launching!TypeOK, TreesStopped,
           Launching!AliveIn
  <2>5. LogWhole'
    BY <1>0, <1>a, <1>2, <2>0
       DEF LogWhole, Launching!ExitLeader, Launching!TypeOK, TreesStopped, EndedWell,
           Launching!AliveIn
  <2>6. Judged'
    BY <1>0, <1>a, <1>2, <2>0
       DEF Judged, Launching!ExitLeader, Launching!TypeOK, TreesStopped, EndedWell,
           Launching!AliveIn, Launching!Lines
  <2> QED
    BY <2>1, <2>2, <2>3, <2>4, <2>5, <2>6 DEF LocalInv
<1>3. ASSUME NEW r \in Launching!Ranks, Launching!ExitChild(r) PROVE LocalInv'
  <2>0. /\ UNCHANGED launch /\ UNCHANGED Launching!World /\ UNCHANGED Launching!Ranks
        /\ UNCHANGED Launching!Stuck /\ UNCHANGED Launching!Forking
        /\ Launching!Cohort' <=> Launching!Cohort
        /\ \A q : Launching!Plan(q)' = Launching!Plan(q)
    <3>1. UNCHANGED launch
      BY <1>3 DEF Launching!ExitChild
    <3> QED
      BY <3>1, SameLaunch
  <2>1. Launching!TypeOK'
    BY <1>0, <1>a, <1>3, <2>0
       DEF Launching!TypeOK, Launching!ExitChild
  <2>2. InOrder'
    <3>1. \A q \in Launching!Ranks : Launching!Started(q)' <=> Launching!Started(q)
      BY <1>0, <1>3 DEF Launching!ExitChild, Launching!TypeOK, Launching!Started
    <3>2. StartedFirst'
      BY <1>0, <2>0, <3>1, StartedStays DEF InOrder
    <3> QED
      BY <1>0, <1>a, <1>3, <2>0, <3>1, <3>2 DEF InOrder, Launching!TypeOK, Launching!ExitChild
  <2>3. TreesStopped'
    BY <1>0, <1>a, <1>3, <2>0
       DEF TreesStopped, Launching!AliveIn, Launching!Started, Launching!ExitChild,
           Launching!TypeOK
  <2>4. EndedWell'
    BY <1>0, <1>a, <1>3, <2>0
       DEF EndedWell, Launching!AllZero, Launching!ExitChild, Launching!TypeOK
  <2>5. LogWhole'
    BY <1>0, <1>a, <1>3, <2>0
       DEF LogWhole, Launching!ExitChild, Launching!TypeOK
  <2>6. Judged'
    BY <1>0, <1>a, <1>3, <2>0
       DEF Judged, Launching!ExitChild, Launching!TypeOK, Launching!Lines
  <2> QED
    BY <2>1, <2>2, <2>3, <2>4, <2>5, <2>6 DEF LocalInv
<1>4. ASSUME Launching!Spawn PROVE LocalInv'
  <2>0. /\ UNCHANGED launch /\ UNCHANGED Launching!World /\ UNCHANGED Launching!Ranks
        /\ UNCHANGED Launching!Stuck /\ UNCHANGED Launching!Forking
        /\ Launching!Cohort' <=> Launching!Cohort
        /\ \A q : Launching!Plan(q)' = Launching!Plan(q)
    <3>1. UNCHANGED launch
      BY <1>4 DEF Launching!Spawn
    <3> QED
      BY <3>1, SameLaunch
  <2>1. /\ pc = "spawn" /\ at \in Launching!Ranks /\ merged = <<>> /\ ~failure
        /\ \A r \in Launching!Ranks : Launching!Started(r) <=> r < at
        /\ \A r \in Launching!Ranks : Launching!AliveIn(r) => Launching!Started(r)
        /\ UNCHANGED <<stream, overdue, merged, issues, answer>>
    BY <1>0, <1>a, <1>4 DEF Launching!Spawn, Launching!TypeOK, InOrder, TreesStopped, EndedWell,
        LogWhole, Launching!Started, Launching!AliveIn
  <2>2. ASSUME leader' = [leader EXCEPT ![at] = "running"],
               child' = [child EXCEPT ![at] = at \in Launching!Forking],
               IF at + 1 = Launching!World THEN pc' = "watch" /\ at' = 0
               ELSE pc' = "spawn" /\ at' = at + 1,
               UNCHANGED failure
        PROVE  LocalInv'
    <3>1. /\ leader' \in [Launching!Ranks -> {"none", "running", "zero", "nonzero"}]
          /\ child' \in [Launching!Ranks -> BOOLEAN]
      BY <1>0, <2>1, <2>2 DEF Launching!TypeOK
    <3>2. /\ leader'[at] = "running" /\ child'[at] = (at \in Launching!Forking)
          /\ \A r \in Launching!Ranks : r # at => leader'[r] = leader[r] /\ child'[r] = child[r]
      BY <1>0, <2>1, <2>2 DEF Launching!TypeOK
    <3>3. \A r \in Launching!Ranks : Launching!Started(r)' <=> r < at + 1
      BY <1>a, <2>1, <3>2 DEF Launching!Started
    <3>4. \/ pc' = "watch" /\ at' = 0 /\ at + 1 = Launching!World
          \/ pc' = "spawn" /\ at' = at + 1 /\ at + 1 \in Launching!Ranks
      BY <1>a, <2>1, <2>2
    <3>5. Launching!TypeOK'
      <4>1. at' \in 0..Launching!World /\ pc' \in {"watch", "spawn"}
        BY <1>a, <2>1, <3>4
      <4>2. \A r \in Launching!Ranks : pc' = "spawn" /\ r >= at' => leader'[r] = "none"
        BY <1>a, <2>1, <3>3, <3>4 DEF Launching!Started
      <4> QED
        BY <1>0, <2>0, <2>1, <2>2, <3>1, <4>1, <4>2 DEF Launching!TypeOK
    <3>6. InOrder'
      <4>1. at + 1 \in 0..Launching!World
        BY <1>a, <2>1
      <4>2. StartedFirst'
        BY <2>0, <3>3, <4>1 DEF StartedFirst
      <4> QED
        BY <1>a, <2>0, <3>3, <3>4, <4>2 DEF InOrder
    <3>7. TreesStopped'
      BY <1>0, <1>a, <2>0, <2>1, <3>2, <3>3, <3>4 DEF TreesStopped, Launching!Started
    <3>8. EndedWell' /\ LogWhole' /\ Judged'
      BY <2>1, <2>2, <3>4 DEF EndedWell, LogWhole, Judged
    <3> QED
      BY <3>5, <3>6, <3>7, <3>8 DEF LocalInv
  <2>3. ASSUME failure' = TRUE, Launching!StopSpawned, UNCHANGED <<leader, child>>
        PROVE  LocalInv'
    <3>1. \/ at = 0 /\ at' = 0 /\ pc' \in {"gather", "raised"} /\ (pc' = "gather" => Launching!Cohort)
          \/ at # 0 /\ at' = 0 /\ pc' = "term"
      BY <2>3 DEF Launching!StopSpawned, Launching!StopFrom, Launching!Leave
    <3>2. 0 \in Launching!Ranks /\ \A r \in Launching!Ranks : ~(r < 0)
      BY <1>a
    <3>3. \A r \in Launching!Ranks : /\ Launching!Started(r)' <=> Launching!Started(r)
                                     /\ Launching!AliveIn(r)' <=> Launching!AliveIn(r)
      BY <2>3 DEF Launching!Started, Launching!AliveIn
    <3>4. Launching!TypeOK'
      BY <1>0, <1>a, <2>0, <2>1, <2>3, <3>1 DEF Launching!TypeOK
    <3>5. InOrder'
      <4>1. StartedFirst'
        BY <1>0, <2>0, <3>3, StartedStays DEF InOrder
      <4>2. at # 0 => Launching!Started(0)
        BY <1>a, <2>1, <3>2
      <4> QED
        BY <2>0, <3>1, <3>2, <3>3, <4>1, <4>2 DEF InOrder
    <3>6. TreesStopped'
      <4>1. at = 0 => \A r \in Launching!Ranks : ~Launching!AliveIn(r)
        BY <2>1, <3>2
      <4>2. UNCHANGED child
        BY <2>3
      <4> QED
        BY <1>0, <2>0, <3>1, <3>2, <3>3, <4>1, <4>2 DEF TreesStopped
    <3>7. EndedWell' /\ LogWhole' /\ Judged'
      BY <2>0, <2>1, <2>3, <3>1 DEF EndedWell, LogWhole, Judged
    <3> QED
      BY <3>4, <3>5, <3>6, <3>7 DEF LocalInv
  <2> QED
    BY <1>4, <2>2, <2>3 DEF Launching!Spawn
<1>5. ASSUME Launching!Elapse PROVE LocalInv'
  <2>0. /\ UNCHANGED launch /\ UNCHANGED Launching!World /\ UNCHANGED Launching!Ranks
        /\ UNCHANGED Launching!Stuck /\ UNCHANGED Launching!Forking
        /\ Launching!Cohort' <=> Launching!Cohort
        /\ \A q : Launching!Plan(q)' = Launching!Plan(q)
    <3>1. UNCHANGED launch
      BY <1>5 DEF Launching!Elapse
    <3> QED
      BY <3>1, SameLaunch
  <2>1. Launching!TypeOK'
    BY <1>0, <1>a, <1>5, <2>0
       DEF Launching!TypeOK, Launching!Elapse
  <2>2. InOrder'
    <3>1. \A q \in Launching!Ranks : Launching!Started(q)' <=> Launching!Started(q)
      BY <1>0, <1>5 DEF Launching!Elapse, Launching!TypeOK, Launching!Started
    <3>2. StartedFirst'
      BY <1>0, <2>0, <3>1, StartedStays DEF InOrder
    <3> QED
      BY <1>0, <1>a, <1>5, <2>0, <3>1, <3>2 DEF InOrder, Launching!TypeOK, Launching!Elapse
  <2>3. TreesStopped'
    BY <1>0, <1>a, <1>5, <2>0
       DEF TreesStopped, Launching!AliveIn, Launching!Started, Launching!Elapse,
           Launching!TypeOK
  <2>4. EndedWell'
    BY <1>0, <1>a, <1>5, <2>0
       DEF EndedWell, Launching!AllZero, Launching!Elapse, Launching!TypeOK
  <2>5. LogWhole'
    BY <1>0, <1>a, <1>5, <2>0
       DEF LogWhole, Launching!Elapse, Launching!TypeOK
  <2>6. Judged'
    BY <1>0, <1>a, <1>5, <2>0
       DEF Judged, Launching!Elapse, Launching!TypeOK, Launching!Lines
  <2> QED
    BY <2>1, <2>2, <2>3, <2>4, <2>5, <2>6 DEF LocalInv
<1>6. ASSUME Launching!WatchCohort PROVE LocalInv'
  <2>0. /\ UNCHANGED launch /\ UNCHANGED Launching!World /\ UNCHANGED Launching!Ranks
        /\ UNCHANGED Launching!Stuck /\ UNCHANGED Launching!Forking
        /\ Launching!Cohort' <=> Launching!Cohort
        /\ \A q : Launching!Plan(q)' = Launching!Plan(q)
    <3>1. UNCHANGED launch
      BY <1>6 DEF Launching!WatchCohort
    <3> QED
      BY <3>1, SameLaunch
  <2>1. Launching!TypeOK'
    <3>1. pc' = "term" /\ at' = 0 /\ failure' \in {failure, TRUE}
      BY <1>6 DEF Launching!WatchCohort, Launching!Fail, Launching!StopFrom
    <3>2. UNCHANGED <<leader, child, stream, overdue, merged, issues, answer>>
      BY <1>6 DEF Launching!WatchCohort
    <3>3. failure' \in BOOLEAN
      BY <1>0, <3>1 DEF EndedWell, Launching!TypeOK
    <3>4. at' \in 0..Launching!World
      BY <1>a, <3>1
    <3> QED
      BY <1>0, <2>0, <3>1, <3>2, <3>3, <3>4 DEF Launching!TypeOK
  <2>2. InOrder'
    <3>1. \A q \in Launching!Ranks : Launching!Started(q)' <=> Launching!Started(q)
      BY <1>0, <1>6 DEF Launching!WatchCohort, Launching!TypeOK, Launching!Started
    <3>2. StartedFirst'
      BY <1>0, <2>0, <3>1, StartedStays DEF InOrder
    <3> QED
      BY <1>0, <1>a, <1>6, <2>0, <3>1, <3>2 DEF InOrder, Launching!TypeOK,
          Launching!WatchCohort, Launching!Fail, Launching!StopFrom
  <2>3. TreesStopped'
    BY <1>0, <1>a, <1>6, <2>0
       DEF TreesStopped, Launching!AliveIn, Launching!Started, Launching!WatchCohort,
           Launching!Fail, Launching!StopFrom, Launching!SomeNonzero, Launching!AllZero,
           Launching!Overdue, Launching!TypeOK
  <2>4. EndedWell'
    BY <1>0, <1>a, <1>6, <2>0
       DEF EndedWell, Launching!AllZero, Launching!WatchCohort, Launching!Fail,
           Launching!StopFrom, Launching!SomeNonzero, Launching!Overdue, Launching!TypeOK
  <2>5. LogWhole'
    BY <1>0, <1>a, <1>6, <2>0
       DEF LogWhole, Launching!WatchCohort, Launching!Fail, Launching!StopFrom,
           Launching!SomeNonzero, Launching!AllZero, Launching!Overdue, Launching!TypeOK
  <2>6. Judged'
    BY <1>0, <1>a, <1>6, <2>0
       DEF Judged, Launching!WatchCohort, Launching!Fail, Launching!StopFrom,
           Launching!SomeNonzero, Launching!AllZero, Launching!Overdue, Launching!TypeOK,
           Launching!Lines
  <2> QED
    BY <2>1, <2>2, <2>3, <2>4, <2>5, <2>6 DEF LocalInv
<1>7. ASSUME Launching!WaitAlone PROVE LocalInv'
  <2>0. /\ UNCHANGED launch /\ UNCHANGED Launching!World /\ UNCHANGED Launching!Ranks
        /\ UNCHANGED Launching!Stuck /\ UNCHANGED Launching!Forking
        /\ Launching!Cohort' <=> Launching!Cohort
        /\ \A q : Launching!Plan(q)' = Launching!Plan(q)
    <3>1. UNCHANGED launch
      BY <1>7 DEF Launching!WaitAlone
    <3> QED
      BY <3>1, SameLaunch
  <2>1. Launching!TypeOK'
    BY <1>0, <1>a, <1>7, <2>0
       DEF Launching!TypeOK, Launching!WaitAlone, Launching!Fail, Launching!StopFrom,
           Launching!Overdue
  <2>2. InOrder'
    <3>1. \A q \in Launching!Ranks : Launching!Started(q)' <=> Launching!Started(q)
      BY <1>0, <1>7 DEF Launching!WaitAlone, Launching!TypeOK, Launching!Started
    <3>2. StartedFirst'
      BY <1>0, <2>0, <3>1, StartedStays DEF InOrder
    <3> QED
      BY <1>0, <1>a, <1>7, <2>0, <3>1, <3>2 DEF InOrder, Launching!TypeOK, Launching!WaitAlone,
          Launching!Fail, Launching!StopFrom
  <2>3. TreesStopped'
    BY <1>0, <1>a, <1>7, <2>0
       DEF TreesStopped, Launching!AliveIn, Launching!Started, Launching!WaitAlone,
           Launching!Fail, Launching!StopFrom, Launching!Overdue, Launching!TypeOK
  <2>4. EndedWell'
    BY <1>0, <1>a, <1>7, <2>0
       DEF EndedWell, Launching!AllZero, Launching!WaitAlone, Launching!Fail,
           Launching!StopFrom, Launching!Overdue, Launching!TypeOK
  <2>5. LogWhole'
    BY <1>0, <1>a, <1>7, <2>0
       DEF LogWhole, Launching!WaitAlone, Launching!Fail, Launching!StopFrom, Launching!Overdue,
           Launching!TypeOK
  <2>6. Judged'
    BY <1>0, <1>a, <1>7, <2>0
       DEF Judged, Launching!WaitAlone, Launching!Fail, Launching!StopFrom, Launching!Overdue,
           Launching!TypeOK, Launching!Lines
  <2> QED
    BY <2>1, <2>2, <2>3, <2>4, <2>5, <2>6 DEF LocalInv
<1>8. ASSUME Launching!Interrupt PROVE LocalInv'
  <2>0. /\ UNCHANGED launch /\ UNCHANGED Launching!World /\ UNCHANGED Launching!Ranks
        /\ UNCHANGED Launching!Stuck /\ UNCHANGED Launching!Forking
        /\ Launching!Cohort' <=> Launching!Cohort
        /\ \A q : Launching!Plan(q)' = Launching!Plan(q)
    <3>1. UNCHANGED launch
      BY <1>8 DEF Launching!Interrupt
    <3> QED
      BY <3>1, SameLaunch
  <2>1. Launching!TypeOK'
    BY <1>0, <1>a, <1>8, <2>0
       DEF Launching!TypeOK, Launching!Interrupt, Launching!Fail, Launching!StopFrom
  <2>2. InOrder'
    <3>1. \A q \in Launching!Ranks : Launching!Started(q)' <=> Launching!Started(q)
      BY <1>0, <1>8 DEF Launching!Interrupt, Launching!TypeOK, Launching!Started
    <3>2. StartedFirst'
      BY <1>0, <2>0, <3>1, StartedStays DEF InOrder
    <3> QED
      BY <1>0, <1>a, <1>8, <2>0, <3>1, <3>2 DEF InOrder, Launching!TypeOK, Launching!Interrupt,
          Launching!Fail, Launching!StopFrom
  <2>3. TreesStopped'
    BY <1>0, <1>a, <1>8, <2>0
       DEF TreesStopped, Launching!AliveIn, Launching!Started, Launching!Interrupt,
           Launching!Fail, Launching!StopFrom, Launching!TypeOK
  <2>4. EndedWell'
    BY <1>0, <1>a, <1>8, <2>0
       DEF EndedWell, Launching!AllZero, Launching!Interrupt, Launching!Fail,
           Launching!StopFrom, Launching!TypeOK
  <2>5. LogWhole'
    BY <1>0, <1>a, <1>8, <2>0
       DEF LogWhole, Launching!Interrupt, Launching!Fail, Launching!StopFrom, Launching!TypeOK
  <2>6. Judged'
    BY <1>0, <1>a, <1>8, <2>0
       DEF Judged, Launching!Interrupt, Launching!Fail, Launching!StopFrom, Launching!TypeOK,
           Launching!Lines
  <2> QED
    BY <2>1, <2>2, <2>3, <2>4, <2>5, <2>6 DEF LocalInv
<1>9. ASSUME Launching!TermGroup PROVE LocalInv'
  <2>0. /\ UNCHANGED launch /\ UNCHANGED Launching!World /\ UNCHANGED Launching!Ranks
        /\ UNCHANGED Launching!Stuck /\ UNCHANGED Launching!Forking
        /\ Launching!Cohort' <=> Launching!Cohort
        /\ \A q : Launching!Plan(q)' = Launching!Plan(q)
    <3>1. UNCHANGED launch
      BY <1>9 DEF Launching!TermGroup
    <3> QED
      BY <3>1, SameLaunch
  <2>1. /\ pc = "term" /\ at \in Launching!Ranks /\ Launching!Started(at) /\ merged = <<>>
        /\ UNCHANGED <<stream, failure, overdue, merged, issues, answer>>
    BY <1>0, <1>9 DEF Launching!TermGroup, InOrder, LogWhole
  <2>2. ASSUME ~Launching!AliveIn(at), Launching!NextTree, UNCHANGED <<leader, child>>
        PROVE  LocalInv'
    <3>1. \/ /\ pc' = "term" /\ at' = at + 1 /\ at + 1 \in Launching!Ranks
             /\ Launching!Started(at + 1)
          \/ /\ pc' \in {"gather", "raised"} /\ at' = 0 /\ (pc' = "gather" => Launching!Cohort)
             /\ \A r \in Launching!Ranks : Launching!Started(r) => r <= at
      BY <1>0, <2>1, <2>2, NextTreeMoves DEF Launching!Leave
    <3>2. \A r \in Launching!Ranks : /\ Launching!Started(r)' <=> Launching!Started(r)
                                     /\ Launching!AliveIn(r)' <=> Launching!AliveIn(r)
      BY <2>1, <2>2 DEF Launching!Started, Launching!AliveIn
    <3>3. \A r \in Launching!Ranks : r <= at => ~Launching!AliveIn(r)
      BY <1>0, <1>a, <2>1, <2>2 DEF TreesStopped
    <3>4. \A r \in Launching!Ranks : Launching!AliveIn(r) => Launching!Started(r)
      BY <1>0 DEF TreesStopped, Launching!AliveIn, Launching!Started
    <3>5. UNCHANGED child /\ UNCHANGED leader /\ UNCHANGED failure
      BY <2>1, <2>2
    <3>6. Launching!TypeOK'
      <4>1. at' \in 0..Launching!World /\ pc' \in {"term", "gather", "raised"}
        BY <1>a, <2>1, <3>1
      <4> QED
        BY <1>0, <2>0, <2>1, <3>5, <4>1 DEF Launching!TypeOK
    <3>7. InOrder'
      <4>1. StartedFirst'
        BY <1>0, <2>0, <3>2, StartedStays DEF InOrder
      <4> QED
        BY <1>a, <2>0, <3>1, <3>2, <4>1 DEF InOrder
    <3>8. TreesStopped'
      <4>1. at' = at + 1 => \A r \in Launching!Ranks : r < at' => r <= at
        BY <1>a, <2>1
      <4> QED
        BY <1>0, <2>0, <3>1, <3>2, <3>3, <3>4, <3>5, <4>1 DEF TreesStopped
    <3>9. EndedWell'
      BY <1>0, <2>0, <2>1, <3>1, <3>5 DEF EndedWell, Launching!AllZero
    <3>10. LogWhole' /\ Judged'
      BY <2>0, <2>1, <3>1, NothingGathered DEF LogWhole, Judged
    <3> QED
      BY <3>6, <3>7, <3>8, <3>9, <3>10 DEF LocalInv
  <2>3. ASSUME pc' = "wait", UNCHANGED at,
               leader' \in {leader, [leader EXCEPT ![at] = "nonzero"]},
               leader' # leader => leader[at] = "running",
               child' \in {child, [child EXCEPT ![at] = FALSE]}
        PROVE  LocalInv'
    <3>1. /\ leader' \in [Launching!Ranks -> {"none", "running", "zero", "nonzero"}]
          /\ child' \in [Launching!Ranks -> BOOLEAN]
      BY <1>0, <2>1, <2>3 DEF Launching!TypeOK
    <3>2. \A r \in Launching!Ranks :
             /\ leader'[r] = "none" <=> leader[r] = "none"
             /\ leader'[r] = "running" => leader[r] = "running"
             /\ leader[r] = "zero" => leader'[r] = "zero"
             /\ child'[r] => child[r]
      BY <1>0, <2>1, <2>3 DEF Launching!TypeOK
    <3>3. Launching!TypeOK'
      BY <1>0, <2>0, <2>1, <2>3, <3>1 DEF Launching!TypeOK
    <3>4. InOrder'
      <4>1. \A r \in Launching!Ranks : Launching!Started(r)' <=> Launching!Started(r)
        BY <3>2 DEF Launching!Started
      <4>2. StartedFirst'
        BY <1>0, <2>0, <4>1, StartedStays DEF InOrder
      <4> QED
        BY <2>0, <2>1, <2>3, <4>1, <4>2 DEF InOrder
    <3>5. TreesStopped'
      BY <1>0, <2>0, <2>1, <2>3, <3>2 DEF TreesStopped, Launching!AliveIn, Launching!Started
    <3>6. EndedWell'
      BY <1>0, <2>0, <2>1, <2>3, <3>2 DEF EndedWell, Launching!AllZero
    <3>7. LogWhole' /\ Judged'
      BY <2>1, <2>3 DEF LogWhole, Judged
    <3> QED
      BY <3>3, <3>4, <3>5, <3>6, <3>7 DEF LocalInv
  <2>4. \/ ~Launching!AliveIn(at) /\ Launching!NextTree /\ UNCHANGED <<leader, child>>
        \/ /\ pc' = "wait" /\ UNCHANGED at
           /\ leader' \in {leader, [leader EXCEPT ![at] = "nonzero"]}
           /\ leader' # leader => leader[at] = "running"
           /\ child' \in {child, [child EXCEPT ![at] = FALSE]}
    BY <1>9 DEF Launching!TermGroup
  <2> QED
    BY <2>2, <2>3, <2>4
<1>10. ASSUME Launching!WaitLeader PROVE LocalInv'
  <2>0. /\ UNCHANGED launch /\ UNCHANGED Launching!World /\ UNCHANGED Launching!Ranks
        /\ UNCHANGED Launching!Stuck /\ UNCHANGED Launching!Forking
        /\ Launching!Cohort' <=> Launching!Cohort
        /\ \A q : Launching!Plan(q)' = Launching!Plan(q)
    <3>1. UNCHANGED launch
      BY <1>10 DEF Launching!WaitLeader
    <3> QED
      BY <3>1, SameLaunch
  <2>1. Launching!TypeOK'
    BY <1>0, <1>a, <1>10, <2>0
       DEF Launching!TypeOK, Launching!WaitLeader, Launching!GroupMayRemain
  <2>2. InOrder'
    <3>1. \A q \in Launching!Ranks : Launching!Started(q)' <=> Launching!Started(q)
      BY <1>0, <1>10 DEF Launching!WaitLeader, Launching!TypeOK, Launching!Started
    <3>2. StartedFirst'
      BY <1>0, <2>0, <3>1, StartedStays DEF InOrder
    <3> QED
      BY <1>0, <1>a, <1>10, <2>0, <3>1, <3>2 DEF InOrder, Launching!TypeOK,
          Launching!WaitLeader, Launching!GroupMayRemain
  <2>3. TreesStopped'
    BY <1>0, <1>a, <1>10, <2>0
       DEF TreesStopped, Launching!AliveIn, Launching!Started, Launching!WaitLeader,
           Launching!GroupMayRemain, Launching!TypeOK
  <2>4. EndedWell'
    BY <1>0, <1>a, <1>10, <2>0
       DEF EndedWell, Launching!AllZero, Launching!WaitLeader, Launching!GroupMayRemain,
           Launching!TypeOK
  <2>5. LogWhole'
    BY <1>0, <1>a, <1>10, <2>0
       DEF LogWhole, Launching!WaitLeader, Launching!GroupMayRemain, Launching!TypeOK
  <2>6. Judged'
    BY <1>0, <1>a, <1>10, <2>0
       DEF Judged, Launching!WaitLeader, Launching!GroupMayRemain, Launching!TypeOK,
           Launching!Lines
  <2> QED
    BY <2>1, <2>2, <2>3, <2>4, <2>5, <2>6 DEF LocalInv
<1>11. ASSUME Launching!KillGroup PROVE LocalInv'
  <2>0. /\ UNCHANGED launch /\ UNCHANGED Launching!World /\ UNCHANGED Launching!Ranks
        /\ UNCHANGED Launching!Stuck /\ UNCHANGED Launching!Forking
        /\ Launching!Cohort' <=> Launching!Cohort
        /\ \A q : Launching!Plan(q)' = Launching!Plan(q)
    <3>1. UNCHANGED launch
      BY <1>11 DEF Launching!KillGroup
    <3> QED
      BY <3>1, SameLaunch
  <2>1. Launching!TypeOK'
    BY <1>0, <1>a, <1>11, <2>0
       DEF Launching!TypeOK, Launching!KillGroup
  <2>2. InOrder'
    <3>1. \A q \in Launching!Ranks : Launching!Started(q)' <=> Launching!Started(q)
      BY <1>0, <1>11 DEF Launching!KillGroup, Launching!TypeOK, Launching!Started
    <3>2. StartedFirst'
      BY <1>0, <2>0, <3>1, StartedStays DEF InOrder
    <3> QED
      BY <1>0, <1>a, <1>11, <2>0, <3>1, <3>2 DEF InOrder, Launching!TypeOK, Launching!KillGroup
  <2>3. TreesStopped'
    <3>1. pc = "kill" /\ pc' = "reap" /\ at \in Launching!Ranks /\ Launching!Started(at)
           /\ UNCHANGED <<at, failure>>
      BY <1>0, <1>11 DEF Launching!KillGroup, InOrder
    <3>2. /\ leader'[at] = "running" => at \in Launching!Stuck
          /\ ~child'[at]
          /\ \A r \in Launching!Ranks :
               /\ leader'[r] = "none" <=> leader[r] = "none"
               /\ leader'[r] = "running" => leader[r] = "running"
               /\ child'[r] => child[r]
      BY <1>0, <1>11, <3>1 DEF Launching!TypeOK, Launching!KillGroup
    <3> QED
      BY <1>0, <2>0, <3>1, <3>2 DEF TreesStopped, Launching!AliveIn, Launching!Started
  <2>4. EndedWell'
    BY <1>0, <1>a, <1>11, <2>0
       DEF EndedWell, Launching!AllZero, Launching!KillGroup, Launching!TypeOK
  <2>5. LogWhole'
    BY <1>0, <1>a, <1>11, <2>0
       DEF LogWhole, Launching!KillGroup, Launching!TypeOK
  <2>6. Judged'
    BY <1>0, <1>a, <1>11, <2>0
       DEF Judged, Launching!KillGroup, Launching!TypeOK, Launching!Lines
  <2> QED
    BY <2>1, <2>2, <2>3, <2>4, <2>5, <2>6 DEF LocalInv
<1>12. ASSUME Launching!Reap PROVE LocalInv'
  <2>0. /\ UNCHANGED launch /\ UNCHANGED Launching!World /\ UNCHANGED Launching!Ranks
        /\ UNCHANGED Launching!Stuck /\ UNCHANGED Launching!Forking
        /\ Launching!Cohort' <=> Launching!Cohort
        /\ \A q : Launching!Plan(q)' = Launching!Plan(q)
    <3>1. UNCHANGED launch
      BY <1>12 DEF Launching!Reap
    <3> QED
      BY <3>1, SameLaunch
  <2>1. /\ pc = "reap" /\ at \in Launching!Ranks /\ Launching!Started(at) /\ merged = <<>>
        /\ UNCHANGED <<leader, child, stream, overdue, merged, issues, answer>>
    BY <1>0, <1>12 DEF Launching!Reap, InOrder, LogWhole
  <2>2. ASSUME leader[at] # "running", Launching!NextTree, UNCHANGED failure
        PROVE  LocalInv'
    <3>0. ~Launching!AliveIn(at)
      BY <1>0, <2>1, <2>2 DEF TreesStopped, Launching!AliveIn
    <3>1. \/ /\ pc' = "term" /\ at' = at + 1 /\ at + 1 \in Launching!Ranks
             /\ Launching!Started(at + 1)
          \/ /\ pc' \in {"gather", "raised"} /\ at' = 0 /\ (pc' = "gather" => Launching!Cohort)
             /\ \A r \in Launching!Ranks : Launching!Started(r) => r <= at
      BY <1>0, <2>1, <2>2, <3>0, NextTreeMoves DEF Launching!Leave
    <3>2. \A r \in Launching!Ranks : /\ Launching!Started(r)' <=> Launching!Started(r)
                                     /\ Launching!AliveIn(r)' <=> Launching!AliveIn(r)
      BY <2>1, <2>2, <3>0 DEF Launching!Started, Launching!AliveIn
    <3>3. \A r \in Launching!Ranks : r <= at => ~Launching!AliveIn(r)
      BY <1>0, <1>a, <2>1, <2>2, <3>0 DEF TreesStopped
    <3>4. \A r \in Launching!Ranks : Launching!AliveIn(r) => Launching!Started(r)
      BY <1>0 DEF TreesStopped, Launching!AliveIn, Launching!Started
    <3>5. UNCHANGED child /\ UNCHANGED leader /\ UNCHANGED failure
      BY <2>1, <2>2, <3>0
    <3>6. Launching!TypeOK'
      <4>1. at' \in 0..Launching!World /\ pc' \in {"term", "gather", "raised"}
        BY <1>a, <2>1, <3>1
      <4> QED
        BY <1>0, <2>0, <2>1, <3>5, <4>1 DEF Launching!TypeOK
    <3>7. InOrder'
      <4>1. StartedFirst'
        BY <1>0, <2>0, <3>2, StartedStays DEF InOrder
      <4> QED
        BY <1>a, <2>0, <3>1, <3>2, <4>1 DEF InOrder
    <3>8. TreesStopped'
      <4>1. at' = at + 1 => \A r \in Launching!Ranks : r < at' => r <= at
        BY <1>a, <2>1
      <4> QED
        BY <1>0, <2>0, <3>1, <3>2, <3>3, <3>4, <3>5, <4>1 DEF TreesStopped
    <3>9. EndedWell'
      BY <1>0, <2>0, <2>1, <3>1, <3>5 DEF EndedWell, Launching!AllZero
    <3>10. LogWhole' /\ Judged'
      BY <2>0, <2>1, <3>1, NothingGathered DEF LogWhole, Judged
    <3> QED
      BY <3>6, <3>7, <3>8, <3>9, <3>10 DEF LocalInv
  <2>3. ASSUME leader[at] = "running", failure' = TRUE, Launching!Leave
        PROVE  LocalInv'
    <3>1. at' = 0 /\ pc' \in {"gather", "raised"} /\ (pc' = "gather" => Launching!Cohort)
      BY <2>3 DEF Launching!Leave
    <3>2. \A r \in Launching!Ranks : Launching!Started(r)' <=> Launching!Started(r)
      BY <2>1 DEF Launching!Started
    <3>3. Launching!TypeOK'
      BY <1>0, <1>a, <2>0, <2>1, <2>3, <3>1 DEF Launching!TypeOK
    <3>4. InOrder'
      <4>1. StartedFirst'
        BY <1>0, <2>0, <3>2, StartedStays DEF InOrder
      <4> QED
        BY <1>a, <2>0, <3>1, <4>1 DEF InOrder
    <3>5. TreesStopped'
      <4>1. Launching!Stuck # {}
        BY <1>0, <2>1, <2>3 DEF TreesStopped
      <4>2. UNCHANGED child
        BY <2>1
      <4> QED
        BY <1>0, <2>0, <2>3, <3>1, <3>2, <4>1, <4>2 DEF TreesStopped
    <3>6. EndedWell' /\ LogWhole' /\ Judged'
      BY <2>0, <2>3, <3>1 DEF EndedWell, LogWhole, Judged
    <3> QED
      BY <3>3, <3>4, <3>5, <3>6 DEF LocalInv
  <2> QED
    BY <1>12, <2>2, <2>3 DEF Launching!Reap
<1>13. ASSUME Launching!Gather PROVE LocalInv'
  <2>0. /\ UNCHANGED launch /\ UNCHANGED Launching!World /\ UNCHANGED Launching!Ranks
        /\ UNCHANGED Launching!Stuck /\ UNCHANGED Launching!Forking
        /\ Launching!Cohort' <=> Launching!Cohort
        /\ \A q : Launching!Plan(q)' = Launching!Plan(q)
    <3>1. UNCHANGED launch
      BY <1>13 DEF Launching!Gather
    <3> QED
      BY <3>1, SameLaunch
  <2>1. Launching!TypeOK'
    <3>1. at \in Launching!Ranks /\ stream[at] \in Seq(Launching!Line) /\ merged \in Seq(Launching!Line)
      BY <1>0, <1>13 DEF Launching!TypeOK, InOrder, Launching!Gather
    <3>2. merged \o stream[at] \in Seq(Launching!Line)
      BY <3>1
    <3>3. merged' \in {merged, merged \o stream[at]} /\ issues' \in {issues, TRUE}
      BY <1>13 DEF Launching!Gather
    <3>4. pc' \in {"gather", "strict"} /\ at' \in 0..Launching!World
      BY <1>a, <1>13, <3>1 DEF Launching!Gather
    <3>5. UNCHANGED <<leader, child, stream, failure, overdue, answer>>
      BY <1>13 DEF Launching!Gather
    <3>6. merged' \in Seq(Launching!Line) /\ issues' \in BOOLEAN
      BY <1>0, <3>1, <3>2, <3>3 DEF Launching!TypeOK
    <3> QED
      BY <1>0, <2>0, <3>4, <3>5, <3>6 DEF Launching!TypeOK
  <2>2. InOrder'
    <3>1. \A q \in Launching!Ranks : Launching!Started(q)' <=> Launching!Started(q)
      BY <1>0, <1>13 DEF Launching!Gather, Launching!TypeOK, Launching!Started
    <3>2. StartedFirst'
      BY <1>0, <2>0, <3>1, StartedStays DEF InOrder
    <3> QED
      BY <1>0, <1>a, <1>13, <2>0, <3>1, <3>2 DEF InOrder, Launching!TypeOK, Launching!Gather
  <2>3. TreesStopped'
    BY <1>0, <1>a, <1>13, <2>0
       DEF TreesStopped, Launching!AliveIn, Launching!Started, Launching!Gather,
           Launching!TypeOK
  <2>4. EndedWell'
    BY <1>0, <1>a, <1>13, <2>0
       DEF EndedWell, Launching!AllZero, Launching!Gather, Launching!TypeOK
  <2>5. LogWhole'
    <3>1. /\ at \in Launching!Ranks /\ at \in Nat /\ stream[at] \in Seq(Launching!Line)
          /\ merged \in Seq(Launching!Line) /\ pc = "gather"
      BY <1>0, <1>a, <1>13 DEF Launching!TypeOK, InOrder, Launching!Gather
    <3>2. ~failure /\ ~issues => Whole(merged \o stream[at], stream, at + 1)
      BY <1>0, <3>1, OneMoreGathered DEF LogWhole
    <3>3. issues' \/ (merged' = merged \o stream[at] /\ issues' = issues)
      BY <1>13 DEF Launching!Gather
    <3>4. \/ pc' = "gather" /\ at' = at + 1
          \/ pc' = "strict" /\ at + 1 = Launching!World
      BY <1>a, <1>13, <3>1 DEF Launching!Gather
    <3>5. UNCHANGED <<stream, failure>>
      BY <1>13 DEF Launching!Gather
    <3> QED
      BY <2>0, <3>2, <3>3, <3>4, <3>5 DEF LogWhole
  <2>6. Judged'
    BY <1>0, <1>a, <1>13, <2>0
       DEF Judged, Launching!Gather, Launching!TypeOK, Launching!Lines
  <2> QED
    BY <2>1, <2>2, <2>3, <2>4, <2>5, <2>6 DEF LocalInv
<1>14. ASSUME Launching!CheckComplete PROVE LocalInv'
  <2>0. /\ UNCHANGED launch /\ UNCHANGED Launching!World /\ UNCHANGED Launching!Ranks
        /\ UNCHANGED Launching!Stuck /\ UNCHANGED Launching!Forking
        /\ Launching!Cohort' <=> Launching!Cohort
        /\ \A q : Launching!Plan(q)' = Launching!Plan(q)
    <3>1. UNCHANGED launch
      BY <1>14 DEF Launching!CheckComplete
    <3> QED
      BY <3>1, SameLaunch
  <2>1. Launching!TypeOK'
    BY <1>0, <1>a, <1>14, <2>0
       DEF Launching!TypeOK, Launching!CheckComplete, Launching!Complete
  <2>2. InOrder'
    <3>1. \A q \in Launching!Ranks : Launching!Started(q)' <=> Launching!Started(q)
      BY <1>0, <1>14 DEF Launching!CheckComplete, Launching!TypeOK, Launching!Started
    <3>2. StartedFirst'
      BY <1>0, <2>0, <3>1, StartedStays DEF InOrder
    <3> QED
      BY <1>0, <1>a, <1>14, <2>0, <3>1, <3>2 DEF InOrder, Launching!TypeOK,
          Launching!CheckComplete, Launching!Complete
  <2>3. TreesStopped'
    BY <1>0, <1>a, <1>14, <2>0
       DEF TreesStopped, Launching!AliveIn, Launching!Started, Launching!CheckComplete,
           Launching!Complete, Launching!TypeOK
  <2>4. EndedWell'
    BY <1>0, <1>a, <1>14, <2>0
       DEF EndedWell, Launching!AllZero, Launching!CheckComplete, Launching!Complete,
           Launching!TypeOK
  <2>5. LogWhole'
    BY <1>0, <1>a, <1>14, <2>0
       DEF LogWhole, Launching!CheckComplete, Launching!Complete, Launching!TypeOK
  <2>6. Judged'
    BY <1>0, <1>a, <1>14, <2>0
       DEF Judged, Launching!CheckComplete, Launching!Complete, Launching!TypeOK,
           Launching!Lines
  <2> QED
    BY <2>1, <2>2, <2>3, <2>4, <2>5, <2>6 DEF LocalInv
<1>15. ASSUME Launching!Parse PROVE LocalInv'
  <2>0. /\ UNCHANGED launch /\ UNCHANGED Launching!World /\ UNCHANGED Launching!Ranks
        /\ UNCHANGED Launching!Stuck /\ UNCHANGED Launching!Forking
        /\ Launching!Cohort' <=> Launching!Cohort
        /\ \A q : Launching!Plan(q)' = Launching!Plan(q)
    <3>1. UNCHANGED launch
      BY <1>15 DEF Launching!Parse
    <3> QED
      BY <3>1, SameLaunch
  <2>1. /\ pc = "parse" /\ ~failure
        /\ UNCHANGED <<at, leader, child, stream, overdue, merged, issues>>
    BY <1>0, <1>15 DEF Launching!Parse, EndedWell
  <2>2. Launching!Lines \in Seq(Launching!Line) /\ UNCHANGED Launching!Lines
    BY <1>0, <1>a, <2>0, <2>1 DEF Launching!Lines, Launching!TypeOK
  <2>3. \/ /\ pc' = "answered" /\ UNCHANGED failure
           /\ Agreed(Launching!Lines, answer') /\ answer' \in Paths \cup {Launching!NoPath}
        \/ pc' = "raised" /\ failure' = TRUE /\ UNCHANGED answer
    BY <1>15, <2>2, AcceptedIsAgreed DEF Launching!Parse
  <2>4. Launching!TypeOK'
    BY <1>0, <2>0, <2>1, <2>3 DEF Launching!TypeOK
  <2>5. InOrder'
    <3>1. \A q \in Launching!Ranks : Launching!Started(q)' <=> Launching!Started(q)
      BY <2>1 DEF Launching!Started
    <3>2. StartedFirst'
      BY <1>0, <2>0, <3>1, StartedStays DEF InOrder
    <3> QED
      BY <2>3, <3>2 DEF InOrder
  <2>6. TreesStopped'
    BY <1>0, <2>0, <2>1, <2>3 DEF TreesStopped, Launching!AliveIn, Launching!Started
  <2>7. EndedWell'
    BY <1>0, <2>0, <2>1, <2>3 DEF EndedWell, Launching!AllZero
  <2>8. LogWhole'
    BY <1>0, <2>0, <2>1, <2>3 DEF LogWhole
  <2>9. Judged'
    BY <2>2, <2>3 DEF Judged
  <2> QED
    BY <2>4, <2>5, <2>6, <2>7, <2>8, <2>9 DEF LocalInv
<1>16. CASE UNCHANGED Launching!vars
  <2>0. /\ UNCHANGED launch /\ UNCHANGED Launching!World /\ UNCHANGED Launching!Ranks
        /\ UNCHANGED Launching!Stuck /\ UNCHANGED Launching!Forking
        /\ Launching!Cohort' <=> Launching!Cohort
        /\ \A q : Launching!Plan(q)' = Launching!Plan(q)
    BY <1>16, SameLaunch DEF Launching!vars
  <2>1. Launching!TypeOK' /\ TreesStopped'
    BY <1>0, <1>16, <2>0 DEF Launching!vars, Launching!TypeOK, TreesStopped, Launching!Started,
        Launching!AliveIn
  <2>2. InOrder'
    <3>1. \A q \in Launching!Ranks : Launching!Started(q)' <=> Launching!Started(q)
      BY <1>16 DEF Launching!vars, Launching!Started
    <3>2. StartedFirst'
      BY <1>0, <2>0, <3>1, StartedStays DEF InOrder
    <3> QED
      BY <1>0, <1>16, <2>0, <3>1, <3>2 DEF Launching!vars, InOrder
  <2>3. EndedWell' /\ LogWhole' /\ Judged'
    BY <1>0, <1>16, <2>0 DEF Launching!vars, EndedWell, LogWhole, Judged, Launching!AllZero,
        Launching!Lines
  <2> QED
    BY <2>1, <2>2, <2>3 DEF LocalInv
<1> QED
  BY <1>1, <1>2, <1>3, <1>4, <1>5, <1>6, <1>7, <1>8, <1>9, <1>10, <1>11, <1>12, <1>13, <1>14,
      <1>15, <1>16 DEF Launching!Next, Launching!Launcher

LEMMA LineForms ==
  \A l \in Launching!Line :
    /\ l.kind = "terminal" => l = Launching!Terminal(l.path)
    /\ l.kind = "width" => l = Launching!Width(l.width)
    /\ l.kind = "summary" => l = Launching!Summary(l.count)
  BY DEF Launching!Line, Launching!Terminal, Launching!Collected, Launching!Garbage,
      Launching!Width, Launching!Summary

\* The lines an answer was read from are those the ranks printed.
LEMMA PrintedLines ==
  ASSUME LocalInv, pc = "answered"
  PROVE  /\ Launching!Lines \in Seq(Launching!Line)
         /\ \A k : Launching!Printed(k) = {Launching!Lines[i] : i \in IndicesOf(Launching!Lines, k)}
<1>1. /\ Launching!TypeOK /\ LogWhole
      /\ Launching!World \in Nat \ {0} /\ Launching!Ranks = 0..Launching!World - 1
      /\ Launching!Cohort <=> Launching!World > 1
  BY LaunchFacts DEF LocalInv
<1>2. Launching!Lines \in Seq(Launching!Line)
  BY <1>1 DEF Launching!Lines, Launching!TypeOK
<1>3. \A r \in Launching!Ranks : stream[r] \in Seq(Launching!Line) /\ DOMAIN stream[r] = 1..Len(stream[r])
  BY <1>1 DEF Launching!TypeOK
<1>4. /\ \A r \in Launching!Ranks : \A i \in 1..Len(stream[r]) :
            \E j \in 1..Len(Launching!Lines) : Launching!Lines[j] = stream[r][i]
      /\ \A j \in 1..Len(Launching!Lines) :
            \E r \in Launching!Ranks : \E i \in 1..Len(stream[r]) : Launching!Lines[j] = stream[r][i]
  <2>1. CASE Launching!Cohort
    <3>1. Launching!Lines = merged
      BY <2>1 DEF Launching!Lines
    <3>2. Everything(merged, stream, Launching!World) /\ NothingElse(merged, stream, Launching!World)
      BY <1>1, <2>1 DEF LogWhole, Whole
    <3> QED
      BY <1>1, <3>1, <3>2 DEF Everything, NothingElse
  <2>2. CASE ~Launching!Cohort
    <3>1. Launching!Lines = stream[0] /\ Launching!Ranks = {0}
      BY <1>1, <2>2 DEF Launching!Lines
    <3> QED
      BY <3>1
  <2> QED
    BY <2>1, <2>2
<1>5. ASSUME NEW k
      PROVE  Launching!Printed(k) = {Launching!Lines[i] : i \in IndicesOf(Launching!Lines, k)}
  <2>1. ASSUME NEW l \in Launching!Printed(k)
        PROVE  l \in {Launching!Lines[i] : i \in IndicesOf(Launching!Lines, k)}
    <3>1. PICK r \in Launching!Ranks : l \in {stream[r][i] : i \in DOMAIN stream[r]} /\ l.kind = k
      BY DEF Launching!Printed
    <3>2. PICK i \in 1..Len(stream[r]) : l = stream[r][i]
      BY <1>3, <3>1
    <3>3. PICK j \in 1..Len(Launching!Lines) : Launching!Lines[j] = l
      BY <1>4, <3>2
    <3> QED
      BY <3>1, <3>3 DEF IndicesOf
  <2>2. ASSUME NEW j \in IndicesOf(Launching!Lines, k)
        PROVE  Launching!Lines[j] \in Launching!Printed(k)
    <3>1. PICK r \in Launching!Ranks :
             \E i \in 1..Len(stream[r]) : Launching!Lines[j] = stream[r][i]
      BY <1>4 DEF IndicesOf
    <3>2. Launching!Lines[j] \in {stream[r][q] : q \in DOMAIN stream[r]}
      BY <1>3, <3>1
    <3>3. Launching!Lines[j].kind = k
      BY DEF IndicesOf
    <3> QED
      BY <3>2, <3>3 DEF Launching!Printed
  <2> QED
    BY <2>1, <2>2
<1> QED
  BY <1>2, <1>5

LEMMA AnswerPromises ==
  ASSUME LocalInv, pc = "answered"
  PROVE  Launching!AnswerAgrees /\ Launching!CollectionAgrees /\ Launching!BeamAsRequested
<1>1. Agreed(Launching!Lines, answer)
  BY DEF LocalInv, Judged
<1>2. /\ Launching!Lines \in Seq(Launching!Line)
      /\ \A k : Launching!Printed(k) = {Launching!Lines[i] : i \in IndicesOf(Launching!Lines, k)}
  BY PrintedLines
<1>3. \A k : \A i \in IndicesOf(Launching!Lines, k) :
         Launching!Lines[i] \in Launching!Line /\ Launching!Lines[i].kind = k
  BY <1>2 DEF IndicesOf
<1>4. Launching!AnswerAgrees
  <2>1. \A i \in IndicesOf(Launching!Lines, "terminal") : Launching!Lines[i] = Launching!Terminal(answer)
    BY <1>1, <1>3, LineForms DEF Agreed
  <2>2. Launching!Printed("terminal") = {Launching!Terminal(answer)}
    BY <1>1, <1>2, <2>1 DEF Agreed
  <2> QED
    BY <1>1, <2>2 DEF Agreed, Launching!AnswerAgrees
<1>5. Launching!BeamAsRequested
  <2>1. \A i \in IndicesOf(Launching!Lines, "width") : Launching!Lines[i] = Launching!Width("requested")
    BY <1>1, <1>3, LineForms DEF Agreed
  <2> QED
    BY <1>2, <2>1 DEF Launching!BeamAsRequested
<1>6. ASSUME Launching!Printed("summary") # {} PROVE Launching!CollectionAgrees
  <2> DEFINE found == IndicesOf(Launching!Lines, "collected")
             c == {l.path : l \in Launching!Printed("collected")}
  <2>1. c = {Launching!Lines[i].path : i \in found}
    BY <1>2
  <2>2. IndicesOf(Launching!Lines, "summary") # {}
    BY <1>2, <1>6
  <2>3. /\ \A i \in IndicesOf(Launching!Lines, "summary") : Launching!Lines[i].count = Cardinality(found)
        /\ \A i, j \in found : Launching!Lines[i].path = Launching!Lines[j].path => i = j
        /\ found # {} <=> answer # Launching!NoPath
        /\ found # {} => \E i \in found : Launching!Lines[i].path = answer
        /\ \A i \in found : Launching!Lines[i].path \in Solving
    BY <1>1, <2>2 DEF Agreed
  <2>4. IsFiniteSet(found)
    <3>1. Len(Launching!Lines) \in Nat
      BY <1>2
    <3>2. IsFiniteSet(1..Len(Launching!Lines))
      BY <3>1, FS_Interval
    <3> QED
      BY <3>2, FS_Subset DEF IndicesOf
  <2> HIDE DEF found
  <2>5. Cardinality(c) = Cardinality(found)
    <3> DEFINE path == [i \in found |-> Launching!Lines[i].path]
    <3>1. path \in Bijection(found, c)
      BY <2>1, <2>3 DEF Bijection, Injection, IsInjective, Surjection
    <3>2. ExistsBijection(found, c)
      BY <3>1 DEF ExistsBijection
    <3> QED
      BY <2>4, <3>2, FS_Bijection
  <2>6. \A i \in IndicesOf(Launching!Lines, "summary") :
           Launching!Lines[i] = Launching!Summary(Cardinality(c))
    BY <1>3, <2>3, <2>5, LineForms
  <2>7. Launching!Printed("summary") = {Launching!Summary(Launching!Cardinality(c))}
    BY <1>2, <2>2, <2>6, SameCardinality
  <2>8. c \subseteq Solving /\ (answer # Launching!NoPath <=> answer \in c)
    BY <2>1, <2>3
  <2> QED
    BY <2>7, <2>8 DEF Launching!CollectionAgrees
<1> QED
  BY <1>4, <1>5, <1>6 DEF Launching!CollectionAgrees

\* An answer agrees with every line any rank printed and stands on the whole output
\* of ranks that all ended well; a call that is over leaves no process of a cohort
\* or of a failed search alive, unless one cannot be killed
\* (backend.py:276-297, 378, 440-456, 763, local_launcher.py:41-51).
THEOREM LaunchesHold == Spec => []LaunchHolds
<1> DEFINE Here == part = "local" => LocalInv
<1>1. Init => Here
  BY LocalStart DEF Init, ClusterParts
<1>2. Here /\ [Next]_allVars => Here'
  <2> SUFFICES ASSUME Here, [Next]_allVars, part' = "local" PROVE LocalInv'
    OBVIOUS
  <2>1. ASSUME LaunchStep PROVE LocalInv'
    BY <2>1, LocalKeep DEF LaunchStep
  <2>2. ASSUME ClusterStep PROVE FALSE
    BY <2>2 DEF ClusterStep, ClusterParts
  <2>3. CASE UNCHANGED allVars
    <3>1. UNCHANGED Launching!vars /\ part = "local"
      BY <2>3 DEF allVars, localVars, Launching!vars
    <3> QED
      BY <3>1, LocalKeep
  <2> QED
    BY <2>1, <2>2, <2>3 DEF Next
<1>3. Here => LaunchHolds
  <2> SUFFICES ASSUME LocalInv PROVE LaunchHolds
    BY DEF LaunchHolds
  <2>1. Launching!AnswerAgrees /\ Launching!CollectionAgrees /\ Launching!BeamAsRequested
    BY AnswerPromises DEF Launching!AnswerAgrees, Launching!CollectionAgrees,
        Launching!BeamAsRequested, Launching!Answered
  <2>2. Launching!AnswerIsComplete
    BY DEF LocalInv, EndedWell, LogWhole, Whole, InTurn, Launching!AllZero,
        Launching!AnswerIsComplete, Launching!Answered, Launching!Joins
  <2>3. Launching!NothingLeft
    BY DEF LocalInv, TreesStopped, Past, Launching!NothingLeft, Launching!Over
  <2> QED
    BY <2>1, <2>2, <2>3 DEF LocalInv, LaunchHolds
<1> QED
  BY <1>1, <1>2, <1>3, PTL DEF Spec
================================================================================
