---------------------------- MODULE ClusterRanks -----------------------------
(***************************************************************************)
(* One attempt of a run on a cluster (cluster.py, cluster_worker.py): every *)
(* task the scheduler started claims its rank directory and its place on a  *)
(* node in the shared directory, starts one native process, and watches it, *)
(* its deadline and the FAILED marker its peers may create.                 *)
(***************************************************************************)
EXTENDS Naturals

CONSTANTS
    Tasks,          \* processes started by the scheduler for this attempt
    Ranks, Places,  \* rank-R and node-N-local-L directories
    MayCrash,       \* tasks that may be killed without unwinding
    HungNatives     \* tasks whose native process may never exit by itself

NoTask == "none"

ClusterAssumption ==
    MayCrash \subseteq Tasks /\ HungNatives \subseteq Tasks /\ NoTask \notin Tasks

VARIABLES
    assigned,    \* the rank and place the environment of each task names
    rankDir,     \* who created rank-R
    placeDir,    \* who created node-N-local-L
    failed,      \* the FAILED marker, and who created it
    task, native, late

vars == <<assigned, rankDir, placeDir, failed, task, native, late>>

TypeOK ==
    /\ assigned \in [Tasks -> [rank : Ranks, place : Places]]
    /\ rankDir \in [Ranks -> Tasks \cup {NoTask}]
    /\ placeDir \in [Places -> Tasks \cup {NoTask}]
    /\ failed \in Tasks \cup {NoTask}
    /\ task \in [Tasks -> {"claim", "place", "check", "launch", "watch", "except",
                           "finally", "returned", "raised", "refused", "crashed"}]
    /\ native \in [Tasks -> {"none", "running", "zero", "nonzero", "stopped"}]
    /\ late \in [Tasks -> BOOLEAN]
    /\ \A t \in Tasks : task[t] \in {"claim", "place", "check", "launch"} => native[t] = "none"
    /\ \A t \in Tasks : task[t] = "returned" => native[t] = "zero"

\* A scheduler that hands out the same rank or place twice is not excluded:
\* the directories are there to refuse it.
Init ==
    /\ assigned \in [Tasks -> [rank : Ranks, place : Places]]
    /\ rankDir = [r \in Ranks |-> NoTask] /\ placeDir = [p \in Places |-> NoTask]
    /\ failed = NoTask
    /\ task = [t \in Tasks |-> "claim"]
    /\ native = [t \in Tasks |-> "none"]
    /\ late = [t \in Tasks |-> FALSE]

Become(t, step) == task' = [task EXCEPT ![t] = step]

\* Outside the try block: a second task of the same rank leaves no mark.
CollidedInTry(t) == "except"              \* mutant: the claim is inside the try
CollisionOutcome(t) == "refused"

AnyRank(t) == TRUE                        \* mutant: mkdir(exist_ok=True)
Claimable(t) == rankDir[assigned[t].rank] = NoTask

ClaimRank(t) ==
    /\ task[t] = "claim"
    /\ IF Claimable(t)
       THEN rankDir' = [rankDir EXCEPT ![assigned[t].rank] = t] /\ Become(t, "place")
       ELSE Become(t, CollisionOutcome(t)) /\ UNCHANGED rankDir
    /\ UNCHANGED <<assigned, placeDir, failed, native, late>>

ClaimPlace(t) ==
    /\ task[t] = "place"
    /\ IF placeDir[assigned[t].place] = NoTask
       THEN placeDir' = [placeDir EXCEPT ![assigned[t].place] = t] /\ Become(t, "check")
       ELSE Become(t, "except") /\ UNCHANGED placeDir
    /\ UNCHANGED <<assigned, rankDir, failed, native, late>>

\* A peer failed already, or the executable cannot be found.
CheckPeers(t) ==
    /\ task[t] = "check"
    /\ \/ failed = NoTask /\ Become(t, "launch")
       \/ Become(t, "except")
    /\ UNCHANGED <<assigned, rankDir, placeDir, failed, native, late>>

Launch(t) ==
    /\ task[t] = "launch"
    /\ \/ native' = [native EXCEPT ![t] = "running"] /\ Become(t, "watch")
       \/ UNCHANGED native /\ Become(t, "except")
    /\ UNCHANGED <<assigned, rankDir, placeDir, failed, late>>

NativeExits(t) ==
    /\ native[t] = "running"
    /\ \E code \in {"zero", "nonzero"} : native' = [native EXCEPT ![t] = code]
    /\ UNCHANGED <<assigned, rankDir, placeDir, failed, task, late>>

Elapse(t) ==
    /\ task[t] = "watch" /\ ~late[t]
    /\ late' = [late EXCEPT ![t] = TRUE]
    /\ UNCHANGED <<assigned, rankDir, placeDir, failed, task, native>>

PeerIgnored(t) == FALSE                   \* mutant: the marker is not polled
SeesFailure(t) == failed # NoTask

OverdueNever(t) == FALSE                  \* mutant: no deadline
Overdue(t) == late[t]

AnyExit(t) == native[t] \in {"zero", "nonzero"}     \* mutant: the code is not looked at
CleanExit(t) == native[t] = "zero"

\* One pass of the watching loop: exit code, marker, deadline, in this order.
Watch(t) ==
    /\ task[t] = "watch"
    /\ \/ CleanExit(t) /\ Become(t, "returned")
       \/ native[t] = "nonzero" /\ ~CleanExit(t) /\ Become(t, "except")
       \/ native[t] = "running" /\ (SeesFailure(t) \/ Overdue(t)) /\ Become(t, "except")
    /\ UNCHANGED <<assigned, rankDir, placeDir, failed, native, late>>

\* SIGTERM from an elastic agent unwinds like an error.
Terminated(t) ==
    /\ task[t] \in {"place", "check", "launch", "watch"}
    /\ Become(t, "except")
    /\ UNCHANGED <<assigned, rankDir, placeDir, failed, native, late>>

PublishFailure(t) ==
    /\ task[t] = "except"
    /\ failed' = IF failed = NoTask THEN t ELSE failed
    /\ Become(t, "finally")
    /\ UNCHANGED <<assigned, rankDir, placeDir, native, late>>

LeaveNative(t) == native[t]               \* mutant: finally does not stop it
AfterFinally(t) == IF native[t] = "running" THEN "stopped" ELSE native[t]

Finally(t) ==
    /\ task[t] = "finally"
    /\ native' = [native EXCEPT ![t] = AfterFinally(t)]
    /\ Become(t, "raised")
    /\ UNCHANGED <<assigned, rankDir, placeDir, failed, late>>

\* The node or the task is lost; its native process may live on.
Crash(t) ==
    /\ t \in MayCrash
    /\ task[t] \in {"claim", "place", "check", "launch", "watch", "except", "finally"}
    /\ Become(t, "crashed")
    /\ UNCHANGED <<assigned, rankDir, placeDir, failed, native, late>>

Step(t) ==
    \/ ClaimRank(t) \/ ClaimPlace(t) \/ CheckPeers(t) \/ Launch(t) \/ Watch(t)
    \/ PublishFailure(t) \/ Finally(t)

Next == \E t \in Tasks :
    Step(t) \/ NativeExits(t) \/ Elapse(t) \/ Terminated(t) \/ Crash(t)

Fairness == \A t \in Tasks :
    /\ WF_vars(Step(t))
    /\ t \notin HungNatives => WF_vars(NativeExits(t))

Spec == Init /\ [][Next]_vars /\ Fairness
TimedSpec == Spec /\ \A t \in Tasks : WF_vars(Elapse(t))

----------------------------------------------------------------------------
(* Properties                                                               *)

Started(t) == native[t] # "none"

\* Native processes of one attempt share neither a rank nor a place, whatever
\* the scheduler handed out: their NCCL ranks and devices are distinct
\* (cluster.py:137, 142).
DistinctNatives ==
    \A t, u \in Tasks : (t # u /\ Started(t) /\ Started(u)) =>
        /\ assigned[t].rank # assigned[u].rank
        /\ assigned[t].place # assigned[u].place

\* Only a task that owns its rank directory may declare the attempt failed: a
\* duplicate that is refused cannot bring the rightful rank down
\* (cluster.py:137 is outside the try block).
OnlyOwnersFailTheRun == failed # NoTask => rankDir[assigned[failed].rank] = failed

\* A task that ended by itself left no process behind (cluster.py:195-201).
NothingLeftRunning ==
    \A t \in Tasks : task[t] \in {"returned", "raised", "refused"} => native[t] # "running"

\* A published failure reaches every task that is still there, without waiting
\* for its deadline: natives blocked in a collective are stopped
\* (cluster.py:143, 180).
FailureSpreads ==
    failed # NoTask ~> \A t \in Tasks : task[t] = "crashed" \/ native[t] # "running"

\* Every task ends although a peer crashed without publishing anything and its
\* own native process hangs (cluster.py:182).
TasksEnd == <>(\A t \in Tasks : task[t] \in {"returned", "raised", "refused", "crashed"})
=============================================================================
