-------------------------------- MODULE Ranks --------------------------------
(***************************************************************************)
(* The processes of one search: the ranks the launcher starts on this       *)
(* machine (LocalRanks) and the tasks a scheduler starts on the nodes of a  *)
(* cluster (ClusterRanks).  They share no state, so a behaviour is one of   *)
(* them; `part` says which: in "timed" the deadlines of the tasks pass, in  *)
(* "untimed" they need not.                                                 *)
(***************************************************************************)
EXTENDS Integers, FiniteSets, Sequences

CONSTANTS
    Paths, Solving, Launches,                                            \* LocalRanks
    Tasks, RankNumbers, Places, MayCrash, HungNatives                    \* ClusterRanks

VARIABLES
    part,
    launch, pc, at, leader, child, stream, failure, overdue, merged, issues, answer,
    assigned, rankDir, placeDir, failed, task, native, late

localVars ==
    <<launch, pc, at, leader, child, stream, failure, overdue, merged, issues, answer>>
clusterVars == <<assigned, rankDir, placeDir, failed, task, native, late>>
allVars == <<part, localVars, clusterVars>>

----------------------------------------------------------------------------
Launching == INSTANCE LocalRanks
Scheduling == INSTANCE ClusterRanks WITH Ranks <- RankNumbers

ASSUME LocalAssumption == Launching!RanksAssumption
ASSUME TasksAssumption == Scheduling!ClusterAssumption

ClusterParts == {"untimed", "timed"}

\* The variables of a part that is not there.
None == "absent"
NoLocal ==
    /\ launch = None /\ pc = None /\ at = None /\ leader = None /\ child = None
    /\ stream = None /\ failure = None /\ overdue = None /\ merged = None
    /\ issues = None /\ answer = None
NoCluster ==
    /\ assigned = None /\ rankDir = None /\ placeDir = None /\ failed = None
    /\ task = None /\ native = None /\ late = None

Init ==
    \/ part = "local" /\ Launching!Init /\ NoCluster
    \/ part \in ClusterParts /\ Scheduling!Init /\ NoLocal

LaunchStep == part = "local" /\ Launching!Next /\ UNCHANGED <<part, clusterVars>>
ClusterStep == part \in ClusterParts /\ Scheduling!Next /\ UNCHANGED <<part, localVars>>

Next == LaunchStep \/ ClusterStep

\* The fairness of the parts; deadlines pass on this machine and in "timed".
LaunchFairness ==
    /\ WF_allVars(part = "local" /\ Launching!Launcher /\ UNCHANGED <<part, clusterVars>>)
    /\ WF_allVars(part = "local" /\ Launching!Elapse /\ UNCHANGED <<part, clusterVars>>)

ClusterFairness ==
    \A t \in Tasks :
        /\ WF_allVars(part \in ClusterParts /\ Scheduling!Step(t) /\ UNCHANGED <<part, localVars>>)
        /\ WF_allVars(part = "timed" /\ Scheduling!Elapse(t) /\ UNCHANGED <<part, localVars>>)

Spec == Init /\ [][Next]_allVars /\ LaunchFairness /\ ClusterFairness

----------------------------------------------------------------------------
(* Properties                                                               *)

\* An answer agrees with every line any rank printed: the results are the same
\* and replay, the collected solutions are those the summary counts, the beam is
\* the requested one (backend.py:440-456, 763).  It stands on the whole output of
\* ranks that all ended well, and a call that is over leaves no process of a
\* cohort or a failed search alive, unless one cannot be killed
\* (local_launcher.py:41-51, backend.py:276-297, 378).
LaunchHolds ==
    part = "local" =>
        /\ Launching!TypeOK
        /\ Launching!AnswerAgrees /\ Launching!CollectionAgrees /\ Launching!BeamAsRequested
        /\ Launching!AnswerIsComplete /\ Launching!NothingLeft

\* Whatever a scheduler hands out twice, the native processes of an attempt have
\* distinct ranks and places, a refused duplicate does not fail the rightful
\* rank, and no task that ends by itself leaves its process (cluster.py:137-201).
OnlyOwners ==
    part \in ClusterParts =>
        /\ Scheduling!TypeOK
        /\ Scheduling!DistinctNatives
        /\ Scheduling!OnlyOwnersFailTheRun
        /\ Scheduling!NothingLeftRunning

NoNativeBlocked == \A t \in Tasks : task[t] = "crashed" \/ native[t] # "running"

\* A call ends although ranks are deaf, silent or endless
\* (local_launcher.py:45); a published failure stops the natives of all tasks,
\* and with deadlines every task ends although a peer crashed silently
\* (cluster.py:143, 180-182).
RanksEnd ==
    /\ <>(part = "local" => pc \in {"answered", "raised"})
    /\ (part \in ClusterParts /\ failed # None /\ failed # "none")
         ~> (part \in ClusterParts /\ NoNativeBlocked)
    /\ <>(part = "timed" =>
            \A t \in Tasks : task[t] \in {"returned", "raised", "refused", "crashed"})
=============================================================================
