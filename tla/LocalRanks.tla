------------------------------ MODULE LocalRanks ------------------------------
(***************************************************************************)
(* The launch of one search on one host (backend.py, local_launcher.py):    *)
(* native ranks are started, watched and stopped with their descendants,    *)
(* their streams are merged, and the merged log is turned into an answer.   *)
(* One rank is a plain child process (run_process); several are a cohort    *)
(* (run_local_ranks).  A line of a stream is a record.                      *)
(***************************************************************************)
EXTENDS Integers, FiniteSets, Sequences

CONSTANTS
    Paths,         \* paths a rank may print
    Solving,       \* those that replay to the goal within max_steps
    Launches       \* the launches considered: see RanksAssumption

NoPath == "none"

Terminal(p) == [kind |-> "terminal", path |-> p]
Collected(p) == [kind |-> "collected", path |-> p]
Summary(n) == [kind |-> "summary", count |-> n]
Width(w) == [kind |-> "width", width |-> w]
Garbage == [kind |-> "garbage"]

Line ==
    {Terminal(p) : p \in Paths \cup {NoPath}} \cup {Collected(p) : p \in Paths}
    \cup {Garbage} \cup {Width(w) : w \in {"requested", "fallback"}}
    \cup [kind : {"summary"}, count : Nat]

\* A launch is its number of ranks; those that ignore SIGTERM, those that SIGKILL
\* does not end within five seconds and those that have a descendant process;
\* and the lines the group of each rank is about to write.
RanksAssumption ==
    /\ Solving \subseteq Paths /\ NoPath \notin Paths
    /\ \A l \in Launches :
         /\ l.world \in Nat \ {0}
         /\ l.deaf \cup l.stuck \cup l.forking \subseteq 0..l.world - 1
         /\ l.world = 1 => l.forking = {}
         /\ l.plan \in [0..l.world - 1 -> Seq(Line)]

VARIABLES
    launch,        \* the one that is made
    pc, at,        \* the launcher, and the rank it is busy with
    leader,        \* the process started for each rank
    child,         \* a descendant is alive in its group
    stream,        \* what it wrote
    failure,       \* an exception is being raised
    overdue,       \* the timeout of the search passed
    merged,        \* native.log
    issues,        \* diagnostics of the collection
    answer

vars == <<launch, pc, at, leader, child, stream, failure, overdue, merged, issues, answer>>

World == launch.world
Deaf == launch.deaf
Stuck == launch.stuck
Forking == launch.forking
Plan(r) == launch.plan[r]

Ranks == 0..World - 1
Cohort == World > 1
Over == pc \in {"answered", "raised"}
AliveIn(r) == leader[r] = "running" \/ child[r]

TypeOK ==
    /\ pc \in {"spawn", "watch", "term", "wait", "kill", "reap", "gather",
               "strict", "parse", "answered", "raised"}
    /\ at \in 0..World
    /\ leader \in [Ranks -> {"none", "running", "zero", "nonzero"}]
    /\ child \in [Ranks -> BOOLEAN]
    /\ launch \in Launches /\ stream \in [Ranks -> Seq(Line)]
    /\ \A r \in Ranks :
         /\ Len(stream[r]) <= Len(Plan(r))
         /\ \A i \in 1..Len(stream[r]) : stream[r][i] = Plan(r)[i]
    /\ failure \in BOOLEAN /\ overdue \in BOOLEAN /\ issues \in BOOLEAN
    /\ merged \in Seq(Line)
    /\ answer \in Paths \cup {NoPath}
    /\ \A r \in Ranks : pc = "spawn" /\ r >= at => leader[r] = "none"

Init ==
    /\ launch \in Launches
    /\ pc = "spawn" /\ at = 0
    /\ leader = [r \in Ranks |-> "none"] /\ child = [r \in Ranks |-> FALSE]
    /\ stream = [r \in Ranks |-> <<>>]
    /\ failure = FALSE /\ overdue = FALSE /\ issues = FALSE
    /\ merged = <<>> /\ answer = NoPath

----------------------------------------------------------------------------
(* The native processes                                                     *)

\* A line comes from the rank's process or from a descendant of it.
WriteLine(r) ==
    /\ AliveIn(r) /\ Len(stream[r]) < Len(Plan(r))
    /\ stream' = [stream EXCEPT ![r] = Append(@, Plan(r)[Len(@) + 1])]
    /\ UNCHANGED <<launch, pc, at, leader, child, failure, overdue, merged, issues, answer>>

\* A descendant may outlive the process that was started.
ExitLeader(r) ==
    /\ leader[r] = "running"
    /\ \E code \in {"zero", "nonzero"} : leader' = [leader EXCEPT ![r] = code]
    /\ UNCHANGED <<launch, pc, at, child, stream, failure, overdue, merged, issues, answer>>

ExitChild(r) ==
    /\ child[r] /\ child' = [child EXCEPT ![r] = FALSE]
    /\ UNCHANGED <<launch, pc, at, leader, stream, failure, overdue, merged, issues, answer>>

----------------------------------------------------------------------------
(* The launcher                                                             *)

StopFrom(r) == pc' = "term" /\ at' = r

\* What happens when an exception leaves the body: a cohort is stopped from its
\* first rank on, those that were not started yet left out.
Leave == at' = 0 /\ pc' = IF Cohort THEN "gather" ELSE "raised"
NoRankStarted == pc' = "spawn" /\ at' = at + 1     \* mutant: a rank that cannot start is skipped
StopSpawned == IF at = 0 THEN Leave ELSE StopFrom(0)

Spawn ==
    /\ pc = "spawn"
    /\ \/ /\ leader' = [leader EXCEPT ![at] = "running"]
          /\ child' = [child EXCEPT ![at] = at \in Forking]
          /\ IF at + 1 = World THEN pc' = "watch" /\ at' = 0
             ELSE pc' = "spawn" /\ at' = at + 1
          /\ UNCHANGED failure
       \/ /\ failure' = TRUE /\ StopSpawned
          /\ UNCHANGED <<leader, child>>
    /\ UNCHANGED <<launch, stream, overdue, merged, issues, answer>>

Elapse ==
    /\ pc = "watch" /\ ~overdue /\ overdue' = TRUE
    /\ UNCHANGED <<launch, pc, at, leader, child, stream, failure, merged, issues, answer>>

SomeZero == \E r \in Ranks : leader[r] = "zero"   \* mutant: any instead of all
AllZero == \A r \in Ranks : leader[r] = "zero"
SomeNonzero == \E r \in Ranks : leader[r] = "nonzero"

NeverOverdue == FALSE                     \* mutant: no deadline
Overdue == overdue

Fail == failure' = TRUE /\ StopFrom(0)

\* A cohort is stopped even when every rank ended well.
WatchCohort ==
    /\ pc = "watch" /\ Cohort
    /\ \/ SomeNonzero /\ Fail
       \/ ~SomeNonzero /\ AllZero /\ StopFrom(0) /\ UNCHANGED failure
       \/ ~SomeNonzero /\ ~AllZero /\ Overdue /\ Fail
    /\ UNCHANGED <<launch, leader, child, stream, overdue, merged, issues, answer>>

\* run_process stops its child only when it failed.
WaitAlone ==
    /\ pc = "watch" /\ ~Cohort
    /\ \/ leader[0] = "nonzero" /\ Fail
       \/ leader[0] = "zero" /\ pc' = "parse" /\ UNCHANGED <<at, failure>>
       \/ leader[0] = "running" /\ Overdue /\ Fail
    /\ UNCHANGED <<launch, leader, child, stream, overdue, merged, issues, answer>>

\* The wait is interrupted (KeyboardInterrupt).
Interrupt ==
    /\ pc = "watch" /\ Fail
    /\ UNCHANGED <<launch, leader, child, stream, overdue, merged, issues, answer>>

Started(r) == leader[r] # "none"
LastStarted == CHOOSE r \in Ranks : Started(r) /\ \A q \in Ranks : q > r => ~Started(q)

\* The next rank's tree; after the last one the logs are collected.
NextTree ==
    IF at < LastStarted THEN StopFrom(at + 1) ELSE Leave

\* killpg(SIGTERM): the group is gone already, or all of it but the deaf leave.
TermGroup ==
    /\ pc = "term"
    /\ IF ~AliveIn(at) THEN NextTree /\ UNCHANGED <<leader, child>>
       ELSE /\ pc' = "wait" /\ UNCHANGED at
            /\ leader' = IF leader[at] = "running" /\ at \notin Deaf \cup Stuck
                         THEN [leader EXCEPT ![at] = "nonzero"] ELSE leader
            /\ child' \in {child, [child EXCEPT ![at] = FALSE]}
    /\ UNCHANGED <<launch, stream, failure, overdue, merged, issues, answer>>

LeaderIsEnough == leader[at] # "running"  \* mutant: SIGKILL only when it did not leave
GroupMayRemain == FALSE

\* wait(2), whatever it reports.
WaitLeader ==
    /\ pc = "wait"
    /\ IF GroupMayRemain THEN NextTree ELSE pc' = "kill" /\ UNCHANGED at
    /\ UNCHANGED <<launch, leader, child, stream, failure, overdue, merged, issues, answer>>

\* killpg(SIGKILL)
KillGroup ==
    /\ pc = "kill" /\ pc' = "reap"
    /\ leader' = IF leader[at] = "running" /\ at \notin Stuck
                 THEN [leader EXCEPT ![at] = "nonzero"] ELSE leader
    /\ child' = [child EXCEPT ![at] = FALSE]
    /\ UNCHANGED <<launch, at, stream, failure, overdue, merged, issues, answer>>

\* wait(5): its TimeoutExpired leaves the loop over the processes.
Reap ==
    /\ pc = "reap"
    /\ \/ leader[at] # "running" /\ NextTree /\ UNCHANGED failure
       \/ leader[at] = "running" /\ failure' = TRUE /\ Leave
    /\ UNCHANGED <<launch, leader, child, stream, overdue, merged, issues, answer>>

----------------------------------------------------------------------------
(* collect_worker_logs                                                      *)

\* One rank's streams; missing or unreadable ones are noted.
Gather ==
    /\ pc = "gather"
    /\ \/ Started(at) /\ merged' = merged \o stream[at] /\ UNCHANGED issues
       \/ issues' = TRUE /\ UNCHANGED merged
    /\ IF at + 1 < World THEN at' = at + 1 /\ UNCHANGED pc ELSE pc' = "strict" /\ UNCHANGED at
    /\ UNCHANGED <<launch, leader, child, stream, failure, overdue, answer>>

Lenient == TRUE                           \* mutant: diagnostics never matter
Complete == ~issues

\* Diagnostics matter only to a search that would otherwise succeed.
CheckComplete ==
    /\ pc = "strict"
    /\ pc' = IF failure \/ ~Complete THEN "raised" ELSE "parse"
    /\ failure' = (failure \/ ~Complete)
    /\ UNCHANGED <<launch, at, leader, child, stream, overdue, merged, issues, answer>>

----------------------------------------------------------------------------
(* parse_terminal                                                           *)

Lines == IF Cohort THEN merged ELSE stream[0]
At(k) == {i \in DOMAIN Lines : Lines[i].kind = k}
PathsOf(k) == {Lines[i].path : i \in At(k)}
FirstTerminal == CHOOSE i \in At("terminal") : \A j \in At("terminal") : i <= j
Result == Lines[FirstTerminal].path

\* A path is replayed on the graph of the contract, whoever printed it.
Unreplayed(p) == TRUE                     \* mutant: printed paths are trusted
Replays(p) == p \in Solving

GoodTerminals ==
    At("garbage") = {} /\ \A p \in PathsOf("terminal") : p # NoPath => Replays(p)
GoodCollected == \A p \in PathsOf("collected") : Replays(p)

FirstWins == TRUE                         \* mutant: ranks are not compared
Unanimous == \A p \in PathsOf("terminal") : p = Result

OneWidth == \A i, j \in At("width") : Lines[i].width = Lines[j].width

AnyBucket == TRUE                         \* mutant: the summary is not compared
Bucket ==
    LET found == At("collected") IN
    At("summary") # {} =>
        /\ \A i, j \in At("summary") : i = j
        /\ \A i \in At("summary") : Lines[i].count = Cardinality(found)
        /\ \A i, j \in found : Lines[i].path = Lines[j].path => i = j
        /\ (found # {}) = (Result # NoPath)
        /\ found # {} => Result \in PathsOf("collected")

Accepted ==
    /\ GoodTerminals /\ GoodCollected
    /\ At("terminal") # {} /\ Unanimous /\ OneWidth /\ Bucket

WidthNotCompared == TRUE                  \* mutant: any beam will do
WidthRequested == \A i \in At("width") : Lines[i].width = "requested"

Parse ==
    /\ pc = "parse"
    /\ IF Accepted /\ WidthRequested
       THEN pc' = "answered" /\ answer' = Result /\ UNCHANGED failure
       ELSE pc' = "raised" /\ failure' = TRUE /\ UNCHANGED answer
    /\ UNCHANGED <<launch, at, leader, child, stream, overdue, merged, issues>>

Launcher ==
    \/ Spawn \/ WatchCohort \/ WaitAlone \/ TermGroup \/ WaitLeader \/ KillGroup \/ Reap
    \/ Gather \/ CheckComplete \/ Parse

Next ==
    \/ \E r \in Ranks : WriteLine(r) \/ ExitLeader(r) \/ ExitChild(r)
    \/ Launcher \/ Interrupt \/ Elapse

\* The launcher runs and time passes; nothing is assumed of the ranks.
Spec == Init /\ [][Next]_vars /\ WF_vars(Launcher) /\ WF_vars(Elapse)

----------------------------------------------------------------------------
(* Properties                                                               *)

Answered == pc = "answered"
Printed(k) ==
    {l \in UNION {{stream[r][i] : i \in DOMAIN stream[r]} : r \in Ranks} : l.kind = k}

\* s is what the first n ranks wrote, one after the other; rank r from end[r] on.
Joins(s, n) ==
    \E end \in [0..n -> 0..Len(s)] :
        /\ end[0] = 0 /\ end[n] = Len(s)
        /\ \A r \in 0..n - 1 :
             /\ end[r + 1] = end[r] + Len(stream[r])
             /\ \A i \in 1..Len(stream[r]) : s[end[r] + i] = stream[r][i]

\* Every result any rank printed is the answer, and a path that was found leads
\* to the goal within the limit (backend.py:440-446).
AnswerAgrees ==
    Answered =>
        /\ Printed("terminal") = {Terminal(answer)}
        /\ answer # NoPath => answer \in Solving

\* An answer stands on the whole output of ranks that all ended well: nobody
\* writes after it was read, and a rank that printed an answer and failed
\* afterwards does not count (local_launcher.py:41-50, backend.py:378).
AnswerIsComplete ==
    Answered =>
        /\ \A r \in Ranks : leader[r] = "zero"
        /\ Cohort => Joins(merged, World)

\* The solutions that were collected are as many as the summary says, all
\* different, all valid, and the answer is one of them (backend.py:450-456).
CollectionAgrees ==
    Answered /\ Printed("summary") # {} =>
        LET c == {l.path : l \in Printed("collected")} IN
        /\ Printed("summary") = {Summary(Cardinality(c))}
        /\ c \subseteq Solving
        /\ answer # NoPath <=> answer \in c

\* Nobody searched with another beam than the one that was asked for
\* (backend.py:763).
BeamAsRequested == Answered => Printed("width") \subseteq {Width("requested")}

\* When the call is over no process of a search that was a cohort, or failed,
\* is alive, descendants included, unless one cannot be killed
\* (backend.py:276-297, local_launcher.py:48-51).
NothingLeft == Over /\ Stuck = {} /\ (Cohort \/ failure) => \A r \in Ranks : ~AliveIn(r)

\* Deaf, silent and endless ranks do not keep the caller (local_launcher.py:45).
CallEnds == <>Over

\* A rank that can be killed is not left because another one cannot
\* (local_launcher.py:48-51).
OthersStopped == Over => \A r \in Ranks \ Stuck : ~AliveIn(r)
=============================================================================
