------------------------------- MODULE Sessions -------------------------------
(***************************************************************************)
(* What keeps engines alive between searches: a session of Python with its  *)
(* resident workers (NativeSession), in "single" with one thread whose      *)
(* process may be killed, in "shared" with several threads that call        *)
(* anything at any time; and the C interface of the same engine             *)
(* (EngineControl), "library".  A worker runs the engine in a process of    *)
(* its own, so they share no state: `part` says which one a behaviour is.   *)
(***************************************************************************)
EXTENDS Naturals, FiniteSets

CONSTANTS
    Owner, Ranks,           \* the thread of a session it has to itself, and its workers
    Threads, Workers,       \* threads that share a session, and its workers
    Identities, MaxRuns, MaxGroups,
    MaxContexts, MaxJobs    \* of the library, which the same threads use

VARIABLES part,
    session, lock, active, call, group, log, groups, runs, parent,
    occupied, contexts, control, engine, client, ran, accepted

sessionVars == <<session, lock, active, call, group, log, groups, runs, parent>>
libraryVars == <<occupied, contexts, control, engine, client, ran, accepted>>
allVars == <<part, sessionVars, libraryVars>>

----------------------------------------------------------------------------
Single == INSTANCE NativeSession WITH
    Threads <- {Owner}, ReapMayFail <- FALSE, ParentMayDie <- TRUE
Shared == INSTANCE NativeSession WITH
    Ranks <- Workers, ReapMayFail <- FALSE, ParentMayDie <- FALSE
Library == INSTANCE EngineControl WITH Clients <- Threads

ASSUME SingleAssumption == Single!SessionAssumption
ASSUME SharedAssumption == Shared!SessionAssumption
ASSUME LibraryAssumption == Library!ControlAssumption

\* The variables of a part that is not there.
None == "absent"
NoSession ==
    /\ session = None /\ lock = None /\ active = None /\ call = None /\ group = None
    /\ log = None /\ groups = None /\ runs = None /\ parent = None
NoLibrary ==
    /\ occupied = None /\ contexts = None /\ control = None /\ engine = None
    /\ client = None /\ ran = None /\ accepted = None

Init ==
    \/ part = "single" /\ Single!Init /\ NoLibrary
    \/ part = "shared" /\ Shared!Init /\ NoLibrary
    \/ part = "library" /\ Library!Init /\ NoSession

SingleStep == part = "single" /\ Single!Next /\ UNCHANGED <<part, libraryVars>>
SharedStep == part = "shared" /\ Shared!Next /\ UNCHANGED <<part, libraryVars>>
LibraryStep == part = "library" /\ Library!Next /\ UNCHANGED <<part, sessionVars>>

Next == SingleStep \/ SharedStep \/ LibraryStep

\* A thread that is in a call goes on, the clock runs, a worker that is told to
\* stop stops, and so does the engine, of which there is one at a time: fairness
\* for the parts whose calls are followed to their end.
InSingle(Step) == part = "single" /\ Step /\ UNCHANGED <<part, libraryVars>>
InLibrary(Step) == part = "library" /\ Step /\ UNCHANGED <<part, sessionVars>>
Fairness ==
    /\ WF_allVars(InSingle(Single!ThreadStep(Owner)))
    /\ WF_allVars(InSingle(Single!Elapse(Owner)))
    /\ \A g \in Single!Groups, r \in Ranks : WF_allVars(InSingle(Single!ObeyStop(g, r)))
    /\ \A t \in Threads : WF_allVars(InLibrary(Library!Look(t) \/ Library!Join(t)))
    /\ WF_allVars(InLibrary(\E c \in Library!Contexts : Library!Engine(c)))

Spec == Init /\ [][Next]_allVars /\ Fairness

----------------------------------------------------------------------------
(* Properties                                                               *)

\* What run() is about to return was written for this very request, by every
\* rank, to the end, and by workers started for the identity of this call; no
\* request is posted over an earlier one or where a receipt lies already
\* (persistent.py:115-133, resident_transport.py:46-72).
AnswerBelongsToRequest ==
    /\ part = "single" => Single!AnswerBelongsToRequest /\ Single!PostsAfresh
    /\ part = "shared" => Shared!AnswerBelongsToRequest /\ Shared!PostsAfresh

\* Workers that a session no longer holds, and no thread is about to stop, are
\* gone: every path that drops the handle stops the processes first, the failed
\* constructor included (persistent.py:76-80, resident_transport.py:33-35).
\* "Exiting the context, including on exceptions, frees all owned workers"
\* (persistent.py:25): once closed by its only user, none is alive.
NoStrayWorkers ==
    /\ part = "single" =>
         Single!TypeOK /\ Single!NoStrayWorkers /\ Single!ClosedFreesWorkers
    /\ part = "shared" => Shared!TypeOK /\ Shared!NoStrayWorkers

\* A wait that returns BEAM_OK has outlasted every job submitted before it, and
\* no job is counted as completed before it ran or runs without a submission
\* (engine_control.hpp:33-49, beam_native.cpp:99-135).  Only one engine runs in
\* the process, and none when its context is gone: the flag is given back after
\* the join (beam_native.cpp:56-63, 167-192).
JobsAsAnswered == part = "library" => Library!JobsAsAnswered /\ Library!OneEngine

\* Who is in a call, or waits for an engine that ends; workers whose owner was
\* killed, and an engine that was told to stop.
Waiting(t) ==
    CASE part = "single" -> t = Owner /\ call[Owner].pc # "idle" /\ parent
      [] part = "library" -> t \in Threads /\ Library!MustReturn(t)
      [] OTHER -> FALSE
Doomed(n) ==
    CASE part = "single" -> n \in Single!Groups /\ ~parent /\ Single!Alive(n) # {}
      [] part = "library" -> n \in Library!Contexts /\ Library!MustStop(n)
      [] OTHER -> FALSE

\* Every call ends, by an answer or an exception, and gives the lock back: a
\* worker that never answers meets the deadline (resident_transport.py:64).
\* Workers do not outlive a killed owner (worker.rs:63).  A cancelled engine
\* ends, and with it the waits and the destroy (beam_native.cpp:147-176).
CallsEnd ==
    /\ \A t \in Threads \cup {Owner} : Waiting(t) ~> ~Waiting(t)
    /\ \A n \in Single!Groups \cup Library!Contexts : Doomed(n) ~> ~Doomed(n)
================================================================================
