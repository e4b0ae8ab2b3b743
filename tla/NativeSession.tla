---------------------------- MODULE NativeSession ----------------------------
(***************************************************************************)
(* A Python NativeSession (persistent.py) that keeps one group of resident  *)
(* native workers alive between searches, and the mailbox directory it      *)
(* shares with them (resident_transport.py on this side, worker.rs on the   *)
(* other): request files, one completion receipt per rank, a stop file.     *)
(*                                                                         *)
(* Threads of the owning process call run, close, enter and exit at any     *)
(* time; workers may die at any time; the deadline of a search may pass     *)
(* while its receipts are being written; the owning process may be killed.  *)
(***************************************************************************)
EXTENDS Naturals, FiniteSets

CONSTANTS
    Threads, Ranks,
    Identities,     \* values of the tuple run() compares: graph, model, beam, ...
    MaxRuns,        \* bound: searches started
    MaxGroups,      \* bound: worker groups started
    ReapMayFail,    \* TRUE: a killed worker may still be there after its wait
    ParentMayDie    \* TRUE: the owning process may be killed

None == "none"

SessionAssumption ==
    /\ None \notin Threads /\ None \notin Identities
    /\ Threads # {} /\ Ranks # {} /\ Identities # {}
    /\ MaxRuns \in Nat /\ MaxGroups \in Nat
    /\ ReapMayFail \in BOOLEAN /\ ParentMayDie \in BOOLEAN

Groups == 1..MaxGroups
Runs == 1..MaxRuns

VARIABLES
    session,   \* NativeSession: closed, _workers, _identity, _token
    lock,      \* the thread that holds _lock
    active,    \* the ContextVar of each thread: is this session active in it
    call,      \* what each thread is doing
    group,     \* ResidentWorkers and its directory
    log,       \* log[n][r]: resident-rank-r.log in the directory of run n
    groups, runs,  \* how many were started
    parent     \* the owning process is alive

vars == <<session, lock, active, call, group, log, groups, runs, parent>>

Steps == {"idle", "acquire", "compare", "execute", "post", "poll", "collect",
          "accept", "release", "reap"}

\* After `release`: go on to execute, return to the caller, or mark the
\* session closed.  `in` tells whose close() is reaping: release or submit.
Afters == {"execute", "raise", "close"}

Idle == [pc |-> "idle", ident |-> None, run |-> 0, group |-> 0, after |-> "raise",
         in |-> "release", late |-> FALSE, reused |-> FALSE]

TypeOK ==
    /\ session \in [closed : BOOLEAN, workers : 0..MaxGroups,
                    identity : Identities \cup {None}, token : BOOLEAN]
    /\ lock \in Threads \cup {None}
    /\ active \in [Threads -> BOOLEAN]
    /\ call \in [Threads -> [pc : Steps, ident : Identities \cup {None}, run : 0..MaxRuns,
                     group : 0..MaxGroups, after : Afters, in : {"release", "submit"},
                     late : BOOLEAN, reused : BOOLEAN]]
    /\ group \in [Groups -> [ident : Identities \cup {None}, closed : BOOLEAN,
                     sequence : 0..MaxRuns, request : [0..MaxRuns -> 0..MaxRuns],
                     next : [Ranks -> 0..(MaxRuns + 1)],
                     worker : [Ranks -> {"none", "waiting", "searching", "finished", "dead"}],
                     done : SUBSET ((0..MaxRuns) \X Ranks)]]
    /\ log \in [Runs -> [Ranks -> [text : {"none", "partial", "full"},
                     ident : Identities \cup {None}]]]
    /\ \A g \in Groups : group[g].sequence <= runs
    /\ groups \in 0..MaxGroups /\ runs \in 0..MaxRuns /\ parent \in BOOLEAN

Init ==
    /\ session = [closed |-> FALSE, workers |-> 0, identity |-> None, token |-> FALSE]
    /\ lock = None
    /\ active = [t \in Threads |-> FALSE]
    /\ call = [t \in Threads |-> Idle]
    /\ group = [g \in Groups |->
          [ident |-> None, closed |-> FALSE, sequence |-> 0,
           request |-> [s \in 0..MaxRuns |-> 0], next |-> [r \in Ranks |-> 0],
           worker |-> [r \in Ranks |-> "none"], done |-> {}]]
    /\ log = [n \in Runs |-> [r \in Ranks |-> [text |-> "none", ident |-> None]]]
    /\ groups = 0 /\ runs = 0 /\ parent = TRUE

Alive(g) == {r \in Ranks : group[g].worker[r] \in {"waiting", "searching", "finished"}}
Receipts(g) == {r \in Ranks : <<group[g].sequence, r>> \in group[g].done}

At(t, step) == parent /\ call[t].pc = step
Goto(t, step) == call' = [call EXCEPT ![t].pc = step]
Return(t) == call' = [call EXCEPT ![t] = Idle] /\ lock' = None

\* An exception inside run's try block: release the workers, then raise.
Raise(t) == call' = [call EXCEPT ![t].pc = "release", ![t].after = "raise",
                                 ![t].in = "release"]

----------------------------------------------------------------------------
(* The session context                                                      *)

Enter(t) ==
    /\ At(t, "idle") /\ ~session.closed /\ ~active[t] /\ ~session.token
    /\ session' = [session EXCEPT !.token = TRUE]
    /\ active' = [active EXCEPT ![t] = TRUE]
    /\ UNCHANGED <<lock, call, group, log, groups, runs, parent>>

\* close(): refused during a search, otherwise releases the workers first.
StartClose(t) ==
    /\ ~session.closed /\ lock = None
    /\ lock' = t
    /\ call' = [call EXCEPT ![t].pc = "release", ![t].after = "close"]

Close(t) ==
    /\ At(t, "idle")
    /\ StartClose(t)
    /\ UNCHANGED <<session, active, group, log, groups, runs, parent>>

\* __exit__: the context is left whether or not close() raised.
Exit(t) ==
    /\ At(t, "idle") /\ session.token /\ active[t]
    /\ session' = [session EXCEPT !.token = FALSE]
    /\ active' = [active EXCEPT ![t] = FALSE]
    /\ \/ StartClose(t)
       \/ ~(~session.closed /\ lock = None) /\ UNCHANGED <<lock, call>>
    /\ UNCHANGED <<group, log, groups, runs, parent>>

----------------------------------------------------------------------------
(* run()                                                                    *)

\* The closed flag is read before the lock is taken.
Begin(t) ==
    /\ At(t, "idle") /\ ~session.closed /\ runs < MaxRuns
    /\ runs' = runs + 1
    /\ \E i \in Identities :
         call' = [call EXCEPT ![t] = [Idle EXCEPT !.pc = "acquire", !.ident = i,
                                                  !.run = runs + 1]]
    /\ UNCHANGED <<session, lock, active, group, log, groups, parent>>

Acquire(t) ==
    /\ At(t, "acquire")
    /\ IF lock = None THEN lock' = t /\ Goto(t, "compare")
                      ELSE call' = [call EXCEPT ![t] = Idle] /\ UNCHANGED lock
    /\ UNCHANGED <<session, active, group, log, groups, runs, parent>>

MayReuseAny(t) == session.identity # None    \* mutant: the tuple is not compared
MayReuse(t) == call[t].ident = session.identity

Compare(t) ==
    /\ At(t, "compare")
    /\ call' = [call EXCEPT
          ![t].pc = IF ~MayReuse(t) THEN "release"
                    ELSE IF session.workers = 0 THEN "execute" ELSE "post",
          ![t].after = "execute",
          ![t].group = session.workers,
          ![t].reused = MayReuse(t) /\ session.workers # 0]
    /\ UNCHANGED <<session, lock, active, group, log, groups, runs, parent>>

\* execute(): preparation and calibration, which may fail, then launch(): the
\* ranks are spawned one by one, and the constructor closes what it has if one
\* cannot be started.
SpawnGroup(t, g, spawned) ==
    group' = [group EXCEPT ![g].ident = call[t].ident,
                 ![g].worker = [r \in Ranks |-> IF r \in spawned THEN "waiting" ELSE "none"],
                 ![g].closed = (spawned # Ranks)]

Execute(t) ==
    /\ At(t, "execute")
    /\ \/ Raise(t) /\ UNCHANGED <<session, group, groups>>
       \/ /\ groups < MaxGroups
          /\ groups' = groups + 1
          /\ \E spawned \in SUBSET Ranks :
               /\ SpawnGroup(t, groups + 1, spawned)
               /\ session' = IF spawned = Ranks
                             THEN [session EXCEPT !.workers = groups + 1] ELSE session
               /\ call' = [call EXCEPT ![t].group = groups + 1, ![t].in = "submit",
                              ![t].pc = IF spawned = Ranks THEN "post" ELSE "reap"]
    /\ UNCHANGED <<lock, active, log, runs, parent>>

\* submit(): a closed group refuses; otherwise request-N.json appears whole.
Post(t) ==
    LET g == call[t].group IN
    /\ At(t, "post")
    /\ IF group[g].closed
       THEN Raise(t) /\ UNCHANGED group
       ELSE /\ group' = [group EXCEPT ![g].request[group[g].sequence] = call[t].run]
            /\ Goto(t, "poll")
    /\ UNCHANGED <<session, lock, active, log, groups, runs, parent>>

\* The exception handler of submit closes the group: the stop file, then kills.
CloseInSubmit(t) ==
    /\ group' = [group EXCEPT ![call[t].group].closed = TRUE]
    /\ call' = [call EXCEPT ![t].pc = "reap", ![t].in = "submit"]

ArrivedFromOne(g) == Receipts(g) # {}     \* mutant: the first receipt suffices
Arrived(g) == Receipts(g) = Ranks

OverdueNever(t) == FALSE                  \* mutant: the deadline is not tested
Overdue(t) == call[t].late

\* One pass of the polling loop: exited workers, receipts, deadline.  The
\* thread may also be interrupted.
Poll(t) ==
    LET g == call[t].group IN
    /\ At(t, "poll")
    /\ \/ Alive(g) # Ranks /\ CloseInSubmit(t)
       \/ Alive(g) = Ranks /\ Arrived(g) /\ Goto(t, "collect") /\ UNCHANGED group
       \/ Alive(g) = Ranks /\ ~Arrived(g) /\ Overdue(t) /\ CloseInSubmit(t)
    /\ UNCHANGED <<session, lock, active, log, groups, runs, parent>>

Interrupt(t) ==
    /\ At(t, "poll") /\ CloseInSubmit(t)
    /\ UNCHANGED <<session, lock, active, log, groups, runs, parent>>

Elapse(t) ==
    /\ At(t, "poll") /\ ~call[t].late
    /\ call' = [call EXCEPT ![t].late = TRUE]
    /\ UNCHANGED <<session, lock, active, group, log, groups, runs, parent>>

SameSequence(g) == group[g].sequence      \* mutant: the sequence is not advanced
NextSequence(g) == group[g].sequence + 1

\* The logs of all ranks are merged; a missing one raises.
Collect(t) ==
    LET g == call[t].group IN
    /\ At(t, "collect")
    /\ IF \E r \in Ranks : log[call[t].run][r].text = "none"
       THEN CloseInSubmit(t)
       ELSE /\ group' = [group EXCEPT ![g].sequence = NextSequence(g)]
            /\ Goto(t, "accept")
    /\ UNCHANGED <<session, lock, active, log, groups, runs, parent>>

\* parse_terminal and the checks of run(); then the outcome is returned.
Accept(t) ==
    /\ At(t, "accept")
    /\ \/ Raise(t) /\ UNCHANGED <<session, lock>>
       \/ /\ Return(t)
          /\ session' = IF call[t].reused THEN session
                        ELSE [session EXCEPT !.identity = call[t].ident]
    /\ UNCHANGED <<active, group, log, groups, runs, parent>>

----------------------------------------------------------------------------
(* Releasing the workers                                                    *)

\* What follows a _release() that returned.
Released(t) ==
    /\ session' = [session EXCEPT !.workers = 0, !.identity = None,
                      !.closed = session.closed \/ call[t].after = "close"]
    /\ IF call[t].after = "execute" THEN Goto(t, "execute") /\ UNCHANGED lock
                                    ELSE Return(t)

\* ResidentWorkers.close() returns at once when the group is closed already.
NothingToStop(g) == g = 0 \/ (g # 0 /\ group[g].closed)

ReleaseForgetting(t) ==      \* mutant: the handle is dropped, not closed
    /\ At(t, "release") /\ Released(t)
    /\ UNCHANGED <<active, group, log, groups, runs, parent>>

Release(t) ==
    LET g == session.workers IN
    /\ At(t, "release")
    /\ IF NothingToStop(g)
       THEN Released(t) /\ UNCHANGED group
       ELSE /\ group' = [group EXCEPT ![g].closed = TRUE]
            /\ call' = [call EXCEPT ![t].pc = "reap", ![t].group = g, ![t].in = "release"]
            /\ UNCHANGED <<session, lock>>
    /\ UNCHANGED <<active, log, groups, runs, parent>>

\* _stop_process_tree for every rank: TERM, two seconds, KILL, wait.
Survivors(g) == IF ReapMayFail THEN SUBSET Alive(g) ELSE {{}}

Reap(t) ==
    LET g == call[t].group IN
    /\ At(t, "reap")
    /\ \E left \in Survivors(g) :
         /\ group' = [group EXCEPT ![g].worker = [r \in Ranks |->
                IF group[g].worker[r] = "none" THEN "none"
                ELSE IF r \in left THEN group[g].worker[r] ELSE "dead"]]
         /\ \/ call[t].in = "submit" /\ Raise(t) /\ UNCHANGED <<session, lock>>
            \/ call[t].in = "release" /\ left = {} /\ Released(t)
            \/ /\ call[t].in = "release" /\ left # {} /\ UNCHANGED session
               /\ IF call[t].after = "execute" THEN Raise(t) /\ UNCHANGED lock
                                               ELSE Return(t)
    /\ UNCHANGED <<active, log, groups, runs, parent>>

----------------------------------------------------------------------------
(* The workers (worker.rs) and the fate of processes                        *)

ToldByFileOnly(g) == group[g].closed      \* mutant: the parent is not watched
Told(g) == group[g].closed \/ ~parent

\* A waiting worker takes request N once it exists and no stop was seen.
TakeRequest(g, r) ==
    LET n == group[g].request[group[g].next[r]] IN
    /\ group[g].worker[r] = "waiting" /\ n # 0 /\ ~Told(g)
    /\ group' = [group EXCEPT ![g].worker[r] = "searching"]
    /\ log' = [log EXCEPT ![n][r] = [text |-> "partial", ident |-> group[g].ident]]
    /\ UNCHANGED <<session, lock, active, call, groups, runs, parent>>

FinishSearch(g, r) ==
    LET n == group[g].request[group[g].next[r]] IN
    /\ group[g].worker[r] = "searching"
    /\ group' = [group EXCEPT ![g].worker[r] = "finished"]
    /\ log' = [log EXCEPT ![n][r].text = "full"]
    /\ UNCHANGED <<session, lock, active, call, groups, runs, parent>>

WriteReceipt(g, r) ==
    /\ group[g].worker[r] = "finished"
    /\ group' = [group EXCEPT ![g].worker[r] = "waiting",
                    ![g].next[r] = group[g].next[r] + 1,
                    ![g].done = group[g].done \cup {<<group[g].next[r], r>>}]
    /\ UNCHANGED <<session, lock, active, call, log, groups, runs, parent>>

\* A stop seen while waiting or in the middle of a search cancels and exits.
ObeyStop(g, r) ==
    /\ r \in Alive(g) /\ Told(g)
    /\ group' = [group EXCEPT ![g].worker[r] = "dead"]
    /\ UNCHANGED <<session, lock, active, call, log, groups, runs, parent>>

WorkerDies(g, r) ==
    /\ r \in Alive(g) /\ ~Told(g)
    /\ group' = [group EXCEPT ![g].worker[r] = "dead"]
    /\ UNCHANGED <<session, lock, active, call, log, groups, runs, parent>>

ParentDies ==
    /\ ParentMayDie /\ parent
    /\ parent' = FALSE
    /\ UNCHANGED <<session, lock, active, call, group, log, groups, runs>>

----------------------------------------------------------------------------
ThreadStep(t) ==
    \/ Acquire(t) \/ Compare(t) \/ Execute(t) \/ Post(t) \/ Poll(t)
    \/ Collect(t) \/ Accept(t) \/ Release(t) \/ Reap(t)

Next ==
    \/ \E t \in Threads : Enter(t) \/ Close(t) \/ Exit(t) \/ Begin(t)
    \/ \E t \in Threads : ThreadStep(t) \/ Interrupt(t) \/ Elapse(t)
    \/ \E g \in Groups, r \in Ranks :
         \/ TakeRequest(g, r) \/ FinishSearch(g, r) \/ WriteReceipt(g, r)
         \/ ObeyStop(g, r) \/ WorkerDies(g, r)
    \/ ParentDies

Spec == Init /\ [][Next]_vars

----------------------------------------------------------------------------
(* Properties                                                               *)

\* What run() is about to return was written for this very request, by every
\* rank, to the end, and by workers started for the identity of this call
\* (persistent.py:115-133, resident_transport.py:51-70).
AnswerBelongsToRequest ==
    \A t \in Threads : call[t].pc = "accept" =>
        \A r \in Ranks : log[call[t].run][r] = [text |-> "full", ident |-> call[t].ident]

\* Workers that a session no longer holds, and no thread is about to stop, are
\* gone: every path that drops the handle stops the processes first, the failed
\* constructor included (persistent.py:76-80, resident_transport.py:33-35).
NoStrayWorkers ==
    \A g \in Groups : Alive(g) # {} =>
        \/ session.workers = g \/ ~parent
        \/ \E t \in Threads : call[t].pc = "reap" /\ call[t].group = g

\* "Exiting the context, including on exceptions, frees all owned workers"
\* (persistent.py:25): once closed, with no call in progress, none is alive.
ClosedFreesWorkers ==
    (session.closed /\ lock = None /\ parent) => \A g \in Groups : Alive(g) = {}

\* A healthy group answers each request once: a request is not posted over one
\* that was posted before, and no receipt for it exists yet when it is posted
\* (resident_transport.py:45, 70).
PostsAfresh ==
    \A t \in Threads : call[t].pc = "post" =>
        LET g == call[t].group IN group[g].request[group[g].sequence] = 0 /\ Receipts(g) = {}
================================================================================
