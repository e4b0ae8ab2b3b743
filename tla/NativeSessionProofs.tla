--------------------------- MODULE NativeSessionProofs ---------------------------
(***************************************************************************)
(* The session that keeps native workers alive between searches, for any    *)
(* number of threads, ranks, searches and worker groups.                    *)
(***************************************************************************)
EXTENDS NativeSession, FiniteSetTheorems, TLAPS

SessionState == [closed : BOOLEAN, workers : 0..MaxGroups,
                 identity : Identities \cup {None}, token : BOOLEAN]
CallState == [pc : Steps, ident : Identities \cup {None}, run : 0..MaxRuns,
              group : 0..MaxGroups, after : Afters, in : {"release", "submit"},
              late : BOOLEAN, reused : BOOLEAN]
WorkerStates == {"none", "waiting", "searching", "finished", "dead"}
Receipt == (0..MaxRuns) \X Ranks
GroupState == [ident : Identities \cup {None}, closed : BOOLEAN, sequence : 0..MaxRuns,
               request : [0..MaxRuns -> 0..MaxRuns], next : [Ranks -> 0..(MaxRuns + 1)],
               worker : [Ranks -> WorkerStates], done : SUBSET Receipt]
LogState == [text : {"none", "partial", "full"}, ident : Identities \cup {None}]

Seqs == 0..MaxRuns

\* The lock is held by the one call past _acquire_group.
LockInv == \A t \in Threads : lock = t <=> ~(call[t].pc \in {"idle", "acquire"})

Submitting == {"post", "poll", "collect", "accept"}

\* A thread whose search is not posted and may still be.
Unposted(t) ==
    \/ call[t].pc \in {"acquire", "compare", "execute", "post"}
    \/ call[t].pc \in {"release", "reap"} /\ call[t].in = "release" /\ call[t].after = "execute"

\* A search keeps its run until it returns, and no two searches share one.
RunsInv ==
    /\ \A t \in Threads :
         /\ call[t].run <= runs
         /\ call[t].pc = "idle" => call[t] = Idle
         /\ Unposted(t) \/ call[t].pc \in Submitting => call[t].run # 0 /\ call[t].ident # None
         /\ call[t].after = "close" => call[t].pc \in {"release", "reap"} /\ call[t].in = "release"
         /\ call[t].pc \in {"idle", "acquire", "compare", "execute", "release"} =>
              call[t].in = "release"
    /\ \A t, u \in Threads : call[t].run = call[u].run /\ call[t].run # 0 => t = u

\* A search is posted at one sequence of one group at most.
PostedInv ==
    /\ \A g \in Groups, s \in Seqs : group[g].request[s] <= runs
    /\ \A g, h \in Groups, s, k \in Seqs :
          group[g].request[s] = group[h].request[k] /\ group[g].request[s] # 0 => g = h /\ s = k
    /\ \A t \in Threads : Unposted(t) =>
          \A g \in Groups, s \in Seqs : group[g].request[s] # call[t].run

Full(i) == [text |-> "full", ident |-> i]
Partial(i) == [text |-> "partial", ident |-> i]

\* A group not started yet has no worker, and nothing was posted to it.
Unstarted(g) == g > groups =>
    /\ group[g].sequence = 0 /\ \A s \in Seqs : group[g].request[s] = 0
    /\ \A r \in Ranks : group[g].next[r] = 0 /\ group[g].worker[r] = "none"

\* Requests are posted in order, and a worker is at most one ahead.
InOrder(g) == \A s \in Seqs :
    /\ s < group[g].sequence => group[g].request[s] # 0
    /\ s > group[g].sequence => group[g].request[s] = 0
InTurn(g, r) ==
    group[g].sequence <= group[g].next[r] /\ group[g].next[r] <= group[g].sequence + 1

\* A receipt is written once the log of its request is whole.
Receipted(g, r) == \A s \in Seqs :
    /\ <<s, r>> \in group[g].done <=> s < group[g].next[r]
    /\ s < group[g].next[r] => group[g].request[s] # 0
    /\ s < group[g].next[r] => log[group[g].request[s]][r] = Full(group[g].ident)

\* What a worker searches was requested, and its log is its own.
Written(g, r) == IF group[g].worker[r] = "searching" THEN Partial(group[g].ident)
                                                    ELSE Full(group[g].ident)
Searching(g, r) == group[g].worker[r] \in {"searching", "finished"} =>
    /\ group[g].next[r] \in Seqs /\ group[g].request[group[g].next[r]] # 0
    /\ log[group[g].request[group[g].next[r]]][r] = Written(g, r)

WorkersInv == \A g \in Groups :
    /\ Unstarted(g) /\ InOrder(g)
    /\ \A r \in Ranks : InTurn(g, r) /\ Receipted(g, r) /\ Searching(g, r)

\* The request at hand is posted: until its answer is collected or the group dropped.
InFlight(t) ==
    \/ call[t].pc \in {"poll", "collect"}
    \/ call[t].pc = "reap" /\ call[t].in = "submit"
    \/ call[t].pc = "release" /\ call[t].after = "raise" /\ group[session.workers].closed

\* What a call past the lock knows of the group it holds.
CallFits(t) == LET g == call[t].group IN
      /\ call[t].pc \in Submitting =>
            g = session.workers /\ g # 0 /\ group[g].ident = call[t].ident
      /\ call[t].pc \in {"poll", "collect"} => group[g].request[group[g].sequence] = call[t].run
      /\ call[t].pc = "collect" => Receipts(g) = Ranks
      /\ call[t].pc = "accept" =>
            group[g].sequence > 0 /\ group[g].request[group[g].sequence - 1] = call[t].run
      /\ call[t].pc = "execute" => session.workers = 0
      /\ call[t].pc = "reap" =>
            /\ g # 0 /\ group[g].closed
            /\ call[t].in = "release" => g = session.workers
            /\ call[t].in = "submit" => session.workers \in {0, g}

CallInv == \A t \in Threads : CallFits(t)

\* Nothing is posted at the sequence the held group is at.
Clear == group[session.workers].request[group[session.workers].sequence] = 0

\* Only started groups are named; the identity kept is that of the group held, which
\* is clear while no search is in flight.
Started == /\ \A t \in Threads : call[t].group <= groups
           /\ session.workers <= groups
Held == /\ session.workers = 0 => session.identity = None
        /\ session.identity # None => group[session.workers].ident = session.identity
Emptied == session.workers # 0 /\ (\A t \in Threads : ~InFlight(t)) => Clear

HandleInv == /\ Started /\ Held /\ Emptied

\* Every live worker is held by the session or being reaped.
StrayInv ==
    parent => \A g \in Groups : Alive(g) # {} =>
        \/ session.workers = g /\ ~group[g].closed
        \/ \E t \in Threads : call[t].pc = "reap" /\ call[t].group = g

SessionInv == /\ LockInv /\ RunsInv /\ PostedInv /\ WorkersInv /\ CallInv /\ HandleInv
----------------------------------------------------------------------------
(* Types.                                                                   *)

\* A field of the record of one call changes and the calls keep their type.
LEMMA CallsPc ==
    ASSUME NEW f \in [Threads -> CallState], NEW t \in Threads, NEW p \in Steps
    PROVE  [f EXCEPT ![t].pc = p] \in [Threads -> CallState]
BY DEF CallState

LEMMA CallsAfter ==
    ASSUME NEW f \in [Threads -> CallState], NEW t \in Threads, NEW a \in Afters
    PROVE  [f EXCEPT ![t].after = a] \in [Threads -> CallState]
BY DEF CallState

LEMMA CallsIn ==
    ASSUME NEW f \in [Threads -> CallState], NEW t \in Threads, NEW w \in {"release", "submit"}
    PROVE  [f EXCEPT ![t].in = w] \in [Threads -> CallState]
BY DEF CallState

LEMMA CallsGroup ==
    ASSUME NEW f \in [Threads -> CallState], NEW t \in Threads, NEW n \in 0..MaxGroups
    PROVE  [f EXCEPT ![t].group = n] \in [Threads -> CallState]
BY DEF CallState

LEMMA CallsLate ==
    ASSUME NEW f \in [Threads -> CallState], NEW t \in Threads, NEW b \in BOOLEAN
    PROVE  [f EXCEPT ![t].late = b] \in [Threads -> CallState]
BY DEF CallState

LEMMA CallsReused ==
    ASSUME NEW f \in [Threads -> CallState], NEW t \in Threads, NEW b \in BOOLEAN
    PROVE  [f EXCEPT ![t].reused = b] \in [Threads -> CallState]
BY DEF CallState

\* The changes of several fields the actions make at once (_acquire_group,
\* _release, transport.run).
LEMMA CallsPcAfter ==
    ASSUME NEW f \in [Threads -> CallState], NEW t \in Threads, NEW p \in Steps, NEW a \in Afters
    PROVE  [f EXCEPT ![t].pc = p, ![t].after = a] \in [Threads -> CallState]
<1> DEFINE f1 == [f EXCEPT ![t].pc = p]
<1>1. f1 \in [Threads -> CallState]  BY CallsPc, Zenon
<1> HIDE DEF f1
<1>2. [f1 EXCEPT ![t].after = a] \in [Threads -> CallState]  BY <1>1, CallsAfter, Zenon
<1> QED  BY <1>2, Zenon DEF f1

LEMMA CallsPcIn ==
    ASSUME NEW f \in [Threads -> CallState], NEW t \in Threads, NEW p \in Steps,
           NEW w \in {"release", "submit"}
    PROVE  [f EXCEPT ![t].pc = p, ![t].in = w] \in [Threads -> CallState]
<1> DEFINE f1 == [f EXCEPT ![t].pc = p]
<1>1. f1 \in [Threads -> CallState]  BY CallsPc, Zenon
<1> HIDE DEF f1
<1>2. [f1 EXCEPT ![t].in = w] \in [Threads -> CallState]  BY <1>1, CallsIn, Zenon
<1> QED  BY <1>2, Zenon DEF f1

LEMMA CallsRaise ==
    ASSUME NEW f \in [Threads -> CallState], NEW t \in Threads, NEW p \in Steps, NEW a \in Afters,
           NEW w \in {"release", "submit"}
    PROVE  [f EXCEPT ![t].pc = p, ![t].after = a, ![t].in = w] \in [Threads -> CallState]
<1> DEFINE f1 == [f EXCEPT ![t].pc = p]
<1>1. f1 \in [Threads -> CallState]  BY CallsPc, Zenon
<1> HIDE DEF f1
<1> DEFINE f2 == [f1 EXCEPT ![t].after = a]
<1>2. f2 \in [Threads -> CallState]  BY <1>1, CallsAfter, Zenon
<1> HIDE DEF f2
<1>3. [f2 EXCEPT ![t].in = w] \in [Threads -> CallState]  BY <1>2, CallsIn, Zenon
<1> QED  BY <1>3, Zenon DEF f1, f2

LEMMA CallsSpawn ==
    ASSUME NEW f \in [Threads -> CallState], NEW t \in Threads, NEW p \in Steps,
           NEW w \in {"release", "submit"},
           NEW n \in 0..MaxGroups
    PROVE  [f EXCEPT ![t].group = n, ![t].in = w, ![t].pc = p] \in [Threads -> CallState]
<1> DEFINE f1 == [f EXCEPT ![t].group = n]
<1>1. f1 \in [Threads -> CallState]  BY CallsGroup, Zenon
<1> HIDE DEF f1
<1> DEFINE f2 == [f1 EXCEPT ![t].in = w]
<1>2. f2 \in [Threads -> CallState]  BY <1>1, CallsIn, Zenon
<1> HIDE DEF f2
<1>3. [f2 EXCEPT ![t].pc = p] \in [Threads -> CallState]  BY <1>2, CallsPc, Zenon
<1> QED  BY <1>3, Zenon DEF f1, f2

LEMMA CallsReap ==
    ASSUME NEW f \in [Threads -> CallState], NEW t \in Threads, NEW p \in Steps,
           NEW w \in {"release", "submit"},
           NEW n \in 0..MaxGroups
    PROVE  [f EXCEPT ![t].pc = p, ![t].group = n, ![t].in = w] \in [Threads -> CallState]
<1> DEFINE f1 == [f EXCEPT ![t].pc = p]
<1>1. f1 \in [Threads -> CallState]  BY CallsPc, Zenon
<1> HIDE DEF f1
<1> DEFINE f2 == [f1 EXCEPT ![t].group = n]
<1>2. f2 \in [Threads -> CallState]  BY <1>1, CallsGroup, Zenon
<1> HIDE DEF f2
<1>3. [f2 EXCEPT ![t].in = w] \in [Threads -> CallState]  BY <1>2, CallsIn, Zenon
<1> QED  BY <1>3, Zenon DEF f1, f2

LEMMA CallsCompare ==
    ASSUME NEW f \in [Threads -> CallState], NEW t \in Threads, NEW p \in Steps, NEW a \in Afters,
           NEW n \in 0..MaxGroups, NEW b \in BOOLEAN
    PROVE  [f EXCEPT ![t].pc = p, ![t].after = a, ![t].group = n, ![t].reused = b]
             \in [Threads -> CallState]
<1> DEFINE f1 == [f EXCEPT ![t].pc = p]
<1>1. f1 \in [Threads -> CallState]  BY CallsPc, Zenon
<1> HIDE DEF f1
<1> DEFINE f2 == [f1 EXCEPT ![t].after = a]
<1>2. f2 \in [Threads -> CallState]  BY <1>1, CallsAfter, Zenon
<1> HIDE DEF f2
<1> DEFINE f3 == [f2 EXCEPT ![t].group = n]
<1>3. f3 \in [Threads -> CallState]  BY <1>2, CallsGroup, Zenon
<1> HIDE DEF f3
<1>4. [f3 EXCEPT ![t].reused = b] \in [Threads -> CallState]  BY <1>3, CallsReused, Zenon
<1> QED  BY <1>4, Zenon DEF f1, f2, f3

\* A call that is over is one of the records of a call.
LEMMA IdleTyped ==
    ASSUME SessionAssumption, NEW a \in BOOLEAN
    PROVE  [pc |-> "idle", ident |-> None, run |-> 0, group |-> 0, after |-> "raise",
            in |-> "release", late |-> a, reused |-> a] \in CallState
BY DEF CallState, SessionAssumption, Steps, Afters

\* The same of one field of a group: its flag, a request, its sequence, its workers.
LEMMA GroupsClosed ==
    ASSUME NEW f \in [Groups -> GroupState], NEW g \in Groups, NEW b \in BOOLEAN
    PROVE  [f EXCEPT ![g].closed = b] \in [Groups -> GroupState]
BY DEF GroupState

LEMMA GroupsRequest ==
    ASSUME NEW f \in [Groups -> GroupState], NEW g \in Groups, NEW s \in 0..MaxRuns,
           NEW n \in 0..MaxRuns
    PROVE  [f EXCEPT ![g].request[s] = n] \in [Groups -> GroupState]
BY DEF GroupState

LEMMA GroupsSequence ==
    ASSUME NEW f \in [Groups -> GroupState], NEW g \in Groups, NEW s \in 0..MaxRuns
    PROVE  [f EXCEPT ![g].sequence = s] \in [Groups -> GroupState]
BY DEF GroupState

LEMMA GroupsWorkers ==
    ASSUME NEW f \in [Groups -> GroupState], NEW g \in Groups, NEW v \in [Ranks -> WorkerStates]
    PROVE  [f EXCEPT ![g].worker = v] \in [Groups -> GroupState]
BY DEF GroupState

\* The fields a group gets when it is started, and those of a receipt.
LEMMA GroupsSpawn ==
    ASSUME NEW f \in [Groups -> GroupState], NEW g \in Groups, NEW b \in BOOLEAN,
           NEW i \in Identities \cup {None}, NEW v \in [Ranks -> WorkerStates]
    PROVE  [f EXCEPT ![g].ident = i, ![g].worker = v, ![g].closed = b] \in [Groups -> GroupState]
<1> USE DEF GroupState
<1> DEFINE fi == [f EXCEPT ![g].ident = i]
           fw == [fi EXCEPT ![g].worker = v]
<1>1. fi \in [Groups -> GroupState]  OBVIOUS
<1> HIDE DEF fi
<1>2. fw \in [Groups -> GroupState]  BY <1>1
<1> HIDE DEF fw
<1>3. [fw EXCEPT ![g].closed = b] \in [Groups -> GroupState]  BY <1>2
<1> QED  BY <1>3, Zenon DEF fi, fw

LEMMA GroupsWorker ==
    ASSUME NEW f \in [Groups -> GroupState], NEW g \in Groups, NEW r \in Ranks,
           NEW w \in WorkerStates
    PROVE  [f EXCEPT ![g].worker[r] = w] \in [Groups -> GroupState]
BY DEF GroupState

LEMMA GroupsReceipt ==
    ASSUME NEW f \in [Groups -> GroupState], NEW g \in Groups, NEW r \in Ranks,
           NEW k \in 0..(MaxRuns + 1), NEW w \in WorkerStates, NEW d \in SUBSET Receipt
    PROVE  [f EXCEPT ![g].worker[r] = w, ![g].next[r] = k, ![g].done = d] \in [Groups -> GroupState]
<1> USE DEF GroupState
<1> DEFINE fw == [f EXCEPT ![g].worker[r] = w]
           fn == [fw EXCEPT ![g].next[r] = k]
<1>1. fw \in [Groups -> GroupState]  OBVIOUS
<1> HIDE DEF fw
<1>2. fn \in [Groups -> GroupState]  BY <1>1
<1> HIDE DEF fn
<1>3. [fn EXCEPT ![g].done = d] \in [Groups -> GroupState]  BY <1>2
<1> QED  BY <1>3, Zenon DEF fw, fn

\* The same of one field of the session, and of the three _release resets.
LEMMA SessionToken ==
    ASSUME session \in SessionState, NEW b \in BOOLEAN
    PROVE  [session EXCEPT !.token = b] \in SessionState
BY DEF SessionState

LEMMA SessionWorkers ==
    ASSUME session \in SessionState, NEW n \in 0..MaxGroups
    PROVE  [session EXCEPT !.workers = n] \in SessionState
BY DEF SessionState

LEMMA SessionIdentity ==
    ASSUME session \in SessionState, NEW i \in Identities
    PROVE  [session EXCEPT !.identity = i] \in SessionState
BY DEF SessionState

LEMMA SessionReset ==
    ASSUME SessionAssumption, session \in SessionState, NEW b \in BOOLEAN
    PROVE  [session EXCEPT !.workers = 0, !.identity = None, !.closed = b] \in SessionState
<1> USE DEF SessionState
<1> DEFINE sw == [session EXCEPT !.workers = 0]
           si == [sw EXCEPT !.identity = None]
<1>1. sw \in SessionState  BY DEF SessionAssumption
<1> HIDE DEF sw
<1>2. si \in SessionState  BY <1>1
<1> HIDE DEF si
<1>3. [si EXCEPT !.closed = b] \in SessionState  BY <1>2
<1> QED  BY <1>3, Zenon DEF sw, si

\* A call that has just begun.
LEMMA BeginTyped ==
    ASSUME SessionAssumption, NEW i \in Identities, NEW n \in 0..MaxRuns
    PROVE  [Idle EXCEPT !.pc = "acquire", !.ident = i, !.run = n] \in CallState
<1> DEFINE ip == [Idle EXCEPT !.pc = "acquire"]
           ii == [ip EXCEPT !.ident = i]
<1>1. Idle \in CallState  BY IdleTyped, Zenon DEF Idle
<1>2. ip \in CallState  BY <1>1 DEF CallState, Steps
<1> HIDE DEF ip
<1>3. ii \in CallState  BY <1>2 DEF CallState
<1> HIDE DEF ii
<1>4. [ii EXCEPT !.run = n] \in CallState  BY <1>3 DEF CallState
<1> QED  BY <1>4, Zenon DEF ip, ii

\* An entry of a log, and a log made whole.
LEMMA LogPut ==
    ASSUME log \in [Runs -> [Ranks -> LogState]], NEW n \in Runs, NEW r \in Ranks,
           NEW e \in LogState
    PROVE  [log EXCEPT ![n][r] = e] \in [Runs -> [Ranks -> LogState]]
OBVIOUS

LEMMA LogFull ==
    ASSUME log \in [Runs -> [Ranks -> LogState]], NEW n \in Runs, NEW r \in Ranks
    PROVE  [log EXCEPT ![n][r].text = "full"] \in [Runs -> [Ranks -> LogState]]
BY DEF LogState

\* The types of the variables.
Types ==
    /\ session \in SessionState /\ lock \in Threads \cup {None}
    /\ active \in [Threads -> BOOLEAN]
    /\ call \in [Threads -> CallState]
    /\ group \in [Groups -> GroupState]
    /\ log \in [Runs -> [Ranks -> LogState]]
    /\ groups \in 0..MaxGroups /\ runs \in 0..MaxRuns /\ parent \in BOOLEAN

\* Requests of one group are searches of their own: no more of them than searches.
LEMMA RequestsCounted ==
    ASSUME SessionAssumption, Types, PostedInv, NEW g \in Groups, NEW k \in 0..(MaxRuns + 1),
           \A s \in 0..(k - 1) : group[g].request[s] # 0
    PROVE  k <= runs
<1> DEFINE f == [s \in 0..(k - 1) |-> group[g].request[s]]
<1>1. k \in Nat /\ runs \in Nat /\ MaxRuns \in Nat  BY DEF Types, SessionAssumption
<1>2. \A s \in 0..(k - 1) : s \in Seqs  BY <1>1 DEF Seqs
<1>3. \A s \in Seqs : group[g].request[s] \in 0..MaxRuns  BY DEF Types, GroupState, Seqs
<1>4. \A s \in Seqs : group[g].request[s] <= runs  BY DEF PostedInv
<1>5. \A s \in 0..(k - 1) : group[g].request[s] \in 1..runs  BY <1>1, <1>2, <1>3, <1>4
<1>6. f \in [0..(k - 1) -> 1..runs]  BY <1>5
<1>7. ASSUME NEW x \in 0..(k - 1), NEW y \in 0..(k - 1), f[x] = f[y]  PROVE x = y
  BY <1>2, <1>7 DEF PostedInv
<1>8. /\ IsFiniteSet(0..(k - 1)) /\ Cardinality(0..(k - 1)) = k
      /\ IsFiniteSet(1..runs) /\ Cardinality(1..runs) = runs
  <2>1. \A a, b \in Int : IsFiniteSet(a..b) /\ Cardinality(a..b) = IF a > b THEN 0 ELSE b - a + 1
    BY FS_Interval
  <2> QED  BY <1>1, <2>1
<1>9. ASSUME runs < k  PROVE FALSE
  <2> HIDE DEF f
  <2>1. Cardinality(1..runs) < Cardinality(0..(k - 1))  BY <1>8, <1>9
  <2>2. \E x, y \in 0..(k - 1) : x # y /\ f[x] = f[y]
    BY <1>6, <1>8, <2>1, FS_PigeonHole, Zenon
  <2> QED  BY <2>2, <1>7
<1> QED  BY <1>1, <1>9

\* A worker that may still take or finish a request looks at one there is room for.
LEMMA NextFits ==
    ASSUME SessionAssumption, Types, PostedInv, WorkersInv, NEW g \in Groups, NEW r \in Ranks
    PROVE  group[g].next[r] \in Seqs /\ group[g].next[r] <= runs
<1> DEFINE k == group[g].next[r]
<1>1. k \in 0..(MaxRuns + 1)  BY DEF Types, GroupState
<1>2. MaxRuns \in Nat /\ runs \in 0..MaxRuns  BY DEF Types, SessionAssumption
<1>3. \A s \in 0..(k - 1) : s \in Seqs /\ s < k  BY <1>1, <1>2 DEF Seqs
<1>4. \A s \in Seqs : s < group[g].next[r] => group[g].request[s] # 0
  BY DEF WorkersInv, Receipted
<1> HIDE DEF k
<1>5. \A s \in 0..(k - 1) : group[g].request[s] # 0  BY <1>3, <1>4 DEF k
<1>6. k <= runs  BY <1>1, <1>5, RequestsCounted
<1> QED  BY <1>1, <1>2, <1>6 DEF k, Seqs

\* A group is at a sequence there is room for, and what is posted there leaves
\* room for the next.
LEMMA SequenceFits ==
    ASSUME SessionAssumption, Types, PostedInv, WorkersInv, NEW g \in Groups
    PROVE  /\ group[g].sequence \in Seqs /\ group[g].sequence <= runs
           /\ group[g].request[group[g].sequence] # 0 => group[g].sequence + 1 <= runs
<1> DEFINE k == group[g].sequence
<1>1. k \in 0..MaxRuns /\ k + 1 \in 0..(MaxRuns + 1)
  BY SMTT(30) DEF Types, GroupState, SessionAssumption
<1>2. MaxRuns \in Nat /\ runs \in 0..MaxRuns  BY DEF Types, SessionAssumption
<1>3. \A s \in Seqs : s < group[g].sequence => group[g].request[s] # 0
  BY DEF WorkersInv, InOrder
<1> HIDE DEF k
<1>4. \A s \in 0..(k - 1) : s \in Seqs /\ s < k  BY <1>1, <1>2 DEF Seqs
<1>5. \A s \in 0..(k - 1) : group[g].request[s] # 0  BY <1>3, <1>4 DEF k
<1>6. k <= runs
  <2>1. k \in 0..(MaxRuns + 1)  BY <1>1, <1>2
  <2> QED  BY <2>1, <1>5, RequestsCounted
<1>7. ASSUME group[g].request[k] # 0  PROVE k + 1 <= runs
  <2>1. \A s \in 0..((k + 1) - 1) : s = k \/ s \in 0..(k - 1)  BY <1>1, <1>2
  <2>2. \A s \in 0..((k + 1) - 1) : group[g].request[s] # 0  BY <2>1, <1>5, <1>7
  <2> DEFINE m == k + 1
  <2>3. m \in 0..(MaxRuns + 1) /\ \A s \in 0..(m - 1) : group[g].request[s] # 0
    BY <2>2, <1>1
  <2> HIDE DEF m
  <2>4. m <= runs  BY <2>3, RequestsCounted
  <2> QED  BY <2>4 DEF m
<1> QED  BY <1>1, <1>6, <1>7 DEF k, Seqs

\* Where a call goes next, whichever way it leaves its step.
LEMMA RaiseTyped ==
    ASSUME NEW t \in Threads, call \in [Threads -> CallState], Raise(t) \/ CloseInSubmit(t)
    PROVE  call' \in [Threads -> CallState]
<1>1. "release" \in Steps /\ "reap" \in Steps /\ "raise" \in Afters  BY DEF Steps, Afters
<1>2. "release" \in {"release", "submit"} /\ "submit" \in {"release", "submit"}  OBVIOUS
<1>3. CASE Raise(t)  BY <1>1, <1>2, <1>3, CallsRaise, Zenon DEF Raise
<1>4. CASE CloseInSubmit(t)  BY <1>1, <1>2, <1>4, CallsPcIn, Zenon DEF CloseInSubmit
<1> QED  BY <1>3, <1>4

LEMMA GotoTyped ==
    ASSUME NEW t \in Threads, call \in [Threads -> CallState], NEW p \in Steps, Goto(t, p)
    PROVE  call' \in [Threads -> CallState]
BY CallsPc, Zenon DEF Goto

LEMMA ReturnTyped ==
    ASSUME SessionAssumption, NEW t \in Threads, call \in [Threads -> CallState], Return(t)
    PROVE  call' \in [Threads -> CallState] /\ lock' = None
<1>1. Idle \in CallState  BY IdleTyped, Zenon DEF Idle
<1> QED  BY <1>1 DEF Return

LEMMA ReleasedTyped ==
    ASSUME SessionAssumption, Types, NEW t \in Threads, Released(t)
    PROVE  /\ session' \in SessionState /\ call' \in [Threads -> CallState]
           /\ lock' \in Threads \cup {None}
<1>1. session' \in SessionState
  <2>1. (session.closed \/ call[t].after = "close") \in BOOLEAN  OBVIOUS
  <2> QED  BY <2>1, SessionReset, Zenon DEF Types, Released
<1>2. "execute" \in Steps  BY DEF Steps
<1>3. CASE Goto(t, "execute") /\ UNCHANGED lock  BY <1>1, <1>2, <1>3, GotoTyped DEF Types
<1>4. CASE Return(t)  BY <1>1, <1>4, ReturnTyped DEF Types
<1> QED  BY <1>3, <1>4, Zenon DEF Released

\* Every step keeps the types: a group has posted no more requests than searches
\* were begun, and a worker looks at most one ahead
\* (resident_transport.py:44-50, 70; worker.rs:79, 113).
LEMMA TypesKept ==
    ASSUME SessionAssumption, Types, RunsInv, PostedInv, WorkersInv, CallInv, HandleInv, Next
    PROVE  Types'
<1>a. session \in SessionState /\ lock \in Threads \cup {None} /\ parent \in BOOLEAN
      /\ active \in [Threads -> BOOLEAN] /\ groups \in 0..MaxGroups /\ runs \in 0..MaxRuns
      /\ log \in [Runs -> [Ranks -> LogState]]
  BY DEF Types
<1>b. call \in [Threads -> CallState]  BY DEF Types
<1>c. group \in [Groups -> GroupState]  BY DEF Types
<1>d. MaxRuns \in Nat /\ MaxGroups \in Nat /\ None \notin Threads /\ None \notin Identities
  BY DEF SessionAssumption
<1>e. \A p \in {"idle", "acquire", "compare", "execute", "post", "poll", "collect", "accept",
                 "release", "reap"} : p \in Steps
  BY DEF Steps
<1>f. \A p \in {"execute", "raise", "close"} : p \in Afters  BY DEF Afters
<1>g. \A t \in Threads : call[t].group \in 0..MaxGroups /\ call[t].run \in 0..MaxRuns
        /\ call[t].ident \in Identities \cup {None}
  BY <1>b DEF CallState
<1>h. \A t \in Threads : call[t].pc \in Submitting \/ call[t].pc = "reap" =>
        call[t].group \in Groups
  <2>1. ASSUME NEW t \in Threads, call[t].pc \in Submitting \/ call[t].pc = "reap"
        PROVE  call[t].group # 0
    BY <2>1 DEF CallInv, CallFits
  <2> QED  BY <2>1, <1>g, <1>d DEF Groups
<1>i. \A g \in Groups : group[g].sequence \in 0..MaxRuns  BY <1>c DEF GroupState
<1>j. TRUE \in BOOLEAN /\ FALSE \in BOOLEAN  BY Zenon
<1>1. ASSUME NEW t \in Threads, Enter(t)  PROVE Types'
  <2>1. session' \in SessionState  BY <1>1, <1>a, <1>j, SessionToken, Zenon DEF Enter
  <2>2. active' \in [Threads -> BOOLEAN]  BY <1>1, <1>a DEF Enter
  <2> QED  BY <1>1, <2>1, <2>2 DEF Enter, Types
<1>2. ASSUME NEW t \in Threads, StartClose(t)
      PROVE  lock' \in Threads \cup {None} /\ call' \in [Threads -> CallState]
  BY <1>2, <1>b, <1>e, <1>f, CallsPcAfter, Zenon DEF StartClose
<1>3. ASSUME NEW t \in Threads, Close(t)  PROVE Types'
  BY <1>2, <1>3 DEF Close, Types
<1>4. ASSUME NEW t \in Threads, Exit(t)  PROVE Types'
  <2>1. session' \in SessionState  BY <1>4, <1>a, <1>j, SessionToken, Zenon DEF Exit
  <2>2. active' \in [Threads -> BOOLEAN]  BY <1>4, <1>a DEF Exit
  <2>3. lock' \in Threads \cup {None} /\ call' \in [Threads -> CallState]
    BY <1>2, <1>4, <1>a, <1>b DEF Exit
  <2> QED  BY <1>4, <2>1, <2>2, <2>3 DEF Exit, Types
<1>5. ASSUME NEW t \in Threads, Begin(t)  PROVE Types'
  <2>1. runs + 1 \in 0..MaxRuns  BY <1>5, <1>a, <1>d DEF Begin
  <2>2. PICK i \in Identities :
           call' = [call EXCEPT ![t] = [Idle EXCEPT !.pc = "acquire", !.ident = i,
                                                    !.run = runs + 1]]
    BY <1>5, Zenon DEF Begin
  <2>3. [Idle EXCEPT !.pc = "acquire", !.ident = i, !.run = runs + 1] \in CallState
    BY <2>1, BeginTyped, Zenon
  <2>4. call' \in [Threads -> CallState]  BY <2>2, <2>3, <1>b
  <2> QED  BY <1>5, <2>1, <2>4 DEF Begin, Types
<1>6. ASSUME NEW t \in Threads, Acquire(t)  PROVE Types'
  <2>1. Idle \in CallState  BY IdleTyped, <1>j, Zenon DEF Idle
  <2>2. CASE lock' = t /\ Goto(t, "compare")
    BY <1>6, <2>2, <1>b, <1>e, GotoTyped DEF Acquire, Types
  <2>3. CASE call' = [call EXCEPT ![t] = Idle] /\ UNCHANGED lock
    BY <1>6, <2>1, <2>3, <1>b DEF Acquire, Types
  <2> QED  BY <1>6, <2>2, <2>3 DEF Acquire
<1>7. ASSUME NEW t \in Threads, Compare(t)  PROVE Types'
  <2> DEFINE p == IF ~MayReuse(t) THEN "release"
                  ELSE IF session.workers = 0 THEN "execute" ELSE "post"
             b == MayReuse(t) /\ session.workers # 0
             n == session.workers
  <2>1. p \in Steps /\ n \in 0..MaxGroups  BY <1>a DEF SessionState, Steps
  <2>2. b \in BOOLEAN  OBVIOUS
  <2>3. call' = [call EXCEPT ![t].pc = p, ![t].after = "execute", ![t].group = n, ![t].reused = b]
    BY <1>7 DEF Compare
  <2> HIDE DEF p, b, n
  <2>4. call' \in [Threads -> CallState]
    BY <2>1, <2>2, <2>3, <1>b, <1>f, CallsCompare, ZenonT(40)
  <2> QED  BY <1>7, <2>4 DEF Compare, Types
<1>8. ASSUME NEW t \in Threads, Execute(t)  PROVE Types'
  <2>1. CASE Raise(t) /\ UNCHANGED <<session, group, groups>>
    BY <1>8, <2>1, <1>b, RaiseTyped DEF Execute, Types
  <2>2. ASSUME groups < MaxGroups, groups' = groups + 1, NEW spawned \in SUBSET Ranks,
               SpawnGroup(t, groups + 1, spawned),
               session' = IF spawned = Ranks
                          THEN [session EXCEPT !.workers = groups + 1] ELSE session,
               call' = [call EXCEPT ![t].group = groups + 1, ![t].in = "submit",
                           ![t].pc = IF spawned = Ranks THEN "post" ELSE "reap"]
        PROVE  Types'
    <3> DEFINE n == groups + 1
               p == IF spawned = Ranks THEN "post" ELSE "reap"
               v == [r \in Ranks |-> IF r \in spawned THEN "waiting" ELSE "none"]
               b == spawned # Ranks
               i == call[t].ident
    <3>1. n \in Groups /\ n \in 0..MaxGroups  BY <2>2, <1>a, <1>d DEF Groups
    <3>2. p \in Steps  BY DEF Steps
    <3>3. v \in [Ranks -> WorkerStates]  BY DEF WorkerStates
    <3>4. b \in BOOLEAN  OBVIOUS
    <3>5. i \in Identities \cup {None}  BY <1>g
    <3>6. call' = [call EXCEPT ![t].group = n, ![t].in = "submit", ![t].pc = p]  BY <2>2
    <3>7. group' = [group EXCEPT ![n].ident = i, ![n].worker = v, ![n].closed = b]
      BY <2>2, Zenon DEF SpawnGroup
    <3>8. session' \in {session, [session EXCEPT !.workers = n]}  BY <2>2
    <3>9. groups' = n  BY <2>2
    <3> HIDE DEF n, p, v, b, i
    <3>10. call' \in [Threads -> CallState]  BY <3>1, <3>2, <3>6, <1>b, CallsSpawn, Zenon
    <3>11. [group EXCEPT ![n].ident = i, ![n].worker = v, ![n].closed = b]
              \in [Groups -> GroupState]
      BY <3>1, <3>3, <3>4, <3>5, <1>c, GroupsSpawn, Zenon
    <3>12. group' \in [Groups -> GroupState]  BY <3>7, <3>11, Zenon
    <3>13. [session EXCEPT !.workers = n] \in SessionState
      BY <3>1, <1>a, SessionWorkers, Zenon
    <3>14. session' \in SessionState  BY <3>8, <3>13, <1>a
    <3> QED  BY <1>8, <3>1, <3>9, <3>10, <3>12, <3>14 DEF Execute, Types
  <2> QED  BY <1>8, <2>1, <2>2 DEF Execute
<1>9. ASSUME NEW t \in Threads, Post(t)  PROVE Types'
  <2> DEFINE g == call[t].group
             s == group[g].sequence
             n == call[t].run
  <2>1. call[t].pc = "post" /\ g \in Groups /\ s \in 0..MaxRuns /\ n \in 0..MaxRuns
    BY <1>9, <1>g, <1>h, <1>i DEF Post, At, Submitting
  <2>2. CASE Raise(t) /\ UNCHANGED group
    BY <1>9, <2>2, <1>b, RaiseTyped DEF Post, Types
  <2>3. CASE group' = [group EXCEPT ![g].request[s] = n] /\ Goto(t, "poll")
    <3> HIDE DEF g, s, n
    <3>1. group' \in [Groups -> GroupState]  BY <2>1, <2>3, <1>c, GroupsRequest, Zenon
    <3>2. call' \in [Threads -> CallState]  BY <2>3, <1>b, <1>e, GotoTyped
    <3> QED  BY <1>9, <3>1, <3>2 DEF Post, Types
  <2> QED  BY <1>9, <2>2, <2>3 DEF Post
<1>10. ASSUME NEW t \in Threads, call[t].pc \in Submitting, CloseInSubmit(t)
       PROVE  group' \in [Groups -> GroupState] /\ call' \in [Threads -> CallState]
  <2>1. call[t].group \in Groups  BY <1>10, <1>h
  <2>2. group' = [group EXCEPT ![call[t].group].closed = TRUE]  BY <1>10 DEF CloseInSubmit
  <2>3. group' \in [Groups -> GroupState]  BY <2>1, <2>2, <1>c, <1>j, GroupsClosed, Zenon
  <2> QED  BY <1>10, <2>3, <1>b, RaiseTyped
<1>11. ASSUME NEW t \in Threads, Poll(t) \/ Interrupt(t)  PROVE Types'
  <2>1. call[t].pc \in Submitting  BY <1>11 DEF Poll, Interrupt, At, Submitting
  <2>2. UNCHANGED <<session, lock, active, log, groups, runs, parent>>
    BY <1>11 DEF Poll, Interrupt
  <2>3. CASE CloseInSubmit(t)  BY <2>1, <2>2, <2>3, <1>10 DEF Types
  <2>4. CASE Goto(t, "collect") /\ UNCHANGED group
    BY <2>2, <2>4, <1>b, <1>e, GotoTyped DEF Types
  <2> QED  BY <1>11, <2>3, <2>4 DEF Poll, Interrupt
<1>12. ASSUME NEW t \in Threads, Elapse(t)  PROVE Types'
  <2>1. call' \in [Threads -> CallState]  BY <1>12, <1>b, <1>j, CallsLate, Zenon DEF Elapse
  <2> QED  BY <1>12, <2>1 DEF Elapse, Types
<1>13. ASSUME NEW t \in Threads, Collect(t)  PROVE Types'
  <2>1. call[t].pc = "collect" /\ call[t].pc \in Submitting
    BY <1>13 DEF Collect, At, Submitting
  <2>2. CASE CloseInSubmit(t)  BY <1>13, <2>1, <2>2, <1>10 DEF Collect, Types
  <2> DEFINE g == call[t].group
             s == group[g].sequence + 1
  <2>3. CASE group' = [group EXCEPT ![g].sequence = s] /\ Goto(t, "accept")
    <3>1. g \in Groups  BY <2>1, <1>h
    <3>2. group[g].request[group[g].sequence] = call[t].run /\ call[t].run # 0
      BY <2>1 DEF CallInv, CallFits, RunsInv
    <3>3. s \in 0..MaxRuns
      <4>1. group[g].sequence \in 0..MaxRuns  BY <3>1, <1>i
      <4>2. group[g].sequence + 1 <= runs  BY <3>1, <3>2, SequenceFits
      <4> QED  BY <4>1, <4>2, <1>a, <1>d
    <3> HIDE DEF g, s
    <3>4. group' \in [Groups -> GroupState]  BY <2>3, <3>1, <3>3, <1>c, GroupsSequence, Zenon
    <3>5. call' \in [Threads -> CallState]  BY <2>3, <1>b, <1>e, GotoTyped
    <3> QED  BY <1>13, <3>4, <3>5 DEF Collect, Types
  <2> QED  BY <1>13, <2>2, <2>3 DEF Collect, NextSequence
<1>14. ASSUME NEW t \in Threads, Accept(t)  PROVE Types'
  <2>1. CASE Raise(t) /\ UNCHANGED <<session, lock>>
    BY <1>14, <2>1, <1>b, RaiseTyped DEF Accept, Types
  <2>2. CASE Return(t) /\ session' \in {session, [session EXCEPT !.identity = call[t].ident]}
    <3>1. call[t].ident \in Identities
      <4>1. call[t].pc \in Submitting  BY <1>14 DEF Accept, At, Submitting
      <4>2. call[t].ident # None  BY <4>1 DEF RunsInv
      <4> QED  BY <4>2, <1>g
    <3>2. session' \in SessionState  BY <2>2, <3>1, <1>a, SessionIdentity
    <3> QED  BY <1>14, <2>2, <3>2, <1>b, ReturnTyped DEF Accept, Types
  <2> QED  BY <1>14, <2>1, <2>2 DEF Accept
<1>15. ASSUME NEW t \in Threads, Release(t)  PROVE Types'
  <2>1. CASE Released(t) /\ UNCHANGED group
    BY <1>15, <2>1, ReleasedTyped DEF Release, Types
  <2> DEFINE g == session.workers
  <2>2. CASE /\ g # 0 /\ group' = [group EXCEPT ![g].closed = TRUE]
             /\ call' = [call EXCEPT ![t].pc = "reap", ![t].group = g, ![t].in = "release"]
             /\ UNCHANGED <<session, lock>>
    <3>1. g \in 0..MaxGroups /\ g \in Groups  BY <2>2, <1>a, <1>d DEF SessionState, Groups
    <3> HIDE DEF g
    <3>2. group' \in [Groups -> GroupState]  BY <2>2, <3>1, <1>c, <1>j, GroupsClosed, Zenon
    <3>3. call' \in [Threads -> CallState]  BY <2>2, <3>1, <1>b, <1>e, CallsReap, Zenon
    <3> QED  BY <1>15, <2>2, <3>2, <3>3 DEF Release, Types
  <2> QED  BY <1>15, <2>1, <2>2 DEF Release, NothingToStop
<1>16. ASSUME NEW t \in Threads, Reap(t)  PROVE Types'
  <2> DEFINE g == call[t].group
  <2>1. g \in Groups  BY <1>16, <1>h DEF Reap, At
  <2>2. PICK left \in Survivors(g) :
           group' = [group EXCEPT ![g].worker = [r \in Ranks |->
                IF group[g].worker[r] = "none" THEN "none"
                ELSE IF r \in left THEN group[g].worker[r] ELSE "dead"]]
    BY <1>16 DEF Reap
  <2>3. group' \in [Groups -> GroupState]
    <3> DEFINE v == [r \in Ranks |->
                IF group[g].worker[r] = "none" THEN "none"
                ELSE IF r \in left THEN group[g].worker[r] ELSE "dead"]
    <3>1. group[g].worker \in [Ranks -> WorkerStates]  BY <2>1, <1>c DEF GroupState
    <3>2. v \in [Ranks -> WorkerStates]  BY <3>1 DEF WorkerStates
    <3>3. group' = [group EXCEPT ![g].worker = v]  BY <2>2
    <3> HIDE DEF v, g
    <3> QED  BY <2>1, <3>2, <3>3, <1>c, GroupsWorkers, Zenon
  <2>4. UNCHANGED <<active, log, groups, runs, parent>>  BY <1>16 DEF Reap
  <2>5. CASE Raise(t) /\ UNCHANGED <<session, lock>>
    BY <2>3, <2>4, <2>5, <1>b, RaiseTyped DEF Types
  <2>6. CASE Released(t)  BY <2>3, <2>4, <2>6, ReleasedTyped DEF Types
  <2>7. CASE UNCHANGED session /\ Return(t)
    BY <2>3, <2>4, <2>7, <1>b, ReturnTyped DEF Types
  <2>8. CASE UNCHANGED session /\ Raise(t) /\ UNCHANGED lock
    BY <2>3, <2>4, <2>8, <1>b, RaiseTyped DEF Types
  <2> QED  BY <1>16, <2>5, <2>6, <2>7, <2>8 DEF Reap
<1>17. \A g \in Groups, r \in Ranks : group[g].next[r] \in 0..MaxRuns
  BY NextFits DEF Seqs
<1>18. \A g \in Groups, n \in 0..MaxRuns : group[g].request[n] \in 0..MaxRuns
          /\ group[g].ident \in Identities \cup {None}
  BY <1>c DEF GroupState
<1>19. \A w \in {"waiting", "searching", "finished", "dead"} : w \in WorkerStates
  BY DEF WorkerStates
<1>20. ASSUME NEW g \in Groups, NEW r \in Ranks, TakeRequest(g, r)  PROVE Types'
  <2> DEFINE n == group[g].request[group[g].next[r]]
             e == [text |-> "partial", ident |-> group[g].ident]
  <2>1. n \in Runs
    <3>1. n \in 0..MaxRuns  BY <1>17, <1>18
    <3>2. n # 0  BY <1>20 DEF TakeRequest
    <3> QED  BY <3>1, <3>2, <1>d DEF Runs
  <2>2. e \in LogState  BY <1>17, <1>18 DEF LogState
  <2>3. log' = [log EXCEPT ![n][r] = e]  BY <1>20 DEF TakeRequest
  <2>4. group' = [group EXCEPT ![g].worker[r] = "searching"]  BY <1>20 DEF TakeRequest
  <2> HIDE DEF n, e
  <2>5. log' \in [Runs -> [Ranks -> LogState]]  BY <2>1, <2>2, <2>3, <1>a, LogPut, Zenon
  <2>6. group' \in [Groups -> GroupState]  BY <2>4, <1>c, <1>19, GroupsWorker, Zenon
  <2> QED  BY <1>20, <2>5, <2>6 DEF TakeRequest, Types
<1>21. ASSUME NEW g \in Groups, NEW r \in Ranks, FinishSearch(g, r)  PROVE Types'
  <2> DEFINE n == group[g].request[group[g].next[r]]
  <2>1. n \in Runs
    <3>1. n \in 0..MaxRuns  BY <1>17, <1>18
    <3>2. n # 0  BY <1>21, Zenon DEF FinishSearch, WorkersInv, Searching
    <3> QED  BY <3>1, <3>2, <1>d DEF Runs
  <2>2. log' = [log EXCEPT ![n][r].text = "full"]  BY <1>21, Zenon DEF FinishSearch
  <2>3. group' = [group EXCEPT ![g].worker[r] = "finished"]  BY <1>21, Zenon DEF FinishSearch
  <2> HIDE DEF n
  <2>4. log' \in [Runs -> [Ranks -> LogState]]  BY <2>1, <2>2, <1>a, LogFull, Zenon
  <2>5. group' \in [Groups -> GroupState]  BY <2>3, <1>c, <1>19, GroupsWorker, Zenon
  <2> QED  BY <1>21, <2>4, <2>5, Zenon DEF FinishSearch, Types
<1>22. ASSUME NEW g \in Groups, NEW r \in Ranks, WriteReceipt(g, r)  PROVE Types'
  <2> DEFINE k == group[g].next[r] + 1
             d == group[g].done \cup {<<group[g].next[r], r>>}
  <2>1. k \in 0..(MaxRuns + 1)  BY <1>17, <1>d
  <2>2. d \in SUBSET Receipt
    <3>1. group[g].done \in SUBSET Receipt  BY <1>c DEF GroupState
    <3> QED  BY <3>1, <1>17 DEF Receipt
  <2>3. group' = [group EXCEPT ![g].worker[r] = "waiting", ![g].next[r] = k, ![g].done = d]
    BY <1>22 DEF WriteReceipt
  <2> HIDE DEF k, d
  <2>4. group' \in [Groups -> GroupState]  BY <2>1, <2>2, <2>3, <1>c, <1>19, GroupsReceipt, Zenon
  <2> QED  BY <1>22, <2>4 DEF WriteReceipt, Types
<1>23. ASSUME NEW g \in Groups, NEW r \in Ranks, ObeyStop(g, r) \/ WorkerDies(g, r)  PROVE Types'
  <2>1. group' = [group EXCEPT ![g].worker[r] = "dead"]  BY <1>23 DEF ObeyStop, WorkerDies
  <2>2. group' \in [Groups -> GroupState]  BY <2>1, <1>c, <1>19, GroupsWorker, Zenon
  <2> QED  BY <1>23, <2>2 DEF ObeyStop, WorkerDies, Types
<1>24. ASSUME ParentDies  PROVE Types'
  BY <1>24, <1>j DEF ParentDies, Types
<1> QED
  BY <1>1, <1>3, <1>4, <1>5, <1>6, <1>7, <1>8, <1>9, <1>11, <1>12, <1>13, <1>14, <1>15, <1>16,
     <1>20, <1>21, <1>22, <1>23, <1>24 DEF Next, ThreadStep

\* Every step keeps the lock with the one call past _acquire_group
\* (persistent.py:113).
LEMMA LockInvKept ==
    ASSUME SessionAssumption, Types, LockInv, Next
    PROVE  LockInv'
<1>a. call \in [Threads -> CallState]  BY DEF Types
<1>b. None \notin Threads  BY DEF SessionAssumption
<1> USE DEF LockInv, CallState
<1>1. ASSUME NEW t \in Threads, Enter(t)  PROVE LockInv'
  BY <1>1, <1>a, <1>b DEF Enter, At
<1>2. ASSUME NEW t \in Threads, Close(t)  PROVE LockInv'
  BY <1>2, <1>a, <1>b DEF Close, StartClose, At
<1>3. ASSUME NEW t \in Threads, Exit(t)  PROVE LockInv'
  BY <1>3, <1>a, <1>b DEF Exit, StartClose, At
<1>4. ASSUME NEW t \in Threads, Begin(t)  PROVE LockInv'
  BY <1>4, <1>a, <1>b DEF Begin, Idle, At
<1>5. ASSUME NEW t \in Threads, Acquire(t)  PROVE LockInv'
  BY <1>5, <1>a, <1>b DEF Acquire, Goto, Idle, At
<1>6. ASSUME NEW t \in Threads, Compare(t)  PROVE LockInv'
  BY <1>6, <1>a, <1>b DEF Compare, At
<1>7. ASSUME NEW t \in Threads, Execute(t)  PROVE LockInv'
  BY <1>7, <1>a, <1>b DEF Execute, Raise, At
<1>8. ASSUME NEW t \in Threads, Post(t)  PROVE LockInv'
  BY <1>8, <1>a, <1>b DEF Post, Raise, Goto, At
<1>9. ASSUME NEW t \in Threads, Poll(t)  PROVE LockInv'
  BY <1>9, <1>a, <1>b DEF Poll, Goto, CloseInSubmit, At
<1>10. ASSUME NEW t \in Threads, Interrupt(t)  PROVE LockInv'
  BY <1>10, <1>a, <1>b DEF Interrupt, CloseInSubmit, At
<1>11. ASSUME NEW t \in Threads, Elapse(t)  PROVE LockInv'
  BY <1>11, <1>a, <1>b DEF Elapse, At
<1>12. ASSUME NEW t \in Threads, Collect(t)  PROVE LockInv'
  BY <1>12, <1>a, <1>b DEF Collect, Goto, CloseInSubmit, At
<1>13. ASSUME NEW t \in Threads, Accept(t)  PROVE LockInv'
  BY <1>13, <1>a, <1>b DEF Accept, Raise, Return, Idle, At
<1>14. ASSUME NEW t \in Threads, Release(t)  PROVE LockInv'
  BY <1>14, <1>a, <1>b DEF Release, Released, Goto, Return, Idle, At
<1>15. ASSUME NEW t \in Threads, Reap(t)  PROVE LockInv'
  BY <1>15, <1>a, <1>b DEF Reap, Released, Goto, Return, Raise, Idle, At
<1>16. ASSUME NEW g \in Groups, NEW r \in Ranks, TakeRequest(g, r)  PROVE LockInv'
  BY <1>16, <1>a, <1>b DEF TakeRequest
<1>17. ASSUME NEW g \in Groups, NEW r \in Ranks, FinishSearch(g, r)  PROVE LockInv'
  BY <1>17, <1>a, <1>b, Zenon DEF FinishSearch
<1>18. ASSUME NEW g \in Groups, NEW r \in Ranks, WriteReceipt(g, r)  PROVE LockInv'
  BY <1>18, <1>a, <1>b DEF WriteReceipt
<1>19. ASSUME NEW g \in Groups, NEW r \in Ranks, ObeyStop(g, r)  PROVE LockInv'
  BY <1>19, <1>a, <1>b DEF ObeyStop
<1>20. ASSUME NEW g \in Groups, NEW r \in Ranks, WorkerDies(g, r)  PROVE LockInv'
  BY <1>20, <1>a, <1>b DEF WorkerDies
<1>21. ASSUME ParentDies  PROVE LockInv'
  BY <1>21, <1>a, <1>b DEF ParentDies
<1> QED
  BY <1>1, <1>2, <1>3, <1>4, <1>5, <1>6, <1>7, <1>8, <1>9, <1>10, <1>11, <1>12, <1>13,
     <1>14, <1>15, <1>16, <1>17, <1>18, <1>19, <1>20, <1>21 DEF Next, ThreadStep

\* The fields of a call that is over.
LEMMA IdleFields ==
    Idle.pc = "idle" /\ Idle.run = 0 /\ Idle.after = "raise" /\ Idle.group = 0
    /\ Idle.in = "release"
BY DEF Idle

\* A call that returns keeps the runs of the others apart.
LEMMA RunsReturn ==
    ASSUME Types, RunsInv, NEW t \in Threads, call' = [call EXCEPT ![t] = Idle],
           UNCHANGED runs
    PROVE  RunsInv'
<1>1. call \in [Threads -> CallState] /\ runs \in 0..MaxRuns  BY DEF Types
<1>2. call'[t] = Idle /\ \A u \in Threads : u # t => call'[u] = call[u]  BY <1>1
<1>3. call'[t].run = 0 /\ call'[t].pc = "idle" /\ call'[t].after = "raise"
      /\ call'[t].in = "release"
  BY <1>2, IdleFields
<1>4. ASSUME NEW u \in Threads
      PROVE  /\ call'[u].run <= runs
             /\ call'[u].pc = "idle" => call'[u] = Idle
             /\ Unposted(u)' \/ call'[u].pc \in Submitting =>
                  call'[u].run # 0 /\ call'[u].ident # None
             /\ call'[u].after = "close" =>
                  call'[u].pc \in {"release", "reap"} /\ call'[u].in = "release"
             /\ call'[u].pc \in {"idle", "acquire", "compare", "execute", "release"} =>
                  call'[u].in = "release"
  <2>1. CASE u = t  BY <2>1, <1>1, <1>2, <1>3 DEF Unposted, Submitting
  <2>2. CASE u # t  BY <2>2, <1>2 DEF RunsInv, Unposted
  <2> QED  BY <2>1, <2>2
<1>5. ASSUME NEW u \in Threads, NEW v \in Threads, call'[u].run = call'[v].run, call'[u].run # 0
      PROVE  u = v
  BY <1>2, <1>3, <1>5 DEF RunsInv
<1> QED  BY <1>4, <1>5 DEF RunsInv

\* Every step keeps the runs apart, and a call that can still search carries its
\* run and its identity.
LEMMA RunsInvKept ==
    ASSUME SessionAssumption, Types, RunsInv, Next
    PROVE  RunsInv'
<1>a. call \in [Threads -> CallState]  BY DEF Types
<1>b. None \notin Identities /\ MaxRuns \in Nat  BY DEF SessionAssumption
<1>c. runs \in 0..MaxRuns  BY DEF Types
<1> USE DEF RunsInv, CallState, Unposted, Submitting
<1>1. ASSUME NEW t \in Threads, Enter(t)  PROVE RunsInv'
  BY <1>1, <1>a, <1>b, <1>c DEF Enter, At
<1>2. ASSUME NEW t \in Threads, Close(t)  PROVE RunsInv'
  BY <1>2, <1>a, <1>b, <1>c DEF Close, StartClose, At
<1>3. ASSUME NEW t \in Threads, Exit(t)  PROVE RunsInv'
  BY <1>3, <1>a, <1>b, <1>c DEF Exit, StartClose, At
<1>4. ASSUME NEW t \in Threads, Begin(t)  PROVE RunsInv'
  BY <1>4, <1>a, <1>b, <1>c DEF Begin, Idle, At
<1>5. ASSUME NEW t \in Threads, Acquire(t)  PROVE RunsInv'
  <2>1. CASE Goto(t, "compare")  BY <1>5, <2>1, <1>a, <1>b, <1>c DEF Acquire, Goto, At
  <2>2. CASE call' = [call EXCEPT ![t] = Idle]  BY <1>5, <2>2, RunsReturn DEF Acquire
  <2> QED  BY <1>5, <2>1, <2>2 DEF Acquire
<1>6. ASSUME NEW t \in Threads, Compare(t)  PROVE RunsInv'
  <2> DEFINE p == IF ~MayReuse(t) THEN "release"
                  ELSE IF session.workers = 0 THEN "execute" ELSE "post"
             b == MayReuse(t) /\ session.workers # 0
             n == session.workers
  <2>1. p \in {"release", "execute", "post"}  OBVIOUS
  <2>2. /\ call' = [call EXCEPT ![t].pc = p, ![t].after = "execute", ![t].group = n,
                               ![t].reused = b]
        /\ call[t].pc = "compare" /\ UNCHANGED runs
    BY <1>6, Zenon DEF Compare, At
  <2> HIDE DEF p, b, n
  <2>3. \A u \in Threads : u # t => call'[u] = call[u]  BY <2>2, <1>a
  <2>4. /\ call'[t].pc = p /\ call'[t].after = "execute"
        /\ call'[t].run = call[t].run /\ call'[t].ident = call[t].ident
        /\ call'[t].in = call[t].in
    BY <2>2, <1>a
  <2>5. call[t].run <= runs /\ call[t].run # 0 /\ call[t].ident # None
        /\ call[t].in = "release"
    BY <2>2
  <2>6. \A u \in Threads : call'[u].run = call[u].run  BY <2>3, <2>4
  <2>7. ASSUME NEW u \in Threads
        PROVE  /\ call'[u].run <= runs
               /\ call'[u].pc = "idle" => call'[u] = Idle
               /\ Unposted(u)' \/ call'[u].pc \in Submitting =>
                    call'[u].run # 0 /\ call'[u].ident # None
               /\ call'[u].after = "close" =>
                    call'[u].pc \in {"release", "reap"} /\ call'[u].in = "release"
               /\ call'[u].pc \in {"idle", "acquire", "compare", "execute", "release"} =>
                    call'[u].in = "release"
    <3>1. CASE u = t  BY <3>1, <2>1, <2>4, <2>5
    <3>2. CASE u # t  BY <3>2, <2>3
    <3> QED  BY <3>1, <3>2
  <2>8. \A u, v \in Threads : call'[u].run = call'[v].run /\ call'[u].run # 0 => u = v
    BY <2>6
  <2> HIDE DEF Unposted, Submitting
  <2> QED  BY <2>2, <2>7, <2>8, ZenonT(40)
<1>7. ASSUME NEW t \in Threads, Execute(t)  PROVE RunsInv'
  BY <1>7, <1>a, <1>b, <1>c DEF Execute, Raise, At
<1>8. ASSUME NEW t \in Threads, Post(t)  PROVE RunsInv'
  BY <1>8, <1>a, <1>b, <1>c DEF Post, Raise, Goto, At
<1>9. ASSUME NEW t \in Threads, Poll(t)  PROVE RunsInv'
  BY <1>9, <1>a, <1>b, <1>c DEF Poll, Goto, CloseInSubmit, At
<1>10. ASSUME NEW t \in Threads, Interrupt(t)  PROVE RunsInv'
  BY <1>10, <1>a, <1>b, <1>c DEF Interrupt, CloseInSubmit, At
<1>11. ASSUME NEW t \in Threads, Elapse(t)  PROVE RunsInv'
  BY <1>11, <1>a, <1>b, <1>c DEF Elapse, At
<1>12. ASSUME NEW t \in Threads, Collect(t)  PROVE RunsInv'
  BY <1>12, <1>a, <1>b, <1>c DEF Collect, Goto, CloseInSubmit, At
<1>13. ASSUME NEW t \in Threads, Accept(t)  PROVE RunsInv'
  <2>1. CASE Raise(t)  BY <1>13, <2>1, <1>a, <1>b, <1>c DEF Accept, Raise, At
  <2>2. CASE Return(t)  BY <1>13, <2>2, RunsReturn DEF Accept, Return
  <2> QED  BY <1>13, <2>1, <2>2 DEF Accept
<1>14. ASSUME NEW t \in Threads, Release(t)  PROVE RunsInv'
  <2>1. CASE call[t].after = "execute" /\ Goto(t, "execute")
    <3>1. call[t].pc = "release" /\ UNCHANGED runs  BY <1>14 DEF Release, At
    <3> QED  BY <2>1, <3>1, <1>a, <1>b, <1>c DEF Goto
  <2>2. CASE Return(t)  BY <1>14, <2>2, RunsReturn DEF Release, Return
  <2>3. CASE call' = [call EXCEPT ![t].pc = "reap", ![t].group = session.workers,
                                  ![t].in = "release"]
    BY <1>14, <2>3, <1>a, <1>b, <1>c DEF Release, At
  <2> QED  BY <1>14, <2>1, <2>2, <2>3 DEF Release, Released
<1>15. ASSUME NEW t \in Threads, Reap(t)  PROVE RunsInv'
  <2>1. CASE call[t].after = "execute" /\ call[t].in = "release" /\ Goto(t, "execute")
    BY <1>15, <2>1, <1>a, <1>b, <1>c DEF Reap, Goto, At
  <2>2. CASE Return(t)  BY <1>15, <2>2, RunsReturn DEF Reap, Return
  <2>3. CASE Raise(t)  BY <1>15, <2>3, <1>a, <1>b, <1>c DEF Reap, Raise, At
  <2> QED  BY <1>15, <2>1, <2>2, <2>3 DEF Reap, Released
<1>16. ASSUME NEW g \in Groups, NEW r \in Ranks, TakeRequest(g, r)  PROVE RunsInv'
  BY <1>16, <1>a, <1>b, <1>c DEF TakeRequest
<1>17. ASSUME NEW g \in Groups, NEW r \in Ranks, FinishSearch(g, r)  PROVE RunsInv'
  BY <1>17, <1>a, <1>b, <1>c, Zenon DEF FinishSearch
<1>18. ASSUME NEW g \in Groups, NEW r \in Ranks, WriteReceipt(g, r)  PROVE RunsInv'
  BY <1>18, <1>a, <1>b, <1>c DEF WriteReceipt
<1>19. ASSUME NEW g \in Groups, NEW r \in Ranks, ObeyStop(g, r)  PROVE RunsInv'
  BY <1>19, <1>a, <1>b, <1>c DEF ObeyStop
<1>20. ASSUME NEW g \in Groups, NEW r \in Ranks, WorkerDies(g, r)  PROVE RunsInv'
  BY <1>20, <1>a, <1>b, <1>c DEF WorkerDies
<1>21. ASSUME ParentDies  PROVE RunsInv'
  BY <1>21, <1>a, <1>b, <1>c DEF ParentDies
<1> QED
  BY <1>1, <1>2, <1>3, <1>4, <1>5, <1>6, <1>7, <1>8, <1>9, <1>10, <1>11, <1>12, <1>13,
     <1>14, <1>15, <1>16, <1>17, <1>18, <1>19, <1>20, <1>21 DEF Next, ThreadStep

\* A search not posted was not posted before, unless it has just begun.
LEMMA UnpostedStay ==
    ASSUME SessionAssumption, Types, RunsInv, Next, \A t \in Threads : ~Post(t) /\ ~Begin(t)
    PROVE  \A u \in Threads : Unposted(u)' => Unposted(u) /\ call'[u].run = call[u].run
<1> DEFINE Goal == \A u \in Threads :
                      Unposted(u)' => Unposted(u) /\ call'[u].run = call[u].run
<1>a. call \in [Threads -> CallState]  BY DEF Types
<1>b. \A t \in Threads :
        call[t].pc \in {"idle", "acquire", "compare", "execute", "release"} =>
          call[t].in = "release"
  BY DEF RunsInv
<1>c. \A t \in Threads : call[t].after = "close" =>
          call[t].pc \in {"release", "reap"} /\ call[t].in = "release"
  BY DEF RunsInv
<1>d. ASSUME NEW t \in Threads, call' = [call EXCEPT ![t] = Idle]  PROVE Goal
  BY <1>d, <1>a, IdleFields DEF Unposted
<1> USE DEF Unposted, CallState
<1>1. ASSUME NEW t \in Threads, Enter(t)  PROVE Goal
  BY <1>1, <1>a, <1>b DEF Enter, At
<1>2. ASSUME NEW t \in Threads, Close(t)  PROVE Goal
  BY <1>2, <1>a, <1>b DEF Close, StartClose, At
<1>3. ASSUME NEW t \in Threads, Exit(t)  PROVE Goal
  BY <1>3, <1>a, <1>b DEF Exit, StartClose, At
<1>4. ASSUME NEW t \in Threads, Acquire(t)  PROVE Goal
  BY <1>4, <1>a, <1>b, <1>d DEF Acquire, At, Goto
<1>5. ASSUME NEW t \in Threads, Compare(t)  PROVE Goal
  BY <1>5, <1>a, <1>b DEF Compare, At
<1>6. ASSUME NEW t \in Threads, Execute(t)  PROVE Goal
  BY <1>6, <1>a, <1>b DEF Execute, Raise, At
<1>7. ASSUME NEW t \in Threads, Poll(t)  PROVE Goal
  BY <1>7, <1>a, <1>b DEF Poll, Goto, CloseInSubmit, At
<1>8. ASSUME NEW t \in Threads, Interrupt(t)  PROVE Goal
  BY <1>8, <1>a, <1>b DEF Interrupt, CloseInSubmit, At
<1>9. ASSUME NEW t \in Threads, Elapse(t)  PROVE Goal
  BY <1>9, <1>a, <1>b DEF Elapse, At
<1>10. ASSUME NEW t \in Threads, Collect(t)  PROVE Goal
  BY <1>10, <1>a, <1>b DEF Collect, Goto, CloseInSubmit, At
<1>11. ASSUME NEW t \in Threads, Accept(t)  PROVE Goal
  <2>1. CASE Raise(t)  BY <2>1, <1>a DEF Raise
  <2> QED  BY <1>11, <2>1, <1>d DEF Accept, Return
<1>12. ASSUME NEW t \in Threads, Release(t)  PROVE Goal
  <2>0. call[t].pc = "release"  BY <1>12 DEF Release, At
  <2>1. CASE call[t].after = "execute" /\ Goto(t, "execute")
    BY <2>0, <2>1, <1>a, <1>b DEF Goto
  <2>2. CASE Return(t)  BY <2>2, <1>d DEF Return
  <2>3. CASE call' = [call EXCEPT ![t].pc = "reap", ![t].group = session.workers,
                                  ![t].in = "release"]
    BY <2>0, <2>3, <1>a, <1>b
  <2> QED  BY <1>12, <2>1, <2>2, <2>3 DEF Release, Released
<1>13. ASSUME NEW t \in Threads, Reap(t)  PROVE Goal
  <2>0. call[t].pc = "reap"  BY <1>13 DEF Reap, At
  <2>1. CASE call[t].after = "execute" /\ call[t].in = "release" /\ Goto(t, "execute")
    BY <2>0, <2>1, <1>a DEF Goto
  <2>2. CASE Return(t)  BY <2>2, <1>d DEF Return
  <2>3. CASE Raise(t)  BY <2>0, <2>3, <1>a DEF Raise
  <2> QED  BY <1>13, <2>1, <2>2, <2>3 DEF Reap, Released
<1>14. ASSUME NEW g \in Groups, NEW r \in Ranks, TakeRequest(g, r)  PROVE Goal
  BY <1>14, <1>a, <1>b DEF TakeRequest
<1>15. ASSUME NEW g \in Groups, NEW r \in Ranks, FinishSearch(g, r)  PROVE Goal
  BY <1>15, <1>a, <1>b, Zenon DEF FinishSearch
<1>16. ASSUME NEW g \in Groups, NEW r \in Ranks, WriteReceipt(g, r)  PROVE Goal
  BY <1>16, <1>a, <1>b DEF WriteReceipt
<1>17. ASSUME NEW g \in Groups, NEW r \in Ranks, ObeyStop(g, r)  PROVE Goal
  BY <1>17, <1>a, <1>b DEF ObeyStop
<1>18. ASSUME NEW g \in Groups, NEW r \in Ranks, WorkerDies(g, r)  PROVE Goal
  BY <1>18, <1>a, <1>b DEF WorkerDies
<1>19. ASSUME ParentDies  PROVE Goal
  BY <1>19, <1>a, <1>b DEF ParentDies
<1>20. Goal
  <2> HIDE DEF Goal, Unposted
  <2> QED
    BY <1>1, <1>2, <1>3, <1>4, <1>5, <1>6, <1>7, <1>8, <1>9, <1>10, <1>11, <1>12, <1>13, <1>14,
       <1>15, <1>16, <1>17, <1>18, <1>19 DEF Next, ThreadStep
<1> QED  BY <1>20

----------------------------------------------------------------------------
(* What a step does to the mailboxes and the workers.                       *)

\* The mailbox of group h is as it was: nothing posted, collected or received.
SameMail(h) ==
    /\ group'[h].ident = group[h].ident /\ group'[h].sequence = group[h].sequence
    /\ group'[h].request = group[h].request /\ group'[h].next = group[h].next
    /\ group'[h].done = group[h].done

\* Nothing but closing groups and ending workers.
Keeps ==
    /\ log' = log /\ groups' = groups
    /\ \A h \in Groups :
         /\ SameMail(h) /\ (group[h].closed => group'[h].closed)
         /\ \A r \in Ranks : group'[h].worker[r] = group[h].worker[r]
               \/ (group'[h].worker[r] = "dead" /\ group[h].worker[r] # "none")

\* Only the worker of rank r in group g changes, to w.
Turns(g, r, w) ==
    /\ \A h \in Groups : SameMail(h) /\ group'[h].closed = group[h].closed
    /\ \A h \in Groups, q \in Ranks :
         group'[h].worker[q] = IF h = g /\ q = r THEN w ELSE group[h].worker[q]

\* Closing a group, a worker that dies, reaping the workers and a step that leaves
\* the groups alone move no mail.
LEMMA ClosingKeeps ==
    ASSUME Types, NEW g, group' = [group EXCEPT ![g].closed = TRUE], UNCHANGED <<log, groups>>
    PROVE  Keeps
<1>1. group \in [Groups -> GroupState]  BY DEF Types
<1>2. \A h \in Groups : SameMail(h) /\ (group[h].closed => group'[h].closed)
                         /\ group'[h].worker = group[h].worker
  <2> SUFFICES ASSUME NEW h \in Groups
               PROVE  SameMail(h) /\ (group[h].closed => group'[h].closed)
                        /\ group'[h].worker = group[h].worker
    OBVIOUS
  <2>1. CASE group'[h] = group[h]  BY <2>1 DEF SameMail
  <2>2. CASE group'[h] = [group[h] EXCEPT !.closed = TRUE]
    <3>1. group[h] \in GroupState  BY <1>1
    <3> QED  BY <2>2, <3>1 DEF GroupState, SameMail
  <2> QED  BY <2>1, <2>2, <1>1
<1> QED  BY <1>2 DEF Keeps

LEMMA TurnTurns ==
    ASSUME Types, NEW g \in Groups, NEW r \in Ranks, NEW w,
           group' = [group EXCEPT ![g].worker[r] = w]
    PROVE  Turns(g, r, w)
BY DEF Types, GroupState, Turns, SameMail

LEMMA DyingKeeps ==
    ASSUME Types, NEW g \in Groups, NEW r \in Ranks, r \in Alive(g),
           group' = [group EXCEPT ![g].worker[r] = "dead"], UNCHANGED <<log, groups>>
    PROVE  Keeps
<1>1. Turns(g, r, "dead")  BY TurnTurns
<1> QED  BY <1>1 DEF Turns, Keeps, Alive

LEMMA ReapingKeeps ==
    ASSUME Types, NEW t \in Threads, Reap(t)
    PROVE  Keeps
<1> DEFINE g == call[t].group
<1>1. group \in [Groups -> GroupState]  BY DEF Types
<1>2. PICK left : group' = [group EXCEPT ![g].worker = [r \in Ranks |->
                IF group[g].worker[r] = "none" THEN "none"
                ELSE IF r \in left THEN group[g].worker[r] ELSE "dead"]]
  BY DEF Reap
<1> DEFINE v == [r \in Ranks |-> IF group[g].worker[r] = "none" THEN "none"
                ELSE IF r \in left THEN group[g].worker[r] ELSE "dead"]
<1>3. \A r \in Ranks : v[r] = group[g].worker[r] \/ (v[r] = "dead" /\ group[g].worker[r] # "none")
  <2> SUFFICES ASSUME NEW r \in Ranks
               PROVE  v[r] = group[g].worker[r] \/ (v[r] = "dead" /\ group[g].worker[r] # "none")
    OBVIOUS
  <2>1. CASE group[g].worker[r] = "none"  BY <2>1
  <2>2. CASE group[g].worker[r] # "none"  BY <2>2
  <2> QED  BY <2>1, <2>2
<1>4. group' = [group EXCEPT ![g].worker = v]  BY <1>2
<1> HIDE DEF v, g
<1>5. \A h \in Groups :
         /\ SameMail(h) /\ group'[h].closed = group[h].closed
         /\ group'[h].worker = IF h = g THEN v ELSE group[h].worker
  BY <1>1, <1>4 DEF GroupState, SameMail
<1>6. UNCHANGED <<log, groups>>  BY DEF Reap
<1> QED  BY <1>3, <1>5, <1>6 DEF Keeps

LEMMA StillKeeps ==
    ASSUME UNCHANGED <<group, log, groups>>
    PROVE  Keeps
BY DEF Keeps, SameMail

\* The steps that move no mail.
LEMMA OthersKeep ==
    ASSUME Types, Next, ~Keeps
    PROVE  \/ \E t \in Threads : Execute(t) \/ Post(t) \/ Collect(t)
           \/ \E g \in Groups, r \in Ranks :
                TakeRequest(g, r) \/ FinishSearch(g, r) \/ WriteReceipt(g, r)
<1>1. ASSUME NEW t \in Threads, Enter(t) \/ Close(t) \/ Exit(t) \/ Begin(t)  PROVE Keeps
  BY <1>1, StillKeeps, Zenon DEF Enter, Close, Exit, Begin
<1>2. ASSUME NEW t \in Threads, Acquire(t) \/ Compare(t) \/ Accept(t) \/ Elapse(t)  PROVE Keeps
  BY <1>2, StillKeeps DEF Acquire, Compare, Accept, Elapse
<1>3. ASSUME NEW t \in Threads, Poll(t) \/ Interrupt(t)  PROVE Keeps
  BY <1>3, StillKeeps, ClosingKeeps DEF Poll, Interrupt, CloseInSubmit
<1>4. ASSUME NEW t \in Threads, Release(t)  PROVE Keeps
  BY <1>4, StillKeeps, ClosingKeeps DEF Release
<1>5. ASSUME NEW g \in Groups, NEW r \in Ranks, ObeyStop(g, r) \/ WorkerDies(g, r)  PROVE Keeps
  BY <1>5, DyingKeeps DEF ObeyStop, WorkerDies
<1>6. ASSUME ParentDies  PROVE Keeps
  BY <1>6, StillKeeps DEF ParentDies
<1> QED
  BY <1>1, <1>2, <1>3, <1>4, <1>5, <1>6, ReapingKeeps DEF Next, ThreadStep

\* A group is started whole: nothing but its identity, its flag and its workers.
LEMMA SpawnFields ==
    ASSUME Types, NEW g \in Groups, NEW i, NEW v, NEW b,
           group' = [group EXCEPT ![g].ident = i, ![g].worker = v, ![g].closed = b]
    PROVE  /\ \A h \in Groups : h # g => group'[h] = group[h]
           /\ group'[g].ident = i /\ group'[g].worker = v /\ group'[g].closed = b
           /\ group'[g].sequence = group[g].sequence /\ group'[g].request = group[g].request
           /\ group'[g].next = group[g].next /\ group'[g].done = group[g].done
<1>1. group \in [Groups -> GroupState]  BY DEF Types
<1> DEFINE f1 == [group EXCEPT ![g].ident = i]
<1>2. /\ DOMAIN f1 = Groups /\ \A h \in Groups : h # g => f1[h] = group[h]
      /\ f1[g] = [group[g] EXCEPT !.ident = i]
  BY <1>1
<1> DEFINE f2 == [f1 EXCEPT ![g].worker = v]
<1> HIDE DEF f1
<1>3. /\ DOMAIN f2 = Groups /\ \A h \in Groups : h # g => f2[h] = group[h]
      /\ f2[g] = [f1[g] EXCEPT !.worker = v]
  BY <1>2
<1> HIDE DEF f2
<1>4. group' = [f2 EXCEPT ![g].closed = b]  BY Zenon DEF f1, f2
<1>5. /\ \A h \in Groups : h # g => group'[h] = group[h]
      /\ group'[g] = [f2[g] EXCEPT !.closed = b]
  BY <1>3, <1>4
<1>6. group[g] \in GroupState  BY <1>1
<1> DEFINE Fields == {"ident", "closed", "sequence", "request", "next", "worker", "done"}
<1>7. DOMAIN group[g] = Fields  BY <1>6 DEF GroupState
<1>8. f1[g].ident = i /\ DOMAIN f1[g] = Fields
      /\ \A x \in Fields : x # "ident" => f1[g][x] = group[g][x]
  BY <1>2, <1>7
<1>9. f2[g].ident = i /\ f2[g].worker = v /\ DOMAIN f2[g] = Fields
      /\ \A x \in Fields : x # "ident" /\ x # "worker" => f2[g][x] = group[g][x]
  BY <1>3, <1>8
<1>10. group'[g].ident = i /\ group'[g].worker = v /\ group'[g].closed = b
      /\ \A x \in Fields : x # "ident" /\ x # "worker" /\ x # "closed" =>
           group'[g][x] = group[g][x]
  BY <1>5, <1>9
<1> QED  BY <1>5, <1>10

\* What writing a receipt changes (worker.rs:113).
LEMMA ReceiptFields ==
    ASSUME Types, NEW g \in Groups, NEW r \in Ranks, WriteReceipt(g, r)
    PROVE  /\ \A h \in Groups : h # g => group'[h] = group[h]
           /\ group'[g].ident = group[g].ident /\ group'[g].closed = group[g].closed
           /\ group'[g].sequence = group[g].sequence /\ group'[g].request = group[g].request
           /\ group'[g].done = group[g].done \cup {<<group[g].next[r], r>>}
           /\ \A q \in Ranks :
                /\ group'[g].next[q] = IF q = r THEN group[g].next[r] + 1 ELSE group[g].next[q]
                /\ group'[g].worker[q] = IF q = r THEN "waiting" ELSE group[g].worker[q]
<1>1. group \in [Groups -> GroupState]  BY DEF Types
<1> DEFINE k == group[g].next[r] + 1
           d == group[g].done \cup {<<group[g].next[r], r>>}
<1>0. group' = [group EXCEPT ![g].worker[r] = "waiting", ![g].next[r] = k, ![g].done = d]
  BY DEF WriteReceipt
<1>k. k = group[g].next[r] + 1 /\ d = group[g].done \cup {<<group[g].next[r], r>>}  OBVIOUS
<1> HIDE DEF k, d
<1> DEFINE f1 == [group EXCEPT ![g].worker[r] = "waiting"]
<1>2. /\ DOMAIN f1 = Groups /\ \A h \in Groups : h # g => f1[h] = group[h]
      /\ f1[g] = [group[g] EXCEPT !.worker[r] = "waiting"]
  BY <1>1
<1> DEFINE f2 == [f1 EXCEPT ![g].next[r] = k]
<1> HIDE DEF f1
<1>3. /\ DOMAIN f2 = Groups /\ \A h \in Groups : h # g => f2[h] = group[h]
      /\ f2[g] = [f1[g] EXCEPT !.next[r] = k]
  BY <1>2
<1> HIDE DEF f2
<1>4. group' = [f2 EXCEPT ![g].done = d]  BY <1>0, Zenon DEF f1, f2
<1>5. /\ \A h \in Groups : h # g => group'[h] = group[h]
      /\ group'[g] = [f2[g] EXCEPT !.done = d]
  BY <1>3, <1>4
<1>6. group[g] \in GroupState  BY <1>1
<1> QED  BY <1>2, <1>3, <1>5, <1>6, <1>k DEF GroupState

\* Execute starts a group, or only raises.
LEMMA ExecuteSpawns ==
    ASSUME Types, SessionAssumption, NEW t \in Threads, Execute(t), ~Keeps
    PROVE  \E spawned \in SUBSET Ranks :
             LET g == groups + 1 IN
             /\ g \in Groups /\ groups' = g /\ log' = log
             /\ \A h \in Groups : h # g => group'[h] = group[h]
             /\ group'[g].ident = call[t].ident /\ group'[g].closed = (spawned # Ranks)
             /\ \A r \in Ranks :
                  group'[g].worker[r] = IF r \in spawned THEN "waiting" ELSE "none"
             /\ group'[g].sequence = group[g].sequence /\ group'[g].request = group[g].request
             /\ group'[g].next = group[g].next /\ group'[g].done = group[g].done
             /\ session' = IF spawned = Ranks
                           THEN [session EXCEPT !.workers = g] ELSE session
             /\ call' = [call EXCEPT ![t].group = g, ![t].in = "submit",
                            ![t].pc = IF spawned = Ranks THEN "post" ELSE "reap"]
<1>1. ~(UNCHANGED group /\ UNCHANGED groups)  BY StillKeeps DEF Execute
<1>2. PICK spawned \in SUBSET Ranks :
         /\ SpawnGroup(t, groups + 1, spawned)
         /\ session' = IF spawned = Ranks
                       THEN [session EXCEPT !.workers = groups + 1] ELSE session
         /\ call' = [call EXCEPT ![t].group = groups + 1, ![t].in = "submit",
                        ![t].pc = IF spawned = Ranks THEN "post" ELSE "reap"]
  BY <1>1 DEF Execute
<1> DEFINE g == groups + 1
           v == [r \in Ranks |-> IF r \in spawned THEN "waiting" ELSE "none"]
           b == spawned # Ranks
           i == call[t].ident
<1>3. g \in Groups /\ groups' = g /\ log' = log
  BY <1>1 DEF Execute, Types, SessionAssumption, Groups
<1>4. group' = [group EXCEPT ![g].ident = i, ![g].worker = v, ![g].closed = b]
  BY <1>2, Zenon DEF SpawnGroup
<1>5. \A r \in Ranks : v[r] = IF r \in spawned THEN "waiting" ELSE "none"  OBVIOUS
<1>6. i = call[t].ident /\ b = (spawned # Ranks) /\ g = groups + 1  OBVIOUS
<1> HIDE DEF i, v, b, g
<1>7. /\ \A h \in Groups : h # g => group'[h] = group[h]
      /\ group'[g].ident = i /\ group'[g].worker = v /\ group'[g].closed = b
      /\ group'[g].sequence = group[g].sequence /\ group'[g].request = group[g].request
      /\ group'[g].next = group[g].next /\ group'[g].done = group[g].done
  BY <1>3, <1>4, SpawnFields, Zenon
<1> WITNESS spawned \in SUBSET Ranks
<1> QED  BY <1>2, <1>3, <1>5, <1>6, <1>7

\* Collect advances the sequence of the group, or only closes it.
LEMMA CollectAdvances ==
    ASSUME Types, NEW t \in Threads, Collect(t), ~Keeps
    PROVE  LET g == call[t].group IN
           /\ log' = log /\ groups' = groups /\ Goto(t, "accept")
           /\ \A h \in Groups :
                /\ h # g => group'[h] = group[h]
                /\ group'[h].sequence =
                     IF h = g THEN group[h].sequence + 1 ELSE group[h].sequence
                /\ group'[h].ident = group[h].ident /\ group'[h].request = group[h].request
                /\ group'[h].next = group[h].next /\ group'[h].done = group[h].done
                /\ group'[h].worker = group[h].worker /\ group'[h].closed = group[h].closed
<1> DEFINE g == call[t].group
<1>1. group \in [Groups -> GroupState]  BY DEF Types
<1>2. ~CloseInSubmit(t)  BY ClosingKeeps DEF Collect, CloseInSubmit
<1>3. group' = [group EXCEPT ![g].sequence = group[g].sequence + 1] /\ Goto(t, "accept")
      /\ log' = log /\ groups' = groups
  BY <1>2 DEF Collect, NextSequence
<1> HIDE DEF g
<1>4. \A h \in Groups : h # g => group'[h] = group[h]  BY <1>1, <1>3
<1>5. \A h \in Groups :
        h = g => group'[h] = [group[h] EXCEPT !.sequence = group[h].sequence + 1]
  BY <1>1, <1>3
<1>6. \A h \in Groups : group[h] \in GroupState  BY <1>1
<1>7. \A h \in Groups :
                /\ group'[h].sequence =
                     IF h = g THEN group[h].sequence + 1 ELSE group[h].sequence
                /\ group'[h].ident = group[h].ident /\ group'[h].request = group[h].request
                /\ group'[h].next = group[h].next /\ group'[h].done = group[h].done
                /\ group'[h].worker = group[h].worker /\ group'[h].closed = group[h].closed
  BY <1>4, <1>5, <1>6 DEF GroupState
<1> QED  BY <1>3, <1>4, <1>7, Zenon DEF g

\* Post writes one request, or only raises.
LEMMA PostWrites ==
    ASSUME Types, NEW t \in Threads, Post(t), ~Keeps
    PROVE  LET g == call[t].group
               k == group[g].sequence IN
           /\ log' = log /\ groups' = groups /\ Goto(t, "poll") /\ ~group[g].closed
           /\ \A h \in Groups :
                /\ h # g => group'[h] = group[h]
                /\ \A s \in Seqs : group'[h].request[s] =
                     IF h = g /\ s = k THEN call[t].run ELSE group[h].request[s]
                /\ group'[h].ident = group[h].ident /\ group'[h].sequence = group[h].sequence
                /\ group'[h].next = group[h].next /\ group'[h].done = group[h].done
                /\ group'[h].worker = group[h].worker /\ group'[h].closed = group[h].closed
<1> DEFINE g == call[t].group
           k == group[g].sequence
           n == call[t].run
<1>1. group \in [Groups -> GroupState]  BY DEF Types
<1>2. ~group[g].closed  BY StillKeeps DEF Post
<1>3. group' = [group EXCEPT ![g].request[k] = n] /\ Goto(t, "poll")
      /\ log' = log /\ groups' = groups
  BY <1>2 DEF Post
<1> HIDE DEF g, k, n
<1>4. \A h \in Groups : h # g => group'[h] = group[h]  BY <1>1, <1>3
<1>5. \A h \in Groups :
        h = g => group'[h] = [group[h] EXCEPT !.request = [group[h].request EXCEPT ![k] = n]]
  BY <1>1, <1>3
<1>6. \A h \in Groups : group[h] \in GroupState  BY <1>1
<1>7. \A h \in Groups :
                /\ \A s \in Seqs : group'[h].request[s] =
                     IF h = g /\ s = k THEN n ELSE group[h].request[s]
                /\ group'[h].ident = group[h].ident /\ group'[h].sequence = group[h].sequence
                /\ group'[h].next = group[h].next /\ group'[h].done = group[h].done
                /\ group'[h].worker = group[h].worker /\ group'[h].closed = group[h].closed
  <2> SUFFICES ASSUME NEW h \in Groups
               PROVE  /\ \A s \in Seqs : group'[h].request[s] =
                           IF h = g /\ s = k THEN n ELSE group[h].request[s]
                      /\ group'[h].ident = group[h].ident
                      /\ group'[h].sequence = group[h].sequence
                      /\ group'[h].next = group[h].next /\ group'[h].done = group[h].done
                      /\ group'[h].worker = group[h].worker
                      /\ group'[h].closed = group[h].closed
    OBVIOUS
  <2>1. CASE h # g  BY <2>1, <1>4
  <2>2. CASE h = g
    <3>1. group[h] \in GroupState  BY <1>6
    <3>2. group'[h] = [group[h] EXCEPT !.request = [group[h].request EXCEPT ![k] = n]]
      BY <2>2, <1>5
    <3>3. /\ group'[h].ident = group[h].ident
          /\ group'[h].sequence = group[h].sequence
          /\ group'[h].next = group[h].next /\ group'[h].done = group[h].done
          /\ group'[h].worker = group[h].worker /\ group'[h].closed = group[h].closed
          /\ group'[h].request = [group[h].request EXCEPT ![k] = n]
      BY <3>1, <3>2 DEF GroupState
    <3>4. DOMAIN group[h].request = Seqs  BY <3>1 DEF GroupState, Seqs
    <3>5. \A s \in Seqs : group'[h].request[s] = IF s = k THEN n ELSE group[h].request[s]
      BY <3>3, <3>4
    <3> QED  BY <2>2, <3>3, <3>5
  <2> QED  BY <2>1, <2>2
<1> QED  BY <1>2, <1>3, <1>4, <1>7, Zenon DEF g, k, n

\* Only a post writes a request (resident_transport.py:44-50).
LEMMA RequestsStay ==
    ASSUME SessionAssumption, Types, Next, \A t \in Threads : ~Post(t)
    PROVE  \A h \in Groups : group'[h].request = group[h].request
<1> DEFINE Goal == \A h \in Groups : group'[h].request = group[h].request
<1>1. CASE Keeps  BY <1>1 DEF Keeps, SameMail
<1>2. ASSUME ~Keeps, NEW t \in Threads, Execute(t)  PROVE Goal
  BY <1>2, ExecuteSpawns, Zenon
<1>3. ASSUME ~Keeps, NEW t \in Threads, Collect(t)  PROVE Goal
  BY <1>3, CollectAdvances
<1>4. ASSUME NEW g \in Groups, NEW r \in Ranks, TakeRequest(g, r) \/ FinishSearch(g, r)
      PROVE  Goal
  <2>1. Turns(g, r, "searching") \/ Turns(g, r, "finished")
    BY <1>4, TurnTurns, Zenon DEF TakeRequest, FinishSearch
  <2> QED  BY <2>1 DEF Turns, SameMail
<1>5. ASSUME NEW g \in Groups, NEW r \in Ranks, WriteReceipt(g, r)  PROVE Goal
  BY <1>5, ReceiptFields
<1> HIDE DEF Goal
<1>6. Goal  BY <1>1, <1>2, <1>3, <1>4, <1>5, OthersKeep DEF Goal
<1> QED  BY <1>6 DEF Goal

\* A step of one thread at a time: who holds the lock is alone past acquire.
LEMMA AloneUnderLock ==
    ASSUME LockInv, NEW t \in Threads, call[t].pc \notin {"idle", "acquire"}
    PROVE  \A u \in Threads : u # t => call[u].pc \in {"idle", "acquire"}
BY DEF LockInv

\* Every step keeps each search posted at one sequence of one group at most.
LEMMA PostedInvKept ==
    ASSUME SessionAssumption, Types, LockInv, RunsInv, PostedInv, WorkersInv, CallInv, Next
    PROVE  PostedInv'
<1>a. call \in [Threads -> CallState] /\ runs \in 0..MaxRuns /\ MaxRuns \in Nat
  BY DEF Types, SessionAssumption
<1>b. \A h \in Groups, s \in Seqs : group[h].request[s] \in Nat
  <2>1. group \in [Groups -> GroupState]  BY DEF Types
  <2>2. \A h \in Groups : group[h].request \in [Seqs -> Seqs]  BY <2>1 DEF GroupState, Seqs
  <2> QED  BY <2>2, <1>a DEF Seqs
<1>1. ASSUME NEW t \in Threads, Begin(t)  PROVE PostedInv'
  <2>1. UNCHANGED group /\ runs' = runs + 1  BY <1>1 DEF Begin
  <2>2. call'[t].run = runs + 1 /\ \A u \in Threads : u # t => call'[u] = call[u]
    BY <1>1, <1>a DEF Begin, Idle
  <2>3. \A g \in Groups, s \in Seqs : group'[g].request[s] <= runs'
    BY <2>1, <1>a, <1>b DEF PostedInv
  <2>4. ASSUME NEW u \in Threads, Unposted(u)', NEW g \in Groups, NEW s \in Seqs
        PROVE  group'[g].request[s] # call'[u].run
    <3>1. CASE u = t  BY <3>1, <2>1, <2>2, <1>a, <1>b DEF PostedInv
    <3>2. CASE u # t  BY <3>2, <2>1, <2>2, <2>4 DEF PostedInv, Unposted
    <3> QED  BY <3>1, <3>2
  <2> QED  BY <2>1, <2>3, <2>4 DEF PostedInv
<1>2. ASSUME \A t \in Threads : ~Post(t) /\ ~Begin(t)  PROVE PostedInv'
  <2>1. \A h \in Groups : group'[h].request = group[h].request  BY <1>2, RequestsStay
  <2>2. \A u \in Threads : Unposted(u)' => Unposted(u) /\ call'[u].run = call[u].run
    BY <1>2, UnpostedStay
  <2>3. runs' = runs
    <3>1. ASSUME NEW t \in Threads, Enter(t) \/ Close(t) \/ Exit(t) \/ Interrupt(t) \/ Elapse(t)
          PROVE  runs' = runs
      BY <3>1 DEF Enter, Close, Exit, Interrupt, Elapse
    <3>2. ASSUME NEW t \in Threads, ThreadStep(t)  PROVE runs' = runs
      BY <1>2, <3>2 DEF ThreadStep, Acquire, Compare, Execute, Poll, Collect, Accept, Release, Reap
    <3>3. ASSUME NEW g \in Groups, NEW r \in Ranks,
                 \/ TakeRequest(g, r) \/ FinishSearch(g, r) \/ WriteReceipt(g, r)
                 \/ ObeyStop(g, r) \/ WorkerDies(g, r)
          PROVE  runs' = runs
      BY <3>3, Zenon DEF TakeRequest, FinishSearch, WriteReceipt, ObeyStop, WorkerDies
    <3> QED  BY <1>2, <3>1, <3>2, <3>3 DEF Next, ParentDies
  <2> QED  BY <2>1, <2>2, <2>3 DEF PostedInv
<1>3. ASSUME NEW t \in Threads, Post(t)  PROVE PostedInv'
  <2>1. call[t].pc = "post" /\ runs' = runs  BY <1>3 DEF Post, At
  <2>2. Unposted(t) /\ call[t].run # 0 /\ call[t].run <= runs
    BY <2>1 DEF Unposted, RunsInv
  <2>3. \A u \in Threads : u # t => call'[u] = call[u]
    BY <1>3, <1>a DEF Post, Raise, Goto
  <2>4. ~Unposted(t)'
    BY <1>3, <1>a DEF Post, Raise, Goto, Unposted, CallState
  <2>5. \A u \in Threads : Unposted(u)' =>
           u # t /\ Unposted(u) /\ call'[u].run = call[u].run /\ call[u].run # call[t].run
    BY <2>2, <2>3, <2>4 DEF Unposted, RunsInv
  <2>6. CASE Keeps
    <3>1. \A h \in Groups : group'[h].request = group[h].request  BY <2>6 DEF Keeps, SameMail
    <3> QED  BY <2>1, <2>5, <3>1 DEF PostedInv
  <2>7. CASE ~Keeps
    <3> DEFINE g == call[t].group
               k == group[g].sequence
    <3>1. \A h \in Groups, s \in Seqs : group'[h].request[s] =
             IF h = g /\ s = k THEN call[t].run ELSE group[h].request[s]
      BY <1>3, <2>7, PostWrites
    <3> HIDE DEF g, k
    <3>2. \A h \in Groups, s \in Seqs : group'[h].request[s] <= runs'
      BY <2>1, <2>2, <3>1 DEF PostedInv
    <3>3. ASSUME NEW h \in Groups, NEW f \in Groups, NEW s \in Seqs, NEW j \in Seqs,
                 group'[h].request[s] = group'[f].request[j], group'[h].request[s] # 0
          PROVE  h = f /\ s = j
      BY <2>2, <3>1, <3>3 DEF PostedInv
    <3>4. ASSUME NEW u \in Threads, Unposted(u)', NEW h \in Groups, NEW s \in Seqs
          PROVE  group'[h].request[s] # call'[u].run
      BY <2>5, <3>1, <3>4 DEF PostedInv
    <3> QED  BY <3>2, <3>3, <3>4 DEF PostedInv
  <2> QED  BY <2>6, <2>7
<1> QED  BY <1>1, <1>2, <1>3

----------------------------------------------------------------------------
(* The workers of every group stay in step with their mailbox.              *)

\* A step that moves no mail keeps the workers in step with their mailboxes.
LEMMA KeepsWorkers ==
    ASSUME WorkersInv, Keeps
    PROVE  WorkersInv'
<1> SUFFICES ASSUME NEW h \in Groups
             PROVE  /\ Unstarted(h)' /\ InOrder(h)'
                    /\ \A r \in Ranks : InTurn(h, r)' /\ Receipted(h, r)' /\ Searching(h, r)'
  BY DEF WorkersInv
<1>1. /\ log' = log /\ groups' = groups
      /\ group'[h].ident = group[h].ident /\ group'[h].sequence = group[h].sequence
      /\ group'[h].request = group[h].request /\ group'[h].next = group[h].next
      /\ group'[h].done = group[h].done
  BY DEF Keeps, SameMail
<1>2. \A r \in Ranks : group'[h].worker[r] = group[h].worker[r]
               \/ (group'[h].worker[r] = "dead" /\ group[h].worker[r] # "none")
  BY DEF Keeps
<1>3. Unstarted(h)'  BY <1>1, <1>2 DEF WorkersInv, Unstarted
<1>4. InOrder(h)'  BY <1>1 DEF WorkersInv, InOrder
<1>5. ASSUME NEW r \in Ranks  PROVE InTurn(h, r)' /\ Receipted(h, r)'
  BY <1>1 DEF WorkersInv, InTurn, Receipted, Full
<1>6. ASSUME NEW r \in Ranks  PROVE Searching(h, r)'
  BY <1>1, <1>2 DEF WorkersInv, Searching, Written, Full, Partial
<1> QED  BY <1>3, <1>4, <1>5, <1>6

\* A group that is as it was, in a step that writes no log.
LEMMA SameGroup ==
    ASSUME WorkersInv, NEW h \in Groups, group'[h] = group[h], log' = log,
           h > groups' => h > groups
    PROVE  /\ Unstarted(h)' /\ InOrder(h)'
           /\ \A r \in Ranks : InTurn(h, r)' /\ Receipted(h, r)' /\ Searching(h, r)'
<1>1. Unstarted(h)' /\ InOrder(h)'  BY DEF WorkersInv, Unstarted, InOrder
<1>2. ASSUME NEW r \in Ranks  PROVE InTurn(h, r)' /\ Receipted(h, r)'
  BY DEF WorkersInv, InTurn, Receipted, Full
<1>3. ASSUME NEW r \in Ranks  PROVE Searching(h, r)'
  <2>1. Searching(h, r)  BY DEF WorkersInv
  <2> QED  BY <2>1 DEF Searching, Written, Full, Partial
<1> QED  BY <1>1, <1>2, <1>3

\* A group just started has workers that wait at the first request.
LEMMA SpawnKeepsWorkers ==
    ASSUME SessionAssumption, Types, WorkersInv, NEW t \in Threads, Execute(t)
    PROVE  WorkersInv'
<1>1. CASE Keeps  BY <1>1, KeepsWorkers
<1>2. ASSUME ~Keeps  PROVE WorkersInv'
  <2>0. groups + 1 \in Groups  BY <1>2, ExecuteSpawns, Zenon
  <2> PICK g \in Groups : g = groups + 1  BY <2>0
  <2>1. /\ g \in Groups /\ groups' = g /\ log' = log
        /\ \A h \in Groups : h # g => group'[h] = group[h]
        /\ group'[g].sequence = group[g].sequence /\ group'[g].request = group[g].request
        /\ group'[g].next = group[g].next /\ group'[g].done = group[g].done
        /\ \A r \in Ranks : group'[g].worker[r] \in {"waiting", "none"}
    BY <1>2, ExecuteSpawns, Zenon
  <2>2. groups \in Nat  BY DEF Types, SessionAssumption
  <2>3. ASSUME NEW h \in Groups, h # g
        PROVE  /\ Unstarted(h)' /\ InOrder(h)'
               /\ \A r \in Ranks : InTurn(h, r)' /\ Receipted(h, r)' /\ Searching(h, r)'
    <3>1. group'[h] = group[h] /\ log' = log  BY <2>1, <2>3
    <3>2. h > groups' => h > groups  BY <2>1, <2>2 DEF Groups
    <3> QED  BY <3>1, <3>2, SameGroup
  <2>4. /\ Unstarted(g)' /\ InOrder(g)'
        /\ \A r \in Ranks : InTurn(g, r)' /\ Receipted(g, r)' /\ Searching(g, r)'
    <3>1. g > groups /\ ~(g > groups')  BY <2>1, <2>2
    <3>2. /\ group[g].sequence = 0 /\ \A s \in Seqs : group[g].request[s] = 0
          /\ \A r \in Ranks : group[g].next[r] = 0
          /\ InOrder(g) /\ \A r \in Ranks : InTurn(g, r) /\ Receipted(g, r)
      BY <2>1, <3>1 DEF WorkersInv, Unstarted
    <3>3. Unstarted(g)' /\ InOrder(g)'  BY <2>1, <3>1, <3>2 DEF Unstarted, InOrder
    <3>4. ASSUME NEW r \in Ranks  PROVE InTurn(g, r)' /\ Searching(g, r)'
      BY <2>1, <3>2 DEF InTurn, Searching
    <3>5. ASSUME NEW r \in Ranks  PROVE Receipted(g, r)'
      <4>1. \A s \in Seqs : ~(s < 0)  BY DEF Seqs
      <4> QED  BY <2>1, <3>2, <4>1 DEF Receipted
    <3> QED  BY <3>3, <3>4, <3>5
  <2> QED  BY <2>3, <2>4 DEF WorkersInv
<1> QED  BY <1>1, <1>2

\* A search is posted where nothing was posted before.
LEMMA PostsToEmpty ==
    ASSUME LockInv, CallInv, HandleInv, NEW t \in Threads, call[t].pc = "post"
    PROVE  group[call[t].group].request[group[call[t].group].sequence] = 0
<1>1. \A u \in Threads : u # t => call[u].pc \in {"idle", "acquire"}  BY AloneUnderLock
<1>2. \A u \in Threads : ~InFlight(u)  BY <1>1 DEF InFlight
<1>3. call[t].group = session.workers /\ call[t].group # 0
  BY DEF CallInv, CallFits, Submitting
<1> QED  BY <1>2, <1>3 DEF HandleInv, Emptied, Clear

\* A call inside the transport, or reaping, is about a group that was started.
LEMMA GroupAtWork ==
    ASSUME SessionAssumption, Types, CallInv, NEW t \in Threads,
           call[t].pc \in Submitting \/ call[t].pc = "reap"
    PROVE  call[t].group \in Groups
<1>1. call[t].group \in 0..MaxGroups /\ MaxGroups \in Nat
  BY DEF Types, CallState, SessionAssumption
<1>2. call[t].group # 0  BY DEF CallInv, CallFits
<1> QED  BY <1>1, <1>2 DEF Groups

\* Posting, and advancing past the request all ranks receipted, keep the workers in
\* step.
LEMMA PostKeepsWorkers ==
    ASSUME SessionAssumption, Types, LockInv, RunsInv, WorkersInv, CallInv, HandleInv,
           NEW t \in Threads, Post(t)
    PROVE  WorkersInv'
<1>1. CASE Keeps  BY <1>1, KeepsWorkers
<1>2. ASSUME ~Keeps  PROVE WorkersInv'
  <2>0. call[t].pc = "post"  BY DEF Post, At
  <2>4. call[t].group \in Groups  BY <2>0, GroupAtWork DEF Submitting
  <2> PICK g \in Groups : g = call[t].group  BY <2>4
  <2> PICK k : k = group[g].sequence  OBVIOUS
  <2>1. /\ log' = log /\ groups' = groups
        /\ \A h \in Groups :
             /\ h # g => group'[h] = group[h]
             /\ \A s \in Seqs : group'[h].request[s] =
                  IF h = g /\ s = k THEN call[t].run ELSE group[h].request[s]
             /\ group'[h].ident = group[h].ident /\ group'[h].sequence = group[h].sequence
             /\ group'[h].next = group[h].next /\ group'[h].done = group[h].done
             /\ group'[h].worker = group[h].worker
    BY <1>2, PostWrites
  <2>2. group[g].request[k] = 0  BY <2>0, PostsToEmpty
  <2>3. call[t].run # 0  BY <2>0 DEF RunsInv, Unposted
  <2>5. g <= groups  BY DEF HandleInv, Started
  <2> SUFFICES ASSUME NEW h \in Groups
               PROVE  /\ Unstarted(h)' /\ InOrder(h)'
                      /\ \A r \in Ranks : InTurn(h, r)' /\ Receipted(h, r)' /\ Searching(h, r)'
    BY DEF WorkersInv
  <2>7. CASE h # g  BY <2>1, <2>7, SameGroup
  <2>8. CASE h = g
    <3>0. /\ \A s \in Seqs : group'[g].request[s] =
               IF s = k THEN call[t].run ELSE group[g].request[s]
          /\ group'[g].ident = group[g].ident /\ group'[g].sequence = group[g].sequence
          /\ group'[g].next = group[g].next /\ group'[g].done = group[g].done
          /\ group'[g].worker = group[g].worker
      BY <2>1, <2>4
    <3>1. Unstarted(g)'
      <4>1. g \in Nat /\ groups \in Nat  BY <2>4 DEF Types, SessionAssumption, Groups
      <4> QED  BY <2>1, <2>5, <4>1 DEF Unstarted
    <3>2. k \in Nat  BY <2>4 DEF Types, GroupState, SessionAssumption
    <3>3. InOrder(g)'
      BY <3>0, <3>2, <2>4 DEF WorkersInv, InOrder, Seqs
    <3>4. ASSUME NEW r \in Ranks  PROVE InTurn(g, r)' /\ Receipted(g, r)' /\ Searching(g, r)'
      <4>1. InTurn(g, r)'  BY <3>0, <2>4 DEF WorkersInv, InTurn
      <4>2. Receipted(g, r)'
        BY <3>0, <2>1, <2>2, <2>3, <2>4, SMTT(30) DEF WorkersInv, Receipted, Full
      <4>3. Searching(g, r)'
        <5>1. SUFFICES ASSUME group[g].worker[r] \in {"searching", "finished"}
                       PROVE  Searching(g, r)'
          BY <3>0, Zenon DEF Searching
        <5>2. /\ group[g].next[r] \in Seqs /\ group[g].request[group[g].next[r]] # 0
              /\ log[group[g].request[group[g].next[r]]][r] = Written(g, r)
          BY <5>1, <2>4 DEF WorkersInv, Searching
        <5>3. group'[g].request[group[g].next[r]] = group[g].request[group[g].next[r]]
          BY <5>2, <3>0, <2>2, Zenon
        <5>4. Written(g, r)' = Written(g, r)  BY <3>0 DEF Written, Full, Partial
        <5>5. log'[group'[g].request[group[g].next[r]]][r] = Written(g, r)'
          BY <5>2, <5>3, <5>4, <2>1, Zenon
        <5>6. group'[g].next[r] = group[g].next[r]  BY <3>0
        <5> QED  BY <5>2, <5>3, <5>5, <5>6, Zenon DEF Searching
      <4> QED  BY <4>1, <4>2, <4>3
    <3> QED  BY <2>8, <3>1, <3>3, <3>4
  <2> QED  BY <2>7, <2>8
<1> QED  BY <1>1, <1>2

LEMMA CollectKeepsWorkers ==
    ASSUME SessionAssumption, Types, RunsInv, WorkersInv, CallInv, HandleInv,
           NEW t \in Threads, Collect(t)
    PROVE  WorkersInv'
<1>1. CASE Keeps  BY <1>1, KeepsWorkers
<1>2. ASSUME ~Keeps  PROVE WorkersInv'
  <2>0. call[t].pc = "collect"  BY DEF Collect, At
  <2>4. call[t].group \in Groups  BY <2>0, GroupAtWork DEF Submitting
  <2> PICK g \in Groups : g = call[t].group  BY <2>4
  <2> PICK k : k = group[g].sequence  OBVIOUS
  <2>1. /\ log' = log /\ groups' = groups
        /\ \A h \in Groups :
             /\ h # g => group'[h] = group[h]
             /\ group'[h].sequence = IF h = g THEN group[h].sequence + 1 ELSE group[h].sequence
             /\ group'[h].ident = group[h].ident /\ group'[h].request = group[h].request
             /\ group'[h].next = group[h].next /\ group'[h].done = group[h].done
             /\ group'[h].worker = group[h].worker
    BY <1>2, CollectAdvances
  <2>2. group[g].request[k] = call[t].run /\ Receipts(g) = Ranks
    BY <2>0 DEF CallInv, CallFits
  <2>3. call[t].run # 0  BY <2>0 DEF RunsInv, Submitting
  <2>5. g <= groups  BY DEF HandleInv, Started
  <2> SUFFICES ASSUME NEW h \in Groups
               PROVE  /\ Unstarted(h)' /\ InOrder(h)'
                      /\ \A r \in Ranks : InTurn(h, r)' /\ Receipted(h, r)' /\ Searching(h, r)'
    BY DEF WorkersInv
  <2>7. CASE h # g  BY <2>1, <2>7, SameGroup
  <2>8. CASE h = g
    <3>0. /\ group'[g].sequence = k + 1
          /\ group'[g].ident = group[g].ident /\ group'[g].request = group[g].request
          /\ group'[g].next = group[g].next /\ group'[g].done = group[g].done
          /\ group'[g].worker = group[g].worker
      BY <2>1, <2>4
    <3>1. Unstarted(g)'
      <4>1. g \in Nat /\ groups \in Nat  BY <2>4 DEF Types, SessionAssumption, Groups
      <4> QED  BY <2>1, <2>5, <4>1 DEF Unstarted
    <3>2. k \in Seqs /\ k \in Nat /\ MaxRuns \in Nat
      BY <2>4 DEF Types, GroupState, SessionAssumption, Seqs
    <3>3. InOrder(g)'
      BY <3>0, <3>2, <2>2, <2>3, <2>4 DEF WorkersInv, InOrder, Seqs
    <3>4. ASSUME NEW r \in Ranks  PROVE InTurn(g, r)' /\ Receipted(g, r)' /\ Searching(g, r)'
      <4>1. group[g].next[r] \in Nat  BY <2>4, <3>2 DEF Types, GroupState
      <4>2. k < group[g].next[r]
        <5>1. <<k, r>> \in group[g].done  BY <2>2 DEF Receipts
        <5> QED  BY <5>1, <3>2, <2>4 DEF WorkersInv, Receipted
      <4>3. InTurn(g, r)'
        BY <3>0, <3>2, <4>1, <4>2, <2>4 DEF WorkersInv, InTurn
      <4>4. Receipted(g, r)'  BY <3>0, <2>1, <2>4 DEF WorkersInv, Receipted, Full
      <4>5. Searching(g, r)'
        <5>1. Searching(g, r)  BY <2>4 DEF WorkersInv
        <5>2. Written(g, r)' = Written(g, r)  BY <3>0 DEF Written, Full, Partial
        <5> QED  BY <5>1, <5>2, <3>0, <2>1 DEF Searching
      <4> QED  BY <4>3, <4>4, <4>5
    <3> QED  BY <2>8, <3>1, <3>3, <3>4
  <2> QED  BY <2>7, <2>8
<1> QED  BY <1>1, <1>2

\* Rank r leaves e in the log of search n, and no other log changes.
Writes(n, r, e) ==
    \A m \in Runs, q \in Ranks : log'[m][q] = IF m = n /\ q = r THEN e ELSE log[m][q]

\* What one worker writes in its log, and the steps of one worker.
LEMMA PutWrites ==
    ASSUME Types, NEW n, NEW r, NEW e, log' = [log EXCEPT ![n][r] = e]
    PROVE  Writes(n, r, e)
<1>1. log \in [Runs -> [Ranks -> LogState]]  BY DEF Types
<1> QED  BY <1>1 DEF Writes

\* A worker turns to w and leaves e in the log of the request it is at: the
\* other logs that count are those of other requests, or of other ranks.
LEMMA WritingKeepsWorkers ==
    ASSUME SessionAssumption, Types, PostedInv, WorkersInv, NEW g \in Groups, NEW r \in Ranks,
           NEW w \in {"searching", "finished"}, Turns(g, r, w), groups' = groups,
           NEW n, n = group[g].request[group[g].next[r]], n # 0, group[g].worker[r] # "none",
           NEW e, Writes(n, r, e),
           w = "searching" => e = Partial(group[g].ident),
           w = "finished" => e = Full(group[g].ident)
    PROVE  WorkersInv'
<1>1. MaxRuns \in Nat  BY DEF SessionAssumption
<1>2. \A h \in Groups, s \in Seqs : group[h].request[s] \in Seqs
  <2>1. group \in [Groups -> GroupState]  BY DEF Types
  <2> QED  BY <2>1 DEF GroupState, Seqs
<1>3. \A h \in Groups, q \in Ranks : group[h].next[q] \in Seqs  BY NextFits
<1>4. \A h \in Groups, s \in Seqs : group[h].request[s] # 0 => group[h].request[s] \in Runs
  BY <1>1, <1>2 DEF Seqs, Runs
<1>5. n \in Runs  BY <1>3, <1>4
<1>6. \A m \in Runs, q \in Ranks : log'[m][q] = IF m = n /\ q = r THEN e ELSE log[m][q]
  BY DEF Writes
<1>7. ASSUME NEW h \in Groups, NEW s \in Seqs, group[h].request[s] = n
      PROVE  h = g /\ s = group[g].next[r]
  BY <1>3, <1>7 DEF PostedInv
<1> SUFFICES ASSUME NEW h \in Groups
             PROVE  /\ Unstarted(h)' /\ InOrder(h)'
                    /\ \A q \in Ranks : InTurn(h, q)' /\ Receipted(h, q)' /\ Searching(h, q)'
  BY DEF WorkersInv
<1>8. /\ group'[h].ident = group[h].ident /\ group'[h].sequence = group[h].sequence
      /\ group'[h].request = group[h].request /\ group'[h].next = group[h].next
      /\ group'[h].done = group[h].done
      /\ \A q \in Ranks :
           group'[h].worker[q] = IF h = g /\ q = r THEN w ELSE group[h].worker[q]
  BY DEF Turns, SameMail
<1>9. Unstarted(h)'
  <2>1. h > groups => h # g  BY DEF WorkersInv, Unstarted
  <2> QED  BY <2>1, <1>8 DEF WorkersInv, Unstarted
<1>10. InOrder(h)'  BY <1>8 DEF WorkersInv, InOrder
<1>11. ASSUME NEW q \in Ranks  PROVE InTurn(h, q)' /\ Receipted(h, q)' /\ Searching(h, q)'
  <2>1. InTurn(h, q)'  BY <1>8 DEF WorkersInv, InTurn
  <2>2. Receipted(h, q)'
    <3>1. ASSUME NEW s \in Seqs, s < group[h].next[q]
          PROVE  log'[group[h].request[s]][q] = Full(group[h].ident)
      <4>1. group[h].request[s] # 0 /\ log[group[h].request[s]][q] = Full(group[h].ident)
        BY <3>1 DEF WorkersInv, Receipted
      <4>2. group[h].request[s] \in Runs  BY <4>1, <1>4
      <4>3. ~(group[h].request[s] = n /\ q = r)
        <5>1. group[g].next[r] \in Nat  BY <1>1, <1>3 DEF Seqs
        <5> QED  BY <5>1, <3>1, <1>7
      <4> QED  BY <4>1, <4>2, <4>3, <1>6
    <3>2. \A s \in Seqs :
             /\ <<s, q>> \in group[h].done <=> s < group[h].next[q]
             /\ s < group[h].next[q] => group[h].request[s] # 0
      <4>1. Receipted(h, q)  BY DEF WorkersInv
      <4> QED  BY <4>1, Zenon DEF Receipted
    <3>3. Full(group[h].ident)' = Full(group[h].ident)  BY <1>8 DEF Full
    <3> QED  BY <3>1, <3>2, <3>3, <1>8 DEF Receipted
  <2>3. Searching(h, q)'
    <3> DEFINE k == group[h].next[q]
    <3>1. CASE h = g /\ q = r
      <4>1. k \in Seqs /\ group[h].request[k] = n  BY <3>1, <1>3
      <4>2. log'[n][q] = e  BY <3>1, <1>5, <1>6
      <4>3. group'[h].worker[q] = w  BY <3>1, <1>8
      <4>4. e = Written(h, q)'  BY <3>1, <4>3, <1>8 DEF Written, Full, Partial
      <4> QED  BY <3>1, <4>1, <4>2, <4>4, <1>8 DEF Searching
    <3>2. ASSUME ~(h = g /\ q = r), group[h].worker[q] \in {"searching", "finished"}
          PROVE  Searching(h, q)'
      <4>1. k \in Seqs /\ group[h].request[k] # 0
            /\ log[group[h].request[k]][q] = Written(h, q)
        BY <3>2 DEF WorkersInv, Searching
      <4>2. group[h].request[k] \in Runs  BY <4>1, <1>4
      <4>3. ~(group[h].request[k] = n /\ q = r)  BY <4>1, <3>2, <1>7
      <4>4. log'[group[h].request[k]][q] = Written(h, q)  BY <4>1, <4>2, <4>3, <1>6
      <4>5. Written(h, q)' = Written(h, q)  BY <3>2, <1>8 DEF Written, Full, Partial
      <4> QED  BY <4>1, <4>4, <4>5, <1>8 DEF Searching
    <3>3. ASSUME ~(h = g /\ q = r), group[h].worker[q] \notin {"searching", "finished"}
          PROVE  Searching(h, q)'
      BY <3>3, <1>8 DEF Searching
    <3> QED  BY <3>1, <3>2, <3>3
  <2> QED  BY <2>1, <2>2, <2>3
<1> QED  BY <1>9, <1>10, <1>11

LEMMA TakeKeepsWorkers ==
    ASSUME SessionAssumption, Types, PostedInv, WorkersInv, NEW g \in Groups, NEW r \in Ranks,
           TakeRequest(g, r)
    PROVE  WorkersInv'
<1>1. Turns(g, r, "searching")  BY TurnTurns DEF TakeRequest
<1>2. PICK n : n = group[g].request[group[g].next[r]]  OBVIOUS
<1>3. n # 0 /\ groups' = groups /\ group[g].worker[r] # "none"
      /\ log' = [log EXCEPT ![n][r] = Partial(group[g].ident)]
  BY <1>2 DEF TakeRequest, Partial
<1>4. Writes(n, r, Partial(group[g].ident))  BY <1>3, PutWrites, Zenon
<1> QED  BY <1>1, <1>2, <1>3, <1>4, WritingKeepsWorkers

LEMMA FinishKeepsWorkers ==
    ASSUME SessionAssumption, Types, PostedInv, WorkersInv, NEW g \in Groups, NEW r \in Ranks,
           FinishSearch(g, r)
    PROVE  WorkersInv'
<1>1. Turns(g, r, "finished")  BY TurnTurns, Zenon DEF FinishSearch
<1>2. PICK n : n = group[g].request[group[g].next[r]]  OBVIOUS
<1>3. groups' = groups /\ group[g].worker[r] = "searching"
      /\ log' = [log EXCEPT ![n][r].text = "full"]
  BY <1>2, Zenon DEF FinishSearch
<1>4. n # 0 /\ log[n][r] = Partial(group[g].ident)
  BY <1>2, <1>3, Zenon DEF WorkersInv, Searching, Written
<1>5. log' = [log EXCEPT ![n][r] = Full(group[g].ident)]
  <2>1. [log[n][r] EXCEPT !.text = "full"] = Full(group[g].ident)
    BY <1>4 DEF Partial, Full
  <2>2. log' = [log EXCEPT ![n][r] = [log[n][r] EXCEPT !.text = "full"]]  BY <1>3
  <2> QED  BY <2>1, <2>2
<1>6. Writes(n, r, Full(group[g].ident))  BY <1>5, PutWrites
<1> QED  BY <1>1, <1>2, <1>3, <1>4, <1>6, WritingKeepsWorkers, Zenon

LEMMA ReceiptKeepsWorkers ==
    ASSUME SessionAssumption, Types, PostedInv, WorkersInv, NEW g \in Groups, NEW r \in Ranks,
           WriteReceipt(g, r)
    PROVE  WorkersInv'
<1>1. /\ \A h \in Groups : h # g => group'[h] = group[h]
      /\ group'[g].ident = group[g].ident
      /\ group'[g].sequence = group[g].sequence /\ group'[g].request = group[g].request
      /\ group'[g].done = group[g].done \cup {<<group[g].next[r], r>>}
      /\ \A q \in Ranks :
           /\ group'[g].next[q] = IF q = r THEN group[g].next[r] + 1 ELSE group[g].next[q]
           /\ group'[g].worker[q] = IF q = r THEN "waiting" ELSE group[g].worker[q]
  BY ReceiptFields
<1>2. log' = log /\ groups' = groups /\ group[g].worker[r] = "finished"  BY DEF WriteReceipt
<1>3. /\ group[g].next[r] \in Seqs /\ group[g].request[group[g].next[r]] # 0
      /\ log[group[g].request[group[g].next[r]]][r] = Full(group[g].ident)
  BY <1>2 DEF WorkersInv, Searching, Written
<1>4. MaxRuns \in Nat /\ group[g].sequence \in Nat
  BY DEF Types, GroupState, SessionAssumption
<1> SUFFICES ASSUME NEW h \in Groups
             PROVE  /\ Unstarted(h)' /\ InOrder(h)'
                    /\ \A q \in Ranks : InTurn(h, q)' /\ Receipted(h, q)' /\ Searching(h, q)'
  BY DEF WorkersInv
<1>5. CASE h # g  BY <1>1, <1>2, <1>5, SameGroup
<1>6. CASE h = g
  <2>1. Unstarted(g)'  BY <1>2 DEF WorkersInv, Unstarted
  <2>2. InOrder(g)'  BY <1>1 DEF WorkersInv, InOrder
  <2>3. ASSUME NEW q \in Ranks, q # r  PROVE InTurn(g, q)' /\ Receipted(g, q)' /\ Searching(g, q)'
    <3>1. group'[g].next[q] = group[g].next[q] /\ group'[g].worker[q] = group[g].worker[q]
      BY <1>1, <2>3
    <3>2. \A s \in Seqs : <<s, q>> \in group'[g].done <=> <<s, q>> \in group[g].done
      BY <1>1, <2>3
    <3>3. InTurn(g, q)'  BY <1>1, <3>1 DEF WorkersInv, InTurn
    <3>4. Receipted(g, q)'  BY <1>1, <1>2, <3>1, <3>2 DEF WorkersInv, Receipted, Full
    <3>5. Searching(g, q)'
      BY <1>1, <1>2, <3>1 DEF WorkersInv, Searching, Written, Full, Partial
    <3> QED  BY <3>3, <3>4, <3>5
  <2> PICK k : k = group[g].next[r]  OBVIOUS
  <2>4. k \in Nat /\ k \in Seqs  BY <1>3, <1>4 DEF Seqs
  <2>5. group'[g].next[r] = k + 1 /\ group'[g].worker[r] = "waiting"  BY <1>1
  <2>6. InTurn(g, r)'
    <3>1. group[g].sequence <= k /\ k <= group[g].sequence
      BY <1>3, <1>4, <2>4 DEF WorkersInv, InTurn, InOrder
    <3> QED  BY <1>1, <1>4, <2>4, <2>5, <3>1 DEF InTurn
  <2>7. Receipted(g, r)'
    <3>1. ASSUME NEW s \in Seqs
          PROVE  /\ <<s, r>> \in group'[g].done <=> s < k + 1
                 /\ s < k + 1 => group[g].request[s] # 0
                 /\ s < k + 1 => log[group[g].request[s]][r] = Full(group[g].ident)
      <4>1. s < k + 1 <=> s < k \/ s = k  BY <1>4, <2>4 DEF Seqs
      <4>2. <<s, r>> \in group'[g].done <=> <<s, r>> \in group[g].done \/ s = k  BY <1>1
      <4>3. <<s, r>> \in group[g].done <=> s < k  BY DEF WorkersInv, Receipted
      <4>4. CASE s < k  BY <4>1, <4>2, <4>3, <4>4 DEF WorkersInv, Receipted
      <4>5. CASE ~(s < k)  BY <4>1, <4>2, <4>3, <4>5, <1>3
      <4> QED  BY <4>4, <4>5
    <3> QED  BY <1>1, <1>2, <2>5, <3>1 DEF Receipted, Full
  <2>8. Searching(g, r)'  BY <2>5 DEF Searching
  <2> QED  BY <1>6, <2>1, <2>2, <2>3, <2>6, <2>7, <2>8
<1> QED  BY <1>5, <1>6

\* Every step keeps the workers in step with their mailboxes.
LEMMA WorkersInvKept ==
    ASSUME SessionAssumption, Types, LockInv, RunsInv, PostedInv, WorkersInv, CallInv, HandleInv,
           Next
    PROVE  WorkersInv'
BY OthersKeep, KeepsWorkers, SpawnKeepsWorkers, PostKeepsWorkers, CollectKeepsWorkers,
   TakeKeepsWorkers, FinishKeepsWorkers, ReceiptKeepsWorkers

----------------------------------------------------------------------------
(* What a call knows of the group it works with, and the session of its own. *)

\* The mailboxes say what they said: groups may be closed and receipts added.
MailHeld == \A h \in Groups :
    /\ group'[h].ident = group[h].ident /\ group'[h].request = group[h].request
    /\ group'[h].sequence = group[h].sequence
    /\ (group[h].closed => group'[h].closed) /\ group[h].done \subseteq group'[h].done

\* A call that touches no group.
Aside(c) == \/ c.pc \in {"idle", "acquire", "compare"}
            \/ c.pc = "release" /\ c.after # "raise"

SameCall(c, d) == c.pc = d.pc /\ c.ident = d.ident /\ c.run = d.run /\ c.group = d.group
                  /\ c.after = d.after /\ c.in = d.in

\* The steps that hold the mail of a group still are those of OthersKeep, and a
\* worker.
LEMMA KeepsHolds == ASSUME Keeps PROVE MailHeld
BY DEF Keeps, MailHeld, SameMail

LEMMA WorkersHold ==
    ASSUME Types, NEW g \in Groups, NEW r \in Ranks,
           TakeRequest(g, r) \/ FinishSearch(g, r) \/ WriteReceipt(g, r)
    PROVE  MailHeld
<1>1. CASE TakeRequest(g, r) \/ FinishSearch(g, r)
  <2>1. Turns(g, r, "searching") \/ Turns(g, r, "finished")
    BY <1>1, TurnTurns, Zenon DEF TakeRequest, FinishSearch
  <2> QED  BY <2>1 DEF Turns, SameMail, MailHeld
<1>2. CASE WriteReceipt(g, r)
  <2>1. /\ \A h \in Groups : h # g => group'[h] = group[h]
        /\ group'[g].ident = group[g].ident /\ group'[g].closed = group[g].closed
        /\ group'[g].sequence = group[g].sequence /\ group'[g].request = group[g].request
        /\ group'[g].done = group[g].done \cup {<<group[g].next[r], r>>}
    BY <1>2, ReceiptFields
  <2> SUFFICES ASSUME NEW h \in Groups
               PROVE  /\ group'[h].ident = group[h].ident /\ group'[h].request = group[h].request
                      /\ group'[h].sequence = group[h].sequence
                      /\ (group[h].closed => group'[h].closed)
                      /\ group[h].done \subseteq group'[h].done
    BY DEF MailHeld
  <2>2. CASE h # g  BY <2>1, <2>2
  <2>3. CASE h = g  BY <2>1, <2>3
  <2> QED  BY <2>2, <2>3
<1> QED  BY <1>1, <1>2

\* A call that stays as it is, of a session that keeps its group.
LEMMA CallStands ==
    ASSUME SessionAssumption, Types, CallInv, MailHeld, session'.workers = session.workers,
           NEW t \in Threads, SameCall(call[t], call'[t])
    PROVE  CallFits(t)'
<1>1. call'[t].pc = call[t].pc /\ call'[t].ident = call[t].ident /\ call'[t].run = call[t].run
      /\ call'[t].group = call[t].group /\ call'[t].in = call[t].in
  BY DEF SameCall
<1>2. CallFits(t)  BY DEF CallInv
<1> PICK g : g = call[t].group  OBVIOUS
<1>3. CASE ~(call[t].pc \in Submitting \/ call[t].pc = "reap")
  BY <1>1, <1>2, <1>3 DEF CallFits, Submitting
<1>4. CASE call[t].pc \in Submitting \/ call[t].pc = "reap"
  <2>1. g \in Groups  BY <1>4, GroupAtWork
  <2>2. /\ group'[g].ident = group[g].ident /\ group'[g].request = group[g].request
        /\ group'[g].sequence = group[g].sequence
        /\ (group[g].closed => group'[g].closed) /\ group[g].done \subseteq group'[g].done
    BY <2>1 DEF MailHeld
  <2>4. CASE call[t].pc = "collect"
    <3>1. Receipts(g) = Ranks  BY <1>2, <2>4 DEF CallFits
    <3>2. {r \in Ranks : <<group'[g].sequence, r>> \in group'[g].done} = Ranks
      BY <2>2, <3>1 DEF Receipts
    <3>3. Receipts(call[t].group)' = Ranks  BY <1>1, <3>2 DEF Receipts
    <3> HIDE DEF Receipts
    <3> QED  BY <1>1, <1>2, <2>2, <2>4, <3>3 DEF CallFits, Submitting
  <2>5. CASE call[t].pc # "collect"
    BY <1>1, <1>2, <2>2, <2>5 DEF CallFits, Submitting
  <2> QED  BY <2>4, <2>5
<1> QED  BY <1>3, <1>4

\* A call that did not move fits what it fitted; it is in flight as before.
LEMMA AsideFits ==
    ASSUME NEW t \in Threads, Aside(call'[t])
    PROVE  CallFits(t)' /\ ~InFlight(t)'
BY DEF Aside, CallFits, InFlight, Submitting

LEMMA AsideNotInFlight ==
    ASSUME NEW t \in Threads, Aside(call[t])
    PROVE  ~InFlight(t)
BY DEF Aside, InFlight

\* Steps that neither move a request nor touch the session's handle.
LEMMA StandingStill ==
    ASSUME SessionAssumption, Types, CallInv, HandleInv, MailHeld, groups' = groups,
           session'.workers = session.workers, session'.identity = session.identity,
           \A u \in Threads : \/ SameCall(call[u], call'[u])
                              \/ Aside(call[u]) /\ Aside(call'[u]) /\ call'[u].group <= groups
    PROVE  CallInv' /\ HandleInv'
<1>0. session.workers \in 0..MaxGroups /\ MaxGroups \in Nat
  BY DEF Types, SessionState, SessionAssumption
<1>g. session.workers # 0 => session.workers \in Groups  BY <1>0 DEF Groups
<1>1. CallInv'  BY CallStands, AsideFits DEF CallInv
<1>2. Started'  BY DEF HandleInv, Started, SameCall
<1>3. Held'  BY <1>g DEF HandleInv, Held, MailHeld
<1>4. ASSUME session.workers # 0, NEW u \in Threads, InFlight(u)  PROVE InFlight(u)'
  <2>1. SameCall(call[u], call'[u])  BY <1>4, AsideNotInFlight
  <2>2. group[session.workers].closed => group'[session.workers].closed
    BY <1>g, <1>4 DEF MailHeld
  <2> QED  BY <1>4, <2>1, <2>2 DEF InFlight, SameCall
<1>5. Emptied'
  <2>1. SUFFICES ASSUME session.workers # 0, \A u \in Threads : ~InFlight(u)'
                 PROVE  Clear'
    BY DEF Emptied
  <2>2. Clear  BY <1>4, <2>1 DEF HandleInv, Emptied
  <2> QED  BY <1>g, <2>1, <2>2 DEF Clear, MailHeld
<1> QED  BY <1>1, <1>2, <1>3, <1>5 DEF HandleInv

\* A step of the thread that holds the lock: the other calls touch no group.
LEMMA AloneStep ==
    ASSUME SessionAssumption, Types, LockInv, HandleInv,
           NEW t \in Threads, call[t].pc \notin {"idle", "acquire"},
           \A u \in Threads : u # t => call'[u] = call[u], groups' \in {groups, groups + 1},
           call'[t].group <= groups', session'.workers <= groups',
           CallFits(t)', Held', session'.workers # 0 /\ ~InFlight(t)' => Clear'
    PROVE  CallInv' /\ HandleInv'
<1>1. \A u \in Threads : u # t => Aside(call[u])  BY AloneUnderLock DEF Aside
<1>2. \A u \in Threads : u # t => CallFits(u)' /\ ~InFlight(u)'  BY <1>1, AsideFits
<1>3. CallInv'  BY <1>2 DEF CallInv
<1>4. Started'
  <2>1. ASSUME NEW u \in Threads, u # t  PROVE call'[u].group <= groups'
    <3>1. call[u].group <= groups  BY DEF HandleInv, Started
    <3>2. groups \in Nat /\ call[u].group \in Nat  BY DEF Types, CallState, SessionAssumption
    <3> QED  BY <2>1, <3>1, <3>2
  <2> QED  BY <2>1 DEF Started
<1>5. Emptied'  BY <1>2 DEF Emptied
<1> QED  BY <1>3, <1>4, <1>5 DEF HandleInv

\* Steps of one call past the lock, or of the workers: the calls and the handle.
LEMMA CallsFitAside ==
    ASSUME SessionAssumption, Types, LockInv, RunsInv, CallInv, HandleInv, Next,
           \/ \E t \in Threads : Enter(t) \/ Close(t) \/ Exit(t) \/ Begin(t) \/ Acquire(t)
              \/ Elapse(t)
           \/ \E g \in Groups, r \in Ranks :
                \/ TakeRequest(g, r) \/ FinishSearch(g, r) \/ WriteReceipt(g, r)
                \/ ObeyStop(g, r) \/ WorkerDies(g, r)
           \/ ParentDies
    PROVE  CallInv' /\ HandleInv'
<1>a. call \in [Threads -> CallState]  BY DEF Types
<1>b. session.workers = session.workers /\ groups \in Nat  BY DEF Types, SessionAssumption
<1>c. \A u \in Threads : SameCall(call[u], call[u])  BY DEF SameCall
<1>1. ASSUME NEW t \in Threads, Enter(t) \/ Close(t) \/ Exit(t) \/ Begin(t) \/ Acquire(t) \/
   Elapse(t)
      PROVE  CallInv' /\ HandleInv'
  <2>1. Keeps  BY <1>1, StillKeeps, Zenon DEF Enter, Close, Exit, Begin, Acquire, Elapse
  <2>2. groups' = groups /\ session'.workers = session.workers
        /\ session'.identity = session.identity
    <3>1. session \in SessionState  BY DEF Types
    <3> QED  BY <1>1, <3>1, Zenon DEF Enter, Close, Exit, Begin, Acquire, Elapse, SessionState
  <2>3. \A u \in Threads : u # t => call'[u] = call[u]
    BY <1>1, <1>a, Zenon DEF Enter, Close, Exit, StartClose, Begin, Acquire, Goto, Elapse
  <2>4. \/ SameCall(call[t], call'[t])
        \/ Aside(call[t]) /\ Aside(call'[t]) /\ call'[t].group <= groups
    <3>0. call[t].group <= groups  BY DEF HandleInv, Started
    <3>1. CASE UNCHANGED call  BY <3>1 DEF SameCall
    <3>2. CASE At(t, "idle") /\ StartClose(t)
      <4>1. call'[t] = [call[t] EXCEPT !.pc = "release", !.after = "close"]
        BY <3>2, <1>a DEF StartClose
      <4>2. call'[t].pc = "release" /\ call'[t].after = "close" /\ call'[t].group = call[t].group
        BY <4>1, <1>a DEF CallState
      <4> QED  BY <3>0, <3>2, <4>2 DEF Aside, At
    <3>3. CASE Begin(t)
      <4>1. PICK i : call'[t] = [Idle EXCEPT !.pc = "acquire", !.ident = i, !.run = runs + 1]
        BY <3>3, <1>a, Zenon DEF Begin
      <4>2. call'[t].pc = "acquire" /\ call'[t].group = 0  BY <4>1 DEF Idle
      <4>3. call[t].pc = "idle"  BY <3>3, Zenon DEF Begin, At
      <4> QED  BY <4>2, <4>3, <1>b DEF Aside
    <3>4. CASE At(t, "acquire") /\ Goto(t, "compare")
      <4>1. call'[t].pc = "compare" /\ call'[t].group = call[t].group
        BY <3>4, <1>a DEF Goto, CallState
      <4> QED  BY <3>0, <3>4, <4>1 DEF Aside, At
    <3>5. CASE At(t, "acquire") /\ call' = [call EXCEPT ![t] = Idle]
      <4>1. call'[t].pc = "idle" /\ call'[t].group = 0  BY <3>5, <1>a, IdleFields
      <4> QED  BY <3>5, <4>1, <1>b DEF Aside, At
    <3>6. CASE Elapse(t)
      <4>1. call'[t] = [call[t] EXCEPT !.late = TRUE]  BY <3>6, <1>a DEF Elapse
      <4> QED  BY <4>1, <1>a DEF SameCall, CallState
    <3> QED  BY <1>1, <3>1, <3>2, <3>3, <3>4, <3>5, <3>6 DEF Enter, Close, Exit, Acquire
  <2>5. \A u \in Threads : \/ SameCall(call[u], call'[u])
                           \/ Aside(call[u]) /\ Aside(call'[u]) /\ call'[u].group <= groups
    BY <2>3, <2>4, <1>c
  <2> QED  BY <2>1, <2>2, <2>5, KeepsHolds, StandingStill
<1>2. ASSUME NEW g \in Groups, NEW r \in Ranks,
             \/ TakeRequest(g, r) \/ FinishSearch(g, r) \/ WriteReceipt(g, r)
             \/ ObeyStop(g, r) \/ WorkerDies(g, r)
      PROVE  CallInv' /\ HandleInv'
  <2>1. MailHeld
    <3>1. CASE ObeyStop(g, r) \/ WorkerDies(g, r)
      BY <3>1, DyingKeeps, KeepsHolds DEF ObeyStop, WorkerDies
    <3>2. CASE TakeRequest(g, r) \/ FinishSearch(g, r) \/ WriteReceipt(g, r)
      BY <3>2, WorkersHold
    <3> QED  BY <1>2, <3>1, <3>2
  <2>2. UNCHANGED <<session, call, groups>>
    BY <1>2, Zenon DEF TakeRequest, FinishSearch, WriteReceipt, ObeyStop, WorkerDies
  <2> QED  BY <2>1, <2>2, <1>c, StandingStill
<1>3. ASSUME ParentDies  PROVE CallInv' /\ HandleInv'
  BY <1>3, <1>c, StillKeeps, KeepsHolds, StandingStill DEF ParentDies
<1> QED  BY <1>1, <1>2, <1>3

\* What a call looks like after an exception, after submit gave up its group,
\* and after it moved on to step p.
LEMMA RaiseFields ==
    ASSUME Types, NEW t \in Threads, Raise(t)
    PROVE  /\ call'[t].pc = "release" /\ call'[t].after = "raise" /\ call'[t].in = "release"
           /\ call'[t].group = call[t].group
           /\ \A u \in Threads : u # t => call'[u] = call[u]
<1>1. call \in [Threads -> CallState]  BY DEF Types
<1>2. call'[t] = [call[t] EXCEPT !.pc = "release", !.after = "raise", !.in = "release"]
      /\ \A u \in Threads : u # t => call'[u] = call[u]
  BY <1>1 DEF Raise
<1> QED  BY <1>1, <1>2 DEF CallState

\* Where a call is after each way to leave a step.
LEMMA CloseFields ==
    ASSUME Types, NEW t \in Threads, CloseInSubmit(t)
    PROVE  /\ call'[t].pc = "reap" /\ call'[t].in = "submit" /\ call'[t].group = call[t].group
           /\ \A u \in Threads : u # t => call'[u] = call[u]
           /\ call[t].group \in Groups => group'[call[t].group].closed
<1>1. call \in [Threads -> CallState] /\ group \in [Groups -> GroupState]  BY DEF Types
<1>2. call'[t] = [call[t] EXCEPT !.pc = "reap", !.in = "submit"]
      /\ \A u \in Threads : u # t => call'[u] = call[u]
  BY <1>1 DEF CloseInSubmit
<1>3. call'[t].pc = "reap" /\ call'[t].in = "submit" /\ call'[t].group = call[t].group
  BY <1>1, <1>2 DEF CallState
<1>4. ASSUME NEW g \in Groups, g = call[t].group  PROVE group'[g].closed
  <2>1. group'[g] = [group[g] EXCEPT !.closed = TRUE]  BY <1>1, <1>4 DEF CloseInSubmit
  <2> QED  BY <1>1, <2>1 DEF GroupState
<1> QED  BY <1>2, <1>3, <1>4

LEMMA GotoFields ==
    ASSUME Types, NEW t \in Threads, NEW p, Goto(t, p)
    PROVE  /\ call'[t].pc = p /\ call'[t].ident = call[t].ident /\ call'[t].run = call[t].run
           /\ call'[t].group = call[t].group /\ call'[t].after = call[t].after
           /\ call'[t].in = call[t].in
           /\ \A u \in Threads : u # t => call'[u] = call[u]
<1>1. call \in [Threads -> CallState]  BY DEF Types
<1> QED  BY <1>1 DEF Goto, CallState

LEMMA ReturnFields ==
    ASSUME Types, NEW t \in Threads, Return(t)
    PROVE  /\ call'[t].pc = "idle" /\ call'[t].group = 0
           /\ \A u \in Threads : u # t => call'[u] = call[u]
<1>1. call \in [Threads -> CallState]  BY DEF Types
<1> QED  BY <1>1, IdleFields DEF Return

LEMMA ReleasedFields ==
    ASSUME Types, NEW t \in Threads, Released(t)
    PROVE  /\ session'.workers = 0 /\ session'.identity = None
           /\ call'[t].pc \in {"execute", "idle"} /\ call'[t].group \in {0, call[t].group}
           /\ \A u \in Threads : u # t => call'[u] = call[u]
<1>1. session \in SessionState  BY DEF Types
<1>2. session' = [session EXCEPT !.workers = 0, !.identity = None,
                     !.closed = session.closed \/ call[t].after = "close"]
  BY DEF Released
<1>3. session'.workers = 0 /\ session'.identity = None  BY <1>1, <1>2 DEF SessionState
<1>4. Goto(t, "execute") \/ Return(t)  BY DEF Released
<1> QED  BY <1>3, <1>4, GotoFields, ReturnFields

\* The held group is clear while no request is in flight.
LEMMA HeldClear ==
    ASSUME LockInv, HandleInv, NEW t \in Threads, call[t].pc \notin {"idle", "acquire"},
           ~InFlight(t), session.workers # 0
    PROVE  Clear
<1>1. \A u \in Threads : u # t => ~InFlight(u)  BY AloneUnderLock DEF InFlight
<1> QED  BY <1>1 DEF HandleInv, Emptied

\* Each step of the call that holds the lock keeps the calls and the handle fitting:
\* the comparison of identities (persistent.py:82-97), the start of a group, the
\* post, the poll, the collection, the acceptance, the release and the reaping.
LEMMA CompareFits ==
    ASSUME SessionAssumption, Types, LockInv, RunsInv, CallInv, HandleInv,
           NEW t \in Threads, Compare(t)
    PROVE  CallInv' /\ HandleInv'
<1>a. call \in [Threads -> CallState]  BY DEF Types
<1>0. call[t].pc = "compare" /\ UNCHANGED <<session, group, log, groups>>
  BY DEF Compare, At
<1>1. MailHeld  BY <1>0, StillKeeps, KeepsHolds
<1> DEFINE p == IF ~MayReuse(t) THEN "release"
                ELSE IF session.workers = 0 THEN "execute" ELSE "post"
           b == MayReuse(t) /\ session.workers # 0
           n == session.workers
<1>2. call' = [call EXCEPT ![t].pc = p, ![t].after = "execute", ![t].group = n, ![t].reused = b]
  BY DEF Compare
<1>3. p = "release" \/ (p = "execute" /\ n = 0) \/ (p = "post" /\ n # 0 /\ MayReuse(t))
  OBVIOUS
<1>4. n = session.workers  OBVIOUS
<1> HIDE DEF p, b, n
<1>5. \A u \in Threads : u # t => call'[u] = call[u]  BY <1>2, <1>a
<1>6. call'[t] = [call[t] EXCEPT !.pc = p, !.after = "execute", !.group = n, !.reused = b]
  BY <1>2, <1>a
<1>7. call'[t].pc = p /\ call'[t].after = "execute" /\ call'[t].group = n
      /\ call'[t].ident = call[t].ident
  BY <1>6, <1>a DEF CallState
<1>8. n <= groups  BY <1>4 DEF HandleInv, Started
<1>9. Aside(call[t]) /\ ~InFlight(t)  BY <1>0, AsideNotInFlight DEF Aside
<1>10. CASE p = "release"
  <2>1. Aside(call'[t])  BY <1>7, <1>10 DEF Aside
  <2>2. \A u \in Threads : \/ SameCall(call[u], call'[u])
                           \/ Aside(call[u]) /\ Aside(call'[u]) /\ call'[u].group <= groups
    BY <2>1, <1>5, <1>7, <1>8, <1>9 DEF SameCall
  <2> QED  BY <1>0, <1>1, <2>2, StandingStill
<1>11. CASE p # "release"
  <2>1. CallFits(t)'
    <3>1. CASE p = "execute" /\ n = 0
      BY <1>0, <1>4, <1>7, <3>1 DEF CallFits, Submitting
    <3>2. CASE p = "post" /\ n # 0 /\ MayReuse(t)
      <4>1. call[t].ident = session.identity  BY <3>2 DEF MayReuse
      <4>2. call[t].ident # None  BY <1>0 DEF RunsInv, Unposted
      <4>3. group[n].ident = call[t].ident  BY <1>4, <4>1, <4>2 DEF HandleInv, Held
      <4> QED  BY <1>0, <1>4, <1>7, <3>2, <4>3 DEF CallFits, Submitting
    <3> QED  BY <1>3, <1>11, <3>1, <3>2
  <2>2. Held'  BY <1>0 DEF HandleInv, Held
  <2>3. session'.workers # 0 => Clear'  BY <1>0, <1>9, HeldClear DEF Clear
  <2>4. groups' = groups /\ session'.workers <= groups'
    BY <1>0 DEF HandleInv, Started
  <2> QED  BY <1>0, <1>5, <1>7, <1>8, <2>1, <2>2, <2>3, <2>4, AloneStep
<1> QED  BY <1>10, <1>11

LEMMA ExecuteFits ==
    ASSUME SessionAssumption, Types, LockInv, RunsInv, WorkersInv, CallInv, HandleInv,
           NEW t \in Threads, Execute(t)
    PROVE  CallInv' /\ HandleInv'
<1>a. call \in [Threads -> CallState] /\ session \in SessionState  BY DEF Types
<1>b. groups \in Nat  BY DEF Types, SessionAssumption
<1>0. call[t].pc = "execute"  BY DEF Execute, At
<1>1. session.workers = 0 /\ session.identity = None
  BY <1>0 DEF CallInv, CallFits, HandleInv, Held
<1>2. call[t].group <= groups  BY DEF HandleInv, Started
<1>3. CASE Raise(t) /\ UNCHANGED <<session, group, groups>>
  <2>1. call'[t].pc = "release" /\ call'[t].group = call[t].group
        /\ \A u \in Threads : u # t => call'[u] = call[u]
    BY <1>3, RaiseFields
  <2>2. CallFits(t)'  BY <2>1 DEF CallFits, Submitting
  <2>3. Held'  BY <1>1, <1>3 DEF Held
  <2> QED  BY <1>0, <1>1, <1>2, <1>3, <1>b, <2>1, <2>2, <2>3, AloneStep
<1>4. CASE ~(Raise(t) /\ UNCHANGED <<session, group, groups>>)
  <2>0. groups + 1 \in Groups /\ groups' = groups + 1
    <3>1. groups < MaxGroups /\ groups' = groups + 1  BY <1>4 DEF Execute
    <3> QED  BY <1>b, <3>1 DEF Groups, SessionAssumption
  <2> PICK g \in Groups : g = groups + 1  BY <2>0
  <2>1. ~Keeps  BY <1>b, <2>0 DEF Keeps
  <2>2. PICK spawned \in SUBSET Ranks :
             /\ groups' = g
             /\ group'[g].ident = call[t].ident /\ group'[g].closed = (spawned # Ranks)
             /\ group'[g].sequence = group[g].sequence /\ group'[g].request = group[g].request
             /\ session' = IF spawned = Ranks
                           THEN [session EXCEPT !.workers = g] ELSE session
             /\ call' = [call EXCEPT ![t].group = g, ![t].in = "submit",
                            ![t].pc = IF spawned = Ranks THEN "post" ELSE "reap"]
    BY <2>1, ExecuteSpawns, Zenon
  <2>3. g > groups /\ g # 0 /\ g <= g  BY <1>b
  <2>4. PICK p \in {"post", "reap"} : p = IF spawned = Ranks THEN "post" ELSE "reap"
    OBVIOUS
  <2>5. call'[t] = [call[t] EXCEPT !.group = g, !.in = "submit", !.pc = p]
        /\ \A u \in Threads : u # t => call'[u] = call[u]
    BY <2>2, <2>4, <1>a
  <2>6. call'[t].group = g /\ call'[t].in = "submit" /\ call'[t].pc = p
        /\ call'[t].ident = call[t].ident
    BY <2>5, <1>a DEF CallState
  <2>7. CASE spawned = Ranks
    <3>1. session'.workers = g /\ session'.identity = None
      BY <1>1, <2>2, <2>7, <1>a DEF SessionState
    <3>2. p = "post"  BY <2>4, <2>7
    <3>3. CallFits(t)'  BY <2>2, <2>3, <2>6, <3>1, <3>2 DEF CallFits, Submitting
    <3>4. Held'  BY <2>3, <3>1 DEF Held
    <3>5. Clear'
      <4>1. group[g].sequence = 0 /\ \A s \in Seqs : group[g].request[s] = 0
        BY <2>3 DEF WorkersInv, Unstarted
      <4>2. 0 \in Seqs  BY DEF Seqs, SessionAssumption
      <4> QED  BY <2>2, <3>1, <4>1, <4>2 DEF Clear
    <3> QED  BY <1>0, <2>0, <2>2, <2>3, <2>5, <2>6, <3>1, <3>3, <3>4, <3>5, AloneStep
  <2>8. CASE spawned # Ranks
    <3>1. session' = session  BY <2>2, <2>8
    <3>2. p = "reap"  BY <2>4, <2>8
    <3>3. group'[g].closed  BY <2>2, <2>8
    <3>4. CallFits(t)'  BY <1>1, <2>3, <2>6, <3>1, <3>2, <3>3 DEF CallFits, Submitting
    <3>5. Held'  BY <1>1, <3>1 DEF Held
    <3>6. session'.workers <= groups'  BY <1>1, <1>b, <2>0, <3>1
    <3> QED  BY <1>0, <1>1, <2>0, <2>2, <2>3, <2>5, <2>6, <3>1, <3>4, <3>5, <3>6, AloneStep
  <2> QED  BY <2>7, <2>8
<1> QED  BY <1>3, <1>4

LEMMA PostFits ==
    ASSUME SessionAssumption, Types, LockInv, RunsInv, CallInv, HandleInv,
           NEW t \in Threads, Post(t)
    PROVE  CallInv' /\ HandleInv'
<1>0. call[t].pc = "post" /\ UNCHANGED <<session, groups>>  BY DEF Post, At
<1>1. call[t].group \in Groups  BY <1>0, GroupAtWork DEF Submitting
<1> PICK g \in Groups : g = call[t].group  BY <1>1
<1>2. g = session.workers /\ g # 0 /\ group[g].ident = call[t].ident /\ g <= groups
  BY <1>0 DEF CallInv, CallFits, Submitting, HandleInv, Started
<1>3. CASE Keeps
  <2>1. MailHeld  BY <1>3, KeepsHolds
  <2>2. CASE group[g].closed
    <3>1. Raise(t)  BY <2>2 DEF Post
    <3>2. call'[t].pc = "release" /\ call'[t].after = "raise" /\ call'[t].group = g
          /\ \A u \in Threads : u # t => call'[u] = call[u]
      BY <3>1, RaiseFields
    <3>3. CallFits(t)'  BY <3>2 DEF CallFits, Submitting
    <3>4. Held'  BY <1>0, <1>2, <2>1 DEF HandleInv, Held, MailHeld
    <3>5. InFlight(t)'  BY <1>0, <1>2, <2>1, <2>2, <3>2 DEF InFlight, MailHeld
    <3> QED  BY <1>0, <1>2, <3>2, <3>3, <3>4, <3>5, AloneStep
  <2>3. CASE ~group[g].closed
    <3>1. Goto(t, "poll") /\ group' = [group EXCEPT ![g].request[group[g].sequence] = call[t].run]
      BY <2>3 DEF Post
    <3>2. \A h \in Groups : group'[h].request = group[h].request  BY <2>1 DEF MailHeld
    <3>3. group'[g].request[group[g].sequence] = call[t].run
      <4>1. group[g] \in GroupState  BY DEF Types
      <4> DEFINE q == [group[g].request EXCEPT ![group[g].sequence] = call[t].run]
      <4>2. group'[g] = [group[g] EXCEPT !.request = q]  BY <3>1 DEF Types
      <4>3. q[group[g].sequence] = call[t].run  BY <4>1 DEF GroupState
      <4> HIDE DEF q
      <4>4. group'[g].request = q  BY <4>1, <4>2 DEF GroupState
      <4> QED  BY <4>3, <4>4
    <3>4. group[g].request[group[g].sequence] = 0  BY <1>0, PostsToEmpty
    <3>5. call[t].run # 0  BY <1>0 DEF RunsInv, Unposted
    <3> QED  BY <3>2, <3>3, <3>4, <3>5
  <2> QED  BY <2>2, <2>3
<1>4. CASE ~Keeps
  <2> PICK k : k = group[g].sequence  OBVIOUS
  <2>0. k \in Seqs  BY DEF Types, GroupState, Seqs
  <2>1. /\ Goto(t, "poll")
        /\ group'[g].request[k] = call[t].run /\ group'[g].sequence = k
        /\ group'[g].ident = group[g].ident
    <3>1. /\ Goto(t, "poll")
          /\ \A h \in Groups :
              /\ \A s \in Seqs : group'[h].request[s] =
                   IF h = g /\ s = k THEN call[t].run ELSE group[h].request[s]
              /\ group'[h].ident = group[h].ident /\ group'[h].sequence = group[h].sequence
      BY <1>4, PostWrites
    <3> QED  BY <2>0, <3>1
  <2>2. call'[t].pc = "poll" /\ call'[t].ident = call[t].ident /\ call'[t].run = call[t].run
        /\ call'[t].group = g /\ \A u \in Threads : u # t => call'[u] = call[u]
    BY <2>1, GotoFields
  <2>3. CallFits(t)'  BY <1>0, <1>2, <2>1, <2>2 DEF CallFits, Submitting
  <2>4. Held'  BY <1>0, <1>2, <2>1 DEF HandleInv, Held
  <2>5. InFlight(t)'  BY <2>2 DEF InFlight
  <2> QED  BY <1>0, <1>2, <2>2, <2>3, <2>4, <2>5, AloneStep
<1> QED  BY <1>3, <1>4

\* Submit gives its group up: stop file, then the kills.
LEMMA GivingUpFits ==
    ASSUME SessionAssumption, Types, LockInv, CallInv, HandleInv, NEW t \in Threads,
           call[t].pc \in Submitting, CloseInSubmit(t), UNCHANGED <<session, log, groups>>
    PROVE  CallInv' /\ HandleInv'
<1>1. call[t].group \in Groups  BY GroupAtWork
<1> PICK g \in Groups : g = call[t].group  BY <1>1
<1>2. g = session.workers /\ g # 0 /\ g <= groups
  BY DEF CallInv, CallFits, HandleInv, Started
<1>3. MailHeld  BY ClosingKeeps, KeepsHolds DEF CloseInSubmit
<1>4. call'[t].pc = "reap" /\ call'[t].in = "submit" /\ call'[t].group = g
      /\ (\A u \in Threads : u # t => call'[u] = call[u]) /\ group'[g].closed
  BY CloseFields
<1>5. CallFits(t)'  BY <1>2, <1>4 DEF CallFits, Submitting
<1>6. Held'  BY <1>2, <1>3 DEF HandleInv, Held, MailHeld
<1>7. InFlight(t)'  BY <1>4 DEF InFlight
<1>8. call[t].pc \notin {"idle", "acquire"}  BY DEF Submitting
<1>9. groups' = groups /\ session'.workers <= groups'  BY <1>2
<1>10. call'[t].group <= groups'  BY <1>2, <1>4
<1> QED  BY <1>4, <1>5, <1>6, <1>7, <1>8, <1>9, <1>10, AloneStep

LEMMA PollFits ==
    ASSUME SessionAssumption, Types, LockInv, CallInv, HandleInv, NEW t \in Threads,
           Poll(t) \/ Interrupt(t)
    PROVE  CallInv' /\ HandleInv'
<1>0. call[t].pc = "poll" /\ call[t].pc \in Submitting /\ UNCHANGED <<session, log, groups>>
  BY DEF Poll, Interrupt, At, Submitting
<1>1. CASE CloseInSubmit(t)  BY <1>0, <1>1, GivingUpFits
<1>2. CASE Receipts(call[t].group) = Ranks /\ Goto(t, "collect") /\ UNCHANGED group
  <2>1. call[t].group \in Groups  BY <1>0, GroupAtWork
  <2> PICK g \in Groups : g = call[t].group  BY <2>1
  <2>2. g = session.workers /\ g # 0 /\ g <= groups /\ group[g].ident = call[t].ident
        /\ group[g].request[group[g].sequence] = call[t].run
    BY <1>0 DEF CallInv, CallFits, HandleInv, Started
  <2>3. call'[t].pc = "collect" /\ call'[t].group = g /\ call'[t].ident = call[t].ident
        /\ call'[t].run = call[t].run /\ \A u \in Threads : u # t => call'[u] = call[u]
    BY <1>2, GotoFields
  <2>4. Receipts(call[t].group)' = Ranks  BY <1>2, <2>3 DEF Receipts
  <2>5. CallFits(t)'
    <3> HIDE DEF Receipts
    <3> QED  BY <1>0, <1>2, <2>2, <2>3, <2>4 DEF CallFits, Submitting
  <2>6. Held'  BY <1>0, <1>2 DEF HandleInv, Held
  <2>7. InFlight(t)'  BY <2>3 DEF InFlight
  <2> QED  BY <1>0, <2>2, <2>3, <2>5, <2>6, <2>7, AloneStep
<1> QED  BY <1>1, <1>2 DEF Poll, Interrupt, Arrived

LEMMA CollectFits ==
    ASSUME SessionAssumption, Types, LockInv, RunsInv, PostedInv, WorkersInv, CallInv, HandleInv,
           NEW t \in Threads, Collect(t)
    PROVE  CallInv' /\ HandleInv'
<1>0. call[t].pc = "collect" /\ call[t].pc \in Submitting /\ UNCHANGED <<session, log, groups>>
  BY DEF Collect, At, Submitting
<1>1. CASE CloseInSubmit(t)  BY <1>0, <1>1, GivingUpFits
<1>2. CASE ~CloseInSubmit(t)
  <2>1. call[t].group \in Groups  BY <1>0, GroupAtWork
  <2> PICK g \in Groups : g = call[t].group  BY <2>1
  <2> PICK k : k = group[g].sequence  OBVIOUS
  <2>2. g = session.workers /\ g # 0 /\ g <= groups /\ group[g].ident = call[t].ident
        /\ group[g].request[k] = call[t].run
    BY <1>0 DEF CallInv, CallFits, HandleInv, Started
  <2>3. call[t].run # 0  BY <1>0 DEF RunsInv
  <2>4. k \in Nat /\ k + 1 \in Seqs
    <3>1. k \in Seqs /\ MaxRuns \in Nat /\ runs \in 0..MaxRuns
      BY DEF Types, GroupState, Seqs, SessionAssumption
    <3>2. k + 1 <= runs  BY <2>2, <2>3, SequenceFits
    <3> QED  BY <3>1, <3>2 DEF Seqs
  <2>5. Goto(t, "accept") /\ group' = [group EXCEPT ![g].sequence = k + 1]
    BY <1>2 DEF Collect, NextSequence
  <2>6. group'[g].sequence = k + 1 /\ group'[g].request = group[g].request
        /\ group'[g].ident = group[g].ident
    <3>1. group[g] \in GroupState /\ group'[g] = [group[g] EXCEPT !.sequence = k + 1]
      BY <2>5 DEF Types
    <3> QED  BY <3>1 DEF GroupState
  <2>7. call'[t].pc = "accept" /\ call'[t].group = g /\ call'[t].ident = call[t].ident
        /\ call'[t].run = call[t].run /\ \A u \in Threads : u # t => call'[u] = call[u]
    BY <2>5, GotoFields
  <2>8. CallFits(t)'
    <3>1. k + 1 > 0 /\ (k + 1) - 1 = k  BY <2>4
    <3>2. group'[g].request[group'[g].sequence - 1] = call'[t].run  BY <2>2, <2>6, <2>7, <3>1
    <3> QED  BY <1>0, <2>2, <2>6, <2>7, <3>1, <3>2 DEF CallFits, Submitting
  <2>9. Held'  BY <1>0, <2>2, <2>6 DEF HandleInv, Held
  <2>10. Clear'
    <3>1. group[g].request[k + 1] = 0
      <4>1. k + 1 > group[g].sequence  BY <2>4
      <4> QED  BY <2>4, <4>1 DEF WorkersInv, InOrder
    <3> QED  BY <1>0, <2>2, <2>6, <3>1 DEF Clear
  <2> QED  BY <1>0, <2>2, <2>7, <2>8, <2>9, <2>10, AloneStep
<1> QED  BY <1>1, <1>2

LEMMA AcceptFits ==
    ASSUME SessionAssumption, Types, LockInv, CallInv, HandleInv, NEW t \in Threads, Accept(t)
    PROVE  CallInv' /\ HandleInv'
<1>0. call[t].pc = "accept" /\ call[t].pc \in Submitting /\ UNCHANGED <<group, log, groups>>
  BY DEF Accept, At, Submitting
<1>1. call[t].group = session.workers /\ session.workers # 0 /\ session.workers <= groups
      /\ group[session.workers].ident = call[t].ident
  BY <1>0 DEF CallInv, CallFits, HandleInv, Started
<1>2. ~InFlight(t)  BY <1>0 DEF InFlight
<1>3. Clear  BY <1>0, <1>1, <1>2, HeldClear
<1>4. CASE Raise(t) /\ UNCHANGED session
  <2>1. call'[t].pc = "release" /\ call'[t].group = call[t].group
        /\ \A u \in Threads : u # t => call'[u] = call[u]
    BY <1>4, RaiseFields
  <2>2. CallFits(t)'  BY <2>1 DEF CallFits, Submitting
  <2>3. Held' /\ Clear'  BY <1>0, <1>3, <1>4 DEF HandleInv, Held, Clear
  <2> QED  BY <1>0, <1>1, <1>4, <2>1, <2>2, <2>3, AloneStep
<1>5. CASE Return(t) /\ session' \in {session, [session EXCEPT !.identity = call[t].ident]}
  <2>1. call'[t].pc = "idle" /\ call'[t].group = 0
        /\ \A u \in Threads : u # t => call'[u] = call[u]
    BY <1>5, ReturnFields
  <2>2. session'.workers = session.workers
        /\ session'.identity \in {session.identity, call[t].ident}
    BY <1>5 DEF Types, SessionState
  <2>3. CallFits(t)'  BY <2>1 DEF CallFits, Submitting
  <2>4. Held' /\ Clear'  BY <1>0, <1>1, <1>3, <2>2 DEF HandleInv, Held, Clear
  <2>5. 0 <= groups  BY DEF Types, SessionAssumption
  <2> QED  BY <1>0, <1>1, <2>1, <2>2, <2>3, <2>4, <2>5, AloneStep
<1> QED  BY <1>4, <1>5 DEF Accept

\* The handle is dropped.
LEMMA DroppingFits ==
    ASSUME SessionAssumption, Types, LockInv, HandleInv, NEW t \in Threads,
           call[t].pc \notin {"idle", "acquire"}, Released(t), groups' = groups
    PROVE  CallInv' /\ HandleInv'
<1>1. session'.workers = 0 /\ session'.identity = None
      /\ call'[t].pc \in {"execute", "idle"} /\ call'[t].group \in {0, call[t].group}
      /\ \A u \in Threads : u # t => call'[u] = call[u]
  BY ReleasedFields
<1>2. CallFits(t)'  BY <1>1 DEF CallFits, Submitting
<1>3. Held'  BY <1>1 DEF Held
<1>4. 0 <= groups /\ call[t].group <= groups
  BY DEF Types, SessionAssumption, HandleInv, Started
<1> QED  BY <1>1, <1>2, <1>3, <1>4, AloneStep

LEMMA ReleaseFits ==
    ASSUME SessionAssumption, Types, LockInv, CallInv, HandleInv, NEW t \in Threads, Release(t)
    PROVE  CallInv' /\ HandleInv'
<1>0. call[t].pc = "release" /\ UNCHANGED <<log, groups>>  BY DEF Release, At
<1>1. CASE Released(t)  BY <1>0, <1>1, DroppingFits
<1>2. CASE ~Released(t)
  <2>1. session.workers # 0 /\ ~group[session.workers].closed
    BY <1>2 DEF Release, NothingToStop
  <2>2. session.workers \in Groups  BY <2>1 DEF Types, SessionState, SessionAssumption, Groups
  <2> PICK g \in Groups : g = session.workers  BY <2>2
  <2>3. /\ group' = [group EXCEPT ![g].closed = TRUE] /\ UNCHANGED session
        /\ call' = [call EXCEPT ![t].pc = "reap", ![t].group = g, ![t].in = "release"]
    BY <1>2 DEF Release
  <2>4. group'[g].closed /\ MailHeld
    <3>1. group'[g] = [group[g] EXCEPT !.closed = TRUE] /\ group[g] \in GroupState
      BY <2>3 DEF Types
    <3> QED  BY <1>0, <2>3, <3>1, ClosingKeeps, KeepsHolds DEF GroupState
  <2>5. call'[t].pc = "reap" /\ call'[t].group = g /\ call'[t].in = "release"
        /\ \A u \in Threads : u # t => call'[u] = call[u]
    <3>1. call'[t] = [call[t] EXCEPT !.pc = "reap", !.group = g, !.in = "release"]
          /\ \A u \in Threads : u # t => call'[u] = call[u]
      BY <2>3 DEF Types
    <3>2. call[t] \in CallState  BY DEF Types
    <3> QED  BY <3>1, <3>2 DEF CallState
  <2>6. g <= groups /\ g # 0  BY <2>1 DEF HandleInv, Started
  <2>7. CallFits(t)'  BY <2>3, <2>4, <2>5, <2>6 DEF CallFits, Submitting
  <2>8. Held'  BY <2>3, <2>4, <2>6 DEF HandleInv, Held, MailHeld
  <2>9. Clear'
    <3>1. ~InFlight(t)  BY <1>0, <2>1 DEF InFlight
    <3>2. Clear  BY <1>0, <2>1, <3>1, HeldClear
    <3> QED  BY <2>3, <2>4, <3>2 DEF Clear, MailHeld
  <2> QED  BY <1>0, <2>3, <2>5, <2>6, <2>7, <2>8, <2>9, AloneStep
<1> QED  BY <1>1, <1>2

LEMMA ReapFits ==
    ASSUME SessionAssumption, Types, LockInv, CallInv, HandleInv, NEW t \in Threads, Reap(t)
    PROVE  CallInv' /\ HandleInv'
<1>0. call[t].pc = "reap" /\ UNCHANGED <<log, groups>>  BY DEF Reap, At
<1>1. MailHeld  BY ReapingKeeps, KeepsHolds
<1>2. call[t].group \in Groups  BY <1>0, GroupAtWork
<1> PICK g \in Groups : g = call[t].group  BY <1>2
<1>3. /\ g # 0 /\ group[g].closed
      /\ call[t].in = "release" => g = session.workers
      /\ call[t].in = "submit" => session.workers \in {0, g}
      /\ g <= groups /\ session.workers <= groups
  BY <1>0 DEF CallInv, CallFits, HandleInv, Started
<1>4. group'[g].closed  BY <1>1, <1>3 DEF MailHeld
<1>5. CASE Released(t)  BY <1>0, <1>5, DroppingFits
<1>6. CASE Raise(t) /\ UNCHANGED session
  <2>1. call'[t].pc = "release" /\ call'[t].after = "raise" /\ call'[t].group = call[t].group
        /\ \A u \in Threads : u # t => call'[u] = call[u]
    BY <1>6, RaiseFields
  <2>2. CallFits(t)'  BY <2>1 DEF CallFits, Submitting
  <2>3. session.workers = 0 \/ session.workers = g
    <3>1. call[t].in \in {"release", "submit"}  BY DEF Types, CallState
    <3> QED  BY <1>3, <3>1
  <2>4. Held'  BY <1>1, <1>6, <2>3 DEF HandleInv, Held, MailHeld
  <2>5. session'.workers # 0 => InFlight(t)'  BY <1>4, <1>6, <2>1, <2>3 DEF InFlight
  <2> QED  BY <1>0, <1>3, <1>6, <2>1, <2>2, <2>4, <2>5, AloneStep
<1>7. CASE Return(t) /\ UNCHANGED session /\ call[t].in = "release"
  <2>1. call'[t].pc = "idle" /\ call'[t].group = 0
        /\ \A u \in Threads : u # t => call'[u] = call[u]
    BY <1>7, ReturnFields
  <2>2. CallFits(t)'  BY <2>1 DEF CallFits, Submitting
  <2>3. g = session.workers /\ ~InFlight(t)  BY <1>0, <1>3, <1>7 DEF InFlight
  <2>4. Clear  BY <1>0, <1>3, <2>3, HeldClear
  <2>5. Held' /\ Clear'  BY <1>1, <1>7, <2>3, <2>4, <1>3 DEF HandleInv, Held, Clear, MailHeld
  <2>6. 0 <= groups  BY DEF Types, SessionAssumption
  <2> QED  BY <1>0, <1>3, <1>7, <2>1, <2>2, <2>5, <2>6, AloneStep
<1> QED  BY <1>5, <1>6, <1>7 DEF Reap

\* Every step keeps the calls fitting the group they hold, and the handle its own.
LEMMA CallsFit ==
    ASSUME SessionAssumption, Types, LockInv, RunsInv, PostedInv, WorkersInv, CallInv, HandleInv,
           Next
    PROVE  CallInv' /\ HandleInv'
<1>1. ASSUME NEW t \in Threads, ThreadStep(t), ~Acquire(t)  PROVE CallInv' /\ HandleInv'
  BY <1>1, CompareFits, ExecuteFits, PostFits, PollFits, CollectFits, AcceptFits, ReleaseFits,
     ReapFits DEF ThreadStep
<1>2. ASSUME NEW t \in Threads, Interrupt(t)  PROVE CallInv' /\ HandleInv'
  BY <1>2, PollFits
<1> QED  BY <1>1, <1>2, CallsFitAside DEF Next

----------------------------------------------------------------------------
(* No worker is left behind, when a killed worker is gone after its wait.   *)

\* Steps that leave the handle, the flags of the groups and the reaping as they were.
LEMMA StraysStay ==
    ASSUME StrayInv, parent' => parent, session'.workers = session.workers,
           \A h \in Groups : /\ Alive(h)' # {} => Alive(h) # {}
                             /\ group'[h].closed = group[h].closed,
           \A u \in Threads : call[u].pc = "reap" =>
              call'[u].pc = "reap" /\ call'[u].group = call[u].group
    PROVE  StrayInv'
<1>1. SUFFICES ASSUME parent, NEW g \in Groups, Alive(g)' # {}
               PROVE  \/ session'.workers = g /\ ~group'[g].closed
                      \/ \E t \in Threads : call'[t].pc = "reap" /\ call'[t].group = g
  BY Zenon DEF StrayInv
<1>2. Alive(g) # {}  BY <1>1
<1>3. \/ session.workers = g /\ ~group[g].closed
      \/ \E t \in Threads : call[t].pc = "reap" /\ call[t].group = g
  BY <1>1, <1>2 DEF StrayInv
<1> QED  BY <1>1, <1>3

\* A step that moves no mail starts no worker.
LEMMA KeepsNoMoreAlive ==
    ASSUME Keeps, NEW h \in Groups, Alive(h)' # {}
    PROVE  Alive(h) # {}
BY DEF Keeps, Alive

\* The group of a thread past the lock is stopped by that very thread.
LEMMA StopsItsGroup ==
    ASSUME SessionAssumption, Types, LockInv, CallInv, StrayInv, NEW t \in Threads,
           call[t].pc \notin {"idle", "acquire", "reap"}, Keeps, UNCHANGED <<session, parent>>,
           NEW g \in Groups, g = session.workers, call'[t].pc = "reap", call'[t].group = g
    PROVE  StrayInv'
<1>1. \A u \in Threads : u # t => call[u].pc # "reap"  BY AloneUnderLock
<1>2. SUFFICES ASSUME parent, NEW h \in Groups, Alive(h)' # {}
               PROVE  \/ session'.workers = h /\ ~group'[h].closed
                      \/ \E u \in Threads : call'[u].pc = "reap" /\ call'[u].group = h
  BY Zenon DEF StrayInv
<1>3. Alive(h) # {}  BY <1>2, KeepsNoMoreAlive
<1>4. session.workers = h
  <2>1. \/ session.workers = h /\ ~group[h].closed
        \/ \E u \in Threads : call[u].pc = "reap" /\ call[u].group = h
    BY <1>2, <1>3 DEF StrayInv
  <2> QED  BY <1>1, <2>1
<1> QED  BY <1>4

\* A group that was closed, and reaped, may be forgotten.
LEMMA ForgottenWhenStopped ==
    ASSUME LockInv, StrayInv, NEW t \in Threads, call[t].pc \notin {"idle", "acquire"},
           parent' = parent, Keeps, session'.workers \in {0, session.workers},
           \A h \in Groups : group'[h].closed = group[h].closed,
           session.workers \in Groups /\ session'.workers = 0 => group[session.workers].closed,
           call[t].pc = "reap" => \A h \in Groups : h = call[t].group => Alive(h)' = {}
    PROVE  StrayInv'
<1>1. \A u \in Threads : u # t => call[u].pc # "reap"  BY AloneUnderLock
<1>2. SUFFICES ASSUME parent, NEW h \in Groups, Alive(h)' # {}
               PROVE  session'.workers = h /\ ~group'[h].closed
  BY Zenon DEF StrayInv
<1>3. Alive(h) # {}  BY <1>2, KeepsNoMoreAlive
<1>4. session.workers = h /\ ~group[h].closed
  <2>1. \/ session.workers = h /\ ~group[h].closed
        \/ \E u \in Threads : call[u].pc = "reap" /\ call[u].group = h
    BY <1>2, <1>3 DEF StrayInv
  <2> QED  BY <1>1, <1>2, <2>1
<1> QED  BY <1>4

\* A reaped group has no worker left.
LEMMA ReapedAll ==
    ASSUME Types, ReapMayFail = FALSE, NEW t \in Threads, Reap(t),
           NEW g \in Groups, g = call[t].group
    PROVE  /\ Alive(g)' = {} /\ \A h \in Groups : group'[h].closed = group[h].closed
           /\ \/ call[t].in = "submit" /\ UNCHANGED session
              \/ call[t].in = "release" /\ Released(t)
<1>1. group \in [Groups -> GroupState]  BY DEF Types
<1>2. Survivors(g) = {{}}  BY DEF Survivors
<1> DEFINE v == [r \in Ranks |-> IF group[g].worker[r] = "none" THEN "none" ELSE "dead"]
<1>3. /\ group' = [group EXCEPT ![g].worker = [r \in Ranks |->
             IF group[g].worker[r] = "none" THEN "none"
             ELSE IF r \in {} THEN group[g].worker[r] ELSE "dead"]]
      /\ \/ call[t].in = "submit" /\ UNCHANGED session
         \/ call[t].in = "release" /\ Released(t)
  BY <1>2 DEF Reap
<1>4. group' = [group EXCEPT ![g].worker = v]  BY <1>3
<1>5. \A r \in Ranks : v[r] \in {"none", "dead"}  OBVIOUS
<1> HIDE DEF v
<1>6. group'[g].worker = v /\ \A h \in Groups : group'[h].closed = group[h].closed
  BY <1>1, <1>4 DEF GroupState
<1>7. Alive(g)' = {}
  <2>1. \A r \in Ranks : group'[g].worker[r] \notin {"waiting", "searching", "finished"}
    BY <1>5, <1>6
  <2> QED  BY <2>1 DEF Alive
<1> QED  BY <1>3, <1>6, <1>7

\* The workers alone: those that live on lived before.
LEMMA WorkersNoStray ==
    ASSUME Types, StrayInv, NEW g \in Groups, NEW r \in Ranks,
           \/ TakeRequest(g, r) \/ FinishSearch(g, r) \/ WriteReceipt(g, r)
           \/ ObeyStop(g, r) \/ WorkerDies(g, r)
    PROVE  StrayInv'
<1>0. UNCHANGED <<session, call, parent>>
  BY Zenon DEF TakeRequest, FinishSearch, WriteReceipt, ObeyStop, WorkerDies
<1>1. Alive(g) # {}
  BY Zenon DEF Alive, TakeRequest, FinishSearch, WriteReceipt, ObeyStop, WorkerDies
<1>2. \A h \in Groups : group'[h].closed = group[h].closed /\ (h # g => Alive(h)' = Alive(h))
  <2>1. CASE WriteReceipt(g, r)
    <3>1. group'[g].closed = group[g].closed /\ \A h \in Groups : h # g => group'[h] = group[h]
      BY <2>1, ReceiptFields
    <3> QED  BY <3>1 DEF Alive
  <2>2. CASE ~WriteReceipt(g, r)
    <3>1. \E w : Turns(g, r, w)
      BY <2>2, TurnTurns, Zenon DEF TakeRequest, FinishSearch, ObeyStop, WorkerDies
    <3> QED  BY <3>1 DEF Turns, Alive
  <2> QED  BY <2>1, <2>2
<1>3. ASSUME NEW h \in Groups
      PROVE  (Alive(h)' # {} => Alive(h) # {}) /\ group'[h].closed = group[h].closed
  BY <1>1, <1>2
<1> QED  BY <1>0, <1>3, StraysStay

\* No step of the call that holds the lock leaves a worker alive that nobody holds.
LEMMA ExecuteNoStray ==
    ASSUME SessionAssumption, Types, LockInv, CallInv, StrayInv, NEW t \in Threads, Execute(t)
    PROVE  StrayInv'
<1>0. call[t].pc = "execute" /\ parent' = parent  BY DEF Execute, At
<1>1. session.workers = 0 /\ \A u \in Threads : call[u].pc # "reap"
  BY <1>0, AloneUnderLock DEF CallInv, CallFits
<1>2. parent => \A h \in Groups : Alive(h) = {}
  <2>1. \A h \in Groups : h # 0  BY DEF Groups
  <2> QED  BY <1>1, <2>1 DEF StrayInv
<1>3. CASE Keeps
  <2>1. SUFFICES ASSUME parent, NEW h \in Groups  PROVE Alive(h)' = {}
    BY <1>0, Zenon DEF StrayInv
  <2> QED  BY <1>2, <1>3, <2>1, KeepsNoMoreAlive
<1>4. CASE ~Keeps
  <2>0. groups + 1 \in Groups  BY <1>4, ExecuteSpawns, Zenon
  <2> PICK g \in Groups : g = groups + 1  BY <2>0
  <2>1. PICK spawned \in SUBSET Ranks :
             /\ \A h \in Groups : h # g => group'[h] = group[h]
             /\ group'[g].closed = (spawned # Ranks)
             /\ session' = IF spawned = Ranks
                           THEN [session EXCEPT !.workers = g] ELSE session
             /\ call' = [call EXCEPT ![t].group = g, ![t].in = "submit",
                            ![t].pc = IF spawned = Ranks THEN "post" ELSE "reap"]
    BY <1>4, ExecuteSpawns, Zenon
  <2>2. SUFFICES ASSUME parent, NEW h \in Groups, Alive(h)' # {}
                 PROVE  \/ session'.workers = h /\ ~group'[h].closed
                        \/ \E u \in Threads : call'[u].pc = "reap" /\ call'[u].group = h
    BY <1>0, Zenon DEF StrayInv
  <2>3. h = g
    <3>1. h # g => Alive(h)' = Alive(h)  BY <2>1 DEF Alive
    <3> QED  BY <1>2, <2>2, <3>1
  <2>4. CASE spawned = Ranks
    <3>1. session'.workers = g /\ ~group'[g].closed
      BY <2>1, <2>4 DEF Types, SessionState
    <3> QED  BY <2>3, <3>1
  <2>5. CASE spawned # Ranks
    <3>1. call' = [call EXCEPT ![t].group = g, ![t].in = "submit", ![t].pc = "reap"]
      BY <2>1, <2>5
    <3>2. call'[t] = [call[t] EXCEPT !.group = g, !.in = "submit", !.pc = "reap"]
      BY <3>1 DEF Types
    <3>3. call[t] \in CallState  BY DEF Types
    <3>4. call'[t].pc = "reap" /\ call'[t].group = g  BY <3>2, <3>3 DEF CallState
    <3> QED  BY <2>3, <3>4
  <2> QED  BY <2>4, <2>5
<1> QED  BY <1>3, <1>4

LEMMA SubmitNoStray ==
    ASSUME SessionAssumption, Types, LockInv, CallInv, StrayInv, NEW t \in Threads,
           Post(t) \/ Poll(t) \/ Interrupt(t) \/ Collect(t)
    PROVE  StrayInv'
<1>0. call[t].pc \in {"post", "poll", "collect"} /\ UNCHANGED <<session, log, groups, parent>>
  BY DEF Post, Poll, Interrupt, Collect, At
<1>1. \A u \in Threads : call[u].pc # "reap"  BY <1>0, AloneUnderLock
<1>2. call[t].group \in Groups  BY <1>0, GroupAtWork DEF Submitting
<1>3. call[t].group = session.workers  BY <1>0 DEF CallInv, CallFits, Submitting
<1>4. CASE CloseInSubmit(t)
  <2> PICK g \in Groups : g = call[t].group  BY <1>2
  <2>1. Keeps  BY <1>0, <1>4, ClosingKeeps DEF CloseInSubmit
  <2>2. call'[t].pc = "reap" /\ call'[t].group = g  BY <1>4, CloseFields
  <2>3. call[t].pc \notin {"idle", "acquire", "reap"}  BY <1>0
  <2> QED  BY <1>0, <1>3, <2>1, <2>2, <2>3, StopsItsGroup
<1>5. CASE ~CloseInSubmit(t)
  <2>1. \A h \in Groups : group'[h].worker = group[h].worker
                            /\ group'[h].closed = group[h].closed
    <3>1. CASE UNCHANGED group  BY <3>1
    <3>2. CASE Post(t) /\ ~UNCHANGED group
      <4> PICK g \in Groups : g = call[t].group  BY <1>2
      <4>1. group' = [group EXCEPT ![g].request[group[g].sequence] = call[t].run]
        BY <3>2 DEF Post
      <4> DEFINE q == [group[g].request EXCEPT ![group[g].sequence] = call[t].run]
      <4>2. group' = [group EXCEPT ![g].request = q]  BY <4>1
      <4> HIDE DEF q
      <4> QED  BY <4>2 DEF Types, GroupState
    <3>3. CASE Collect(t)
      <4>1. group' = [group EXCEPT ![call[t].group].sequence = NextSequence(call[t].group)]
        BY <1>5, <3>3 DEF Collect
      <4> QED  BY <1>2, <4>1 DEF Types, GroupState
    <3> QED  BY <1>5, <3>1, <3>2, <3>3 DEF Poll, Interrupt
  <2>2. ASSUME NEW h \in Groups
        PROVE  (Alive(h)' # {} => Alive(h) # {}) /\ group'[h].closed = group[h].closed
    BY <2>1 DEF Alive
  <2> QED  BY <1>0, <1>1, <2>2, StraysStay
<1> QED  BY <1>4, <1>5

LEMMA ReleaseNoStray ==
    ASSUME SessionAssumption, Types, LockInv, CallInv, StrayInv, NEW t \in Threads, Release(t)
    PROVE  StrayInv'
<1>0. call[t].pc = "release" /\ UNCHANGED <<log, groups, parent>>  BY DEF Release, At
<1>1. CASE NothingToStop(session.workers)
  <2>1. Released(t) /\ UNCHANGED group  BY <1>1 DEF Release
  <2>2. session'.workers = 0  BY <2>1, ReleasedFields
  <2>3. Keeps  BY <1>0, <2>1, StillKeeps
  <2>4. session.workers \in Groups => group[session.workers].closed
    BY <1>1 DEF NothingToStop, Groups
  <2> QED  BY <1>0, <2>1, <2>2, <2>3, <2>4, ForgottenWhenStopped
<1>2. CASE ~NothingToStop(session.workers)
  <2>1. session.workers \in Groups
    BY <1>2 DEF NothingToStop, Types, SessionState, SessionAssumption, Groups
  <2> PICK g \in Groups : g = session.workers  BY <2>1
  <2>2. /\ group' = [group EXCEPT ![g].closed = TRUE] /\ UNCHANGED session
        /\ call' = [call EXCEPT ![t].pc = "reap", ![t].group = g, ![t].in = "release"]
    BY <1>2 DEF Release
  <2>3. Keeps  BY <1>0, <2>2, ClosingKeeps
  <2>4. call'[t].pc = "reap" /\ call'[t].group = g
    <3>1. call'[t] = [call[t] EXCEPT !.pc = "reap", !.group = g, !.in = "release"]
      BY <2>2 DEF Types
    <3>2. call[t] \in CallState  BY DEF Types
    <3> QED  BY <3>1, <3>2 DEF CallState
  <2>5. call[t].pc \notin {"idle", "acquire", "reap"}  BY <1>0
  <2> QED  BY <1>0, <2>2, <2>3, <2>4, <2>5, StopsItsGroup
<1> QED  BY <1>1, <1>2

LEMMA ReapNoStray ==
    ASSUME SessionAssumption, Types, LockInv, CallInv, StrayInv, ReapMayFail = FALSE,
           NEW t \in Threads, Reap(t)
    PROVE  StrayInv'
<1>0. call[t].pc = "reap" /\ UNCHANGED parent  BY DEF Reap, At
<1>1. call[t].group \in Groups  BY <1>0, GroupAtWork
<1> PICK g \in Groups : g = call[t].group  BY <1>1
<1>2. /\ Alive(g)' = {} /\ \A h \in Groups : group'[h].closed = group[h].closed
      /\ \/ call[t].in = "submit" /\ UNCHANGED session
         \/ call[t].in = "release" /\ Released(t)
  BY ReapedAll
<1>3. group[g].closed /\ (call[t].in = "release" => g = session.workers)
  BY <1>0 DEF CallInv, CallFits
<1>4. \/ session'.workers = session.workers
      \/ session'.workers = 0 /\ session.workers = g
  BY <1>2, <1>3, ReleasedFields
<1>5. session.workers \in Groups /\ session'.workers = 0 => group[session.workers].closed
  <2>1. 0 \notin Groups  BY DEF Groups
  <2> QED  BY <1>3, <1>4, <2>1
<1>6. session'.workers \in {0, session.workers}  BY <1>4
<1>7. \A h \in Groups : h = call[t].group => Alive(h)' = {}  BY <1>2
<1>8. call[t].pc \notin {"idle", "acquire"}  BY <1>0
<1> QED  BY <1>0, <1>2, <1>5, <1>6, <1>7, <1>8, ReapingKeeps, ForgottenWhenStopped

\* Every step keeps each live worker held, when reaping never leaves one behind.
LEMMA StrayInvKept ==
    ASSUME SessionAssumption, Types, LockInv, RunsInv, CallInv, StrayInv, ReapMayFail = FALSE, Next
    PROVE  StrayInv'
<1>a. call \in [Threads -> CallState] /\ session \in SessionState  BY DEF Types
<1>1. ASSUME NEW t \in Threads,
             \/ Enter(t) \/ Close(t) \/ Exit(t) \/ Begin(t) \/ Acquire(t) \/ Elapse(t)
             \/ Compare(t) \/ Accept(t)
      PROVE  StrayInv'
  <2>1. UNCHANGED <<group, parent>>
    BY <1>1, Zenon DEF Enter, Close, Exit, Begin, Acquire, Elapse, Compare, Accept
  <2>2. session'.workers = session.workers
    BY <1>1, <1>a, Zenon
       DEF Enter, Close, Exit, Begin, Acquire, Elapse, Compare, Accept, SessionState
  <2>3. ASSUME NEW h \in Groups
        PROVE  (Alive(h)' # {} => Alive(h) # {}) /\ group'[h].closed = group[h].closed
    BY <2>1 DEF Alive
  <2>4. call[t].pc # "reap"
    BY <1>1, Zenon DEF Enter, Close, Exit, Begin, Acquire, Elapse, Compare, Accept, At
  <2>5. \A u \in Threads : u # t => call'[u] = call[u]
    <3>1. CASE Enter(t) \/ Close(t) \/ Exit(t) \/ Begin(t) \/ Acquire(t) \/ Elapse(t)
      BY <1>a, <3>1, Zenon DEF Enter, Close, Exit, StartClose, Begin, Acquire, Goto, Elapse
    <3>2. CASE Compare(t)
      <4>1. \E c : call' = [call EXCEPT ![t] = c]  BY <3>2 DEF Compare
      <4> QED  BY <4>1, <1>a
    <3>3. CASE Accept(t)  BY <3>3, RaiseFields, ReturnFields DEF Accept
    <3> QED  BY <1>1, <3>1, <3>2, <3>3
  <2>6. \A u \in Threads : call[u].pc = "reap" =>
           call'[u].pc = "reap" /\ call'[u].group = call[u].group
    BY <2>4, <2>5
  <2> QED  BY <2>1, <2>2, <2>3, <2>6, StraysStay
<1>2. ASSUME ParentDies  PROVE StrayInv'
  BY <1>2 DEF ParentDies, StrayInv
<1>3. ASSUME NEW t \in Threads, ThreadStep(t) \/ Interrupt(t)  PROVE StrayInv'
  BY <1>1, <1>3, ExecuteNoStray, SubmitNoStray, ReleaseNoStray, ReapNoStray DEF ThreadStep
<1> QED  BY <1>1, <1>2, <1>3, WorkersNoStray DEF Next

----------------------------------------------------------------------------
(* The invariant holds at the start, and stutters.                          *)

\* The first state.
LEMMA StartTyped ==
    ASSUME SessionAssumption, Init
    PROVE  Types
<1>0. MaxRuns \in Nat /\ MaxGroups \in Nat  BY DEF SessionAssumption
<1>1. FALSE \in BOOLEAN /\ TRUE \in BOOLEAN  BY Zenon
<1>2. 0 \in 0..MaxRuns /\ 0 \in 0..MaxGroups /\ 0 \in 0..(MaxRuns + 1)  BY <1>0
<1>3. session \in SessionState
  <2>1. ASSUME NEW b \in BOOLEAN
        PROVE  [closed |-> b, workers |-> 0, identity |-> None, token |-> b] \in SessionState
    BY <1>2 DEF SessionState
  <2> QED  BY <1>1, <2>1, Zenon DEF Init
<1>4. active \in [Threads -> BOOLEAN]
  <2>1. ASSUME NEW b \in BOOLEAN  PROVE [t \in Threads |-> b] \in [Threads -> BOOLEAN]
    OBVIOUS
  <2> QED  BY <1>1, <2>1, Zenon DEF Init
<1>5. call \in [Threads -> CallState]
  <2>1. Idle \in CallState  BY IdleTyped, Zenon DEF Idle
  <2> QED  BY <2>1 DEF Init
<1>6. group \in [Groups -> GroupState]
  <2> DEFINE q == [s \in 0..MaxRuns |-> 0]
             n == [r \in Ranks |-> 0]
             w == [r \in Ranks |-> "none"]
  <2>1. q \in [0..MaxRuns -> 0..MaxRuns] /\ n \in [Ranks -> 0..(MaxRuns + 1)]
        /\ w \in [Ranks -> WorkerStates]
    BY <1>2 DEF WorkerStates
  <2>2. group = [g \in Groups |-> [ident |-> None, closed |-> FALSE, sequence |-> 0,
                  request |-> q, next |-> n, worker |-> w, done |-> {}]]
    BY DEF Init
  <2> HIDE DEF q, n, w
  <2>3. ASSUME NEW b \in BOOLEAN
        PROVE  [ident |-> None, closed |-> b, sequence |-> 0, request |-> q, next |-> n,
                worker |-> w, done |-> {}] \in GroupState
    BY <2>1, <1>2 DEF GroupState
  <2>4. [ident |-> None, closed |-> FALSE, sequence |-> 0, request |-> q, next |-> n,
         worker |-> w, done |-> {}] \in GroupState
    BY <2>3, <1>1, Zenon
  <2> QED  BY <2>2, <2>4, Zenon
<1>7. log \in [Runs -> [Ranks -> LogState]]
  <2>1. [text |-> "none", ident |-> None] \in LogState  BY DEF LogState
  <2>2. [r \in Ranks |-> [text |-> "none", ident |-> None]] \in [Ranks -> LogState]
    BY <2>1, Zenon
  <2> QED  BY <2>2, Zenon DEF Init
<1>8. lock \in Threads \cup {None} /\ groups \in 0..MaxGroups /\ runs \in 0..MaxRuns
      /\ parent \in BOOLEAN
  BY <1>1, <1>2 DEF Init
<1> QED  BY <1>3, <1>4, <1>5, <1>6, <1>7, <1>8 DEF Types

LEMMA StartFits ==
    ASSUME SessionAssumption, Init
    PROVE  SessionInv
<1>0. MaxRuns \in Nat /\ MaxGroups \in Nat /\ None \notin Threads /\ runs = 0 /\ groups = 0
      /\ lock = None
  BY DEF SessionAssumption, Init
<1>1. \A t \in Threads : call[t] = Idle  BY DEF Init
<1>2. \A t \in Threads : call[t].pc = "idle" /\ call[t].run = 0 /\ call[t].after = "raise"
         /\ call[t].group = 0 /\ call[t].in = "release"
  BY <1>1, IdleFields
<1>3. session.workers = 0 /\ session.identity = None  BY DEF Init
<1>4. \A g \in Groups :
        /\ group[g].sequence = 0 /\ \A s \in Seqs : group[g].request[s] = 0
        /\ \A r \in Ranks : group[g].next[r] = 0 /\ group[g].worker[r] = "none"
        /\ group[g].done = {}
  <2> DEFINE q == [s \in 0..MaxRuns |-> 0]
             n == [r \in Ranks |-> 0]
             w == [r \in Ranks |-> "none"]
  <2>1. /\ \A s \in Seqs : q[s] = 0
        /\ \A r \in Ranks : n[r] = 0 /\ w[r] = "none"
    BY DEF Seqs
  <2>2. group = [g \in Groups |-> [ident |-> None, closed |-> FALSE, sequence |-> 0,
                  request |-> q, next |-> n, worker |-> w, done |-> {}]]
    BY DEF Init
  <2> HIDE DEF q, n, w
  <2>3. \A g \in Groups : /\ group[g].sequence = 0 /\ group[g].request = q
                          /\ group[g].next = n /\ group[g].worker = w /\ group[g].done = {}
    BY <2>2
  <2> QED  BY <2>1, <2>3
<1>5. LockInv  BY <1>0, <1>2 DEF LockInv
<1>6. RunsInv  BY <1>0, <1>1, <1>2 DEF RunsInv, Unposted, Submitting
<1>7. PostedInv  BY <1>0, <1>2, <1>4 DEF PostedInv, Unposted
<1>8. WorkersInv
  <2> SUFFICES ASSUME NEW g \in Groups
               PROVE  /\ Unstarted(g) /\ InOrder(g)
                      /\ \A r \in Ranks : InTurn(g, r) /\ Receipted(g, r) /\ Searching(g, r)
    BY DEF WorkersInv
  <2>1. Unstarted(g)  BY <1>4 DEF Unstarted
  <2>2. \A s \in Seqs : ~(s < 0)  BY <1>0 DEF Seqs
  <2>3. InOrder(g)  BY <1>4, <2>2 DEF InOrder
  <2>4. ASSUME NEW r \in Ranks  PROVE InTurn(g, r) /\ Receipted(g, r) /\ Searching(g, r)
    BY <1>4, <2>2 DEF InTurn, Receipted, Searching
  <2> QED  BY <2>1, <2>3, <2>4
<1>9. CallInv  BY <1>2 DEF CallInv, CallFits, Submitting
<1>10. HandleInv  BY <1>0, <1>2, <1>3 DEF HandleInv, Started, Held, Emptied
<1> QED  BY <1>5, <1>6, <1>7, <1>8, <1>9, <1>10 DEF SessionInv

\* One step of the specification, stutters included.
LEMMA SessionInvKept ==
    ASSUME SessionAssumption, Types, SessionInv, [Next]_vars
    PROVE  Types' /\ SessionInv'
<1>1. CASE Next
  BY <1>1, TypesKept, LockInvKept, RunsInvKept, PostedInvKept, WorkersInvKept, CallsFit
     DEF SessionInv
<1>2. CASE UNCHANGED vars
  <2> USE <1>2 DEF vars
  <2>1. Types'  BY DEF Types
  <2>2. LockInv' /\ RunsInv'  BY DEF SessionInv, LockInv, RunsInv, Unposted
  <2>3. PostedInv'  BY DEF SessionInv, PostedInv, Unposted
  <2>4. ASSUME NEW g \in Groups
        PROVE  /\ Unstarted(g)' /\ InOrder(g)'
               /\ \A r \in Ranks : InTurn(g, r)' /\ Receipted(g, r)' /\ Searching(g, r)'
    <3>1. Unstarted(g)' /\ InOrder(g)'
      BY DEF SessionInv, WorkersInv, Unstarted, InOrder
    <3>2. ASSUME NEW r \in Ranks  PROVE InTurn(g, r)' /\ Receipted(g, r)' /\ Searching(g, r)'
      BY DEF SessionInv, WorkersInv, InTurn, Receipted, Searching, Written
    <3> QED  BY <3>1, <3>2
  <2>5. WorkersInv'  BY <2>4 DEF WorkersInv
  <2>6. CallInv'  BY DEF SessionInv, CallInv, CallFits, Receipts
  <2>7. HandleInv'
    BY DEF SessionInv, HandleInv, Started, Held, Emptied, InFlight, Clear
  <2> QED  BY <2>1, <2>2, <2>3, <2>5, <2>6, <2>7 DEF SessionInv
<1> QED  BY <1>1, <1>2

\* The invariant of the session: the lock, the runs, the mailboxes, the workers and
\* the handle agree at every step (persistent.py:40-157, resident_transport.py:13-94).
THEOREM SessionInvHolds == ASSUME SessionAssumption PROVE Spec => [](Types /\ SessionInv)
<1>1. Init => Types /\ SessionInv  BY StartTyped, StartFits
<1>2. Types /\ SessionInv /\ [Next]_vars => (Types /\ SessionInv)'  BY SessionInvKept
<1> QED  BY <1>1, <1>2, PTL DEF Spec

\* What the invariant says of types, answers and posts.
LEMMA TypesFit == ASSUME SessionAssumption, Types, SessionInv  PROVE TypeOK
<1>1. \A g \in Groups : group[g].sequence <= runs
  BY SequenceFits DEF SessionInv
<1> QED  BY <1>1 DEF Types, TypeOK, SessionState, CallState, GroupState, WorkerStates,
                           Receipt, LogState

LEMMA AnswerFits == ASSUME SessionAssumption, Types, SessionInv  PROVE AnswerBelongsToRequest
<1> SUFFICES ASSUME NEW t \in Threads, call[t].pc = "accept", NEW r \in Ranks
             PROVE  log[call[t].run][r] = [text |-> "full", ident |-> call[t].ident]
  BY DEF AnswerBelongsToRequest
<1>1. call[t].group \in Groups  BY GroupAtWork DEF Submitting, SessionInv
<1> PICK g \in Groups : g = call[t].group  BY <1>1
<1> DEFINE k == group[g].sequence - 1
<1>2. group[g].sequence > 0 /\ group[g].request[k] = call[t].run
      /\ group[g].ident = call[t].ident
  BY DEF SessionInv, CallInv, CallFits, Submitting
<1>3. k \in Seqs /\ k < group[g].sequence /\ group[g].sequence \in Nat
      /\ group[g].next[r] \in Nat /\ k \in Nat
  <2>1. group[g].sequence \in 0..MaxRuns /\ group[g].next \in [Ranks -> 0..MaxRuns + 1]
    BY DEF Types, GroupState
  <2>2. group[g].next[r] \in 0..MaxRuns + 1 /\ MaxRuns \in Nat  BY <2>1 DEF SessionAssumption
  <2> HIDE DEF Types, GroupState
  <2> QED  BY <1>2, <2>1, <2>2 DEF Seqs
<1>4. group[g].sequence <= group[g].next[r]
  BY DEF SessionInv, WorkersInv, InTurn
<1>5. k < group[g].next[r]  BY <1>3, <1>4
<1> HIDE DEF k
<1>6. log[group[g].request[k]][r] = Full(group[g].ident)
  BY <1>3, <1>5 DEF SessionInv, WorkersInv, Receipted
<1> QED  BY <1>2, <1>6 DEF Full

LEMMA PostsFit == ASSUME SessionAssumption, Types, SessionInv  PROVE PostsAfresh
<1> SUFFICES ASSUME NEW t \in Threads, call[t].pc = "post"
             PROVE  LET g == call[t].group IN
                    group[g].request[group[g].sequence] = 0 /\ Receipts(g) = {}
  BY DEF PostsAfresh
<1>1. call[t].group \in Groups  BY GroupAtWork DEF Submitting, SessionInv
<1> PICK g \in Groups : g = call[t].group  BY <1>1
<1>2. group[g].request[group[g].sequence] = 0  BY PostsToEmpty DEF SessionInv
<1>3. group[g].sequence \in Seqs  BY DEF Types, GroupState, Seqs
<1>4. \A r \in Ranks : <<group[g].sequence, r>> \notin group[g].done
  BY <1>2, <1>3 DEF SessionInv, WorkersInv, Receipted
<1> QED  BY <1>2, <1>4 DEF Receipts

\* Every variable keeps its type: in particular no group is ever at a sequence past
\* the searches begun (resident_transport.py:44-50, 70).
THEOREM SessionTyped == ASSUME SessionAssumption PROVE Spec => []TypeOK
BY TypesFit, SessionInvHolds, PTL

\* When _run_resident returns to a caller every rank's log is whole and holds what
\* that caller asked, by the identity it asked with, whatever other searches, deaths,
\* timeouts and closings came between (persistent.py:115-133, resident_transport.py:51-70).
THEOREM AnswersBelong == ASSUME SessionAssumption PROVE Spec => []AnswerBelongsToRequest
BY AnswerFits, SessionInvHolds, PTL

\* A request is posted where neither a request nor a receipt of an earlier one
\* lies: a receipt can never be taken for the answer of a later search
\* (resident_transport.py:45-50, 70).
THEOREM PostsAreFresh == ASSUME SessionAssumption PROVE Spec => []PostsAfresh
BY PostsFit, SessionInvHolds, PTL

\* A session closed by its only user holds no worker, and its user is in no call.
ClosedInv == session.closed => session.workers = 0 /\ \A t \in Threads : call[t].pc = "idle"

\* Only the release at the end of close() sets the flag, once the handle is dropped.
LEMMA ReleasedClosed ==
    ASSUME Types, NEW u, Threads = {u}, ~session.closed, Released(u)
    PROVE  ClosedInv'
<1>1. session' = [session EXCEPT !.workers = 0, !.identity = None,
                     !.closed = session.closed \/ call[u].after = "close"]
  BY DEF Released
<1>2. session \in SessionState /\ call \in [Threads -> CallState]  BY DEF Types
<1>3. session'.closed = (session.closed \/ call[u].after = "close") /\ session'.workers = 0
  BY <1>1, <1>2 DEF SessionState
<1>4. CASE call[u].after # "close"  BY <1>3, <1>4 DEF ClosedInv
<1>5. CASE call[u].after = "close"
  <2>1. call' = [call EXCEPT ![u] = Idle]  BY <1>5 DEF Released, Return
  <2>2. \A t \in Threads : call'[t].pc = "idle"  BY <2>1, <1>2, IdleFields
  <2> QED  BY <1>3, <2>2 DEF ClosedInv
<1> QED  BY <1>4, <1>5

\* Steps that leave the flag down, or find it up with nobody in a call.
LEMMA ClosedInvKept ==
    ASSUME Types, NEW u, Threads = {u}, ClosedInv, [Next]_vars
    PROVE  ClosedInv'
<1>a. session \in SessionState /\ call \in [Threads -> CallState]  BY DEF Types
<1>1. CASE UNCHANGED vars  BY <1>1 DEF vars, ClosedInv
<1>2. CASE UNCHANGED <<session, call>>  BY <1>2 DEF ClosedInv
<1>3. ASSUME ~session'.closed  PROVE ClosedInv'  BY <1>3 DEF ClosedInv
<1>4. ASSUME session.closed, NEW t \in Threads, ThreadStep(t) \/ Interrupt(t) \/ Elapse(t)
      PROVE  FALSE
  BY <1>4 DEF ClosedInv, ThreadStep, Interrupt, Elapse, Acquire, Compare, Execute, Post, Poll,
     Collect, Accept, Release, Reap, At
<1>5. ASSUME session.closed, NEW t \in Threads, Enter(t) \/ Close(t) \/ Exit(t) \/ Begin(t)
      PROVE  ClosedInv'
  <2>1. Exit(t) /\ UNCHANGED call  BY <1>5 DEF Enter, Close, Exit, Begin, StartClose
  <2>2. session'.workers = session.workers  BY <2>1, <1>a DEF Exit, SessionState
  <2> QED  BY <1>5, <2>1, <2>2 DEF ClosedInv
<1>6. ASSUME ~session.closed, NEW t \in Threads, Enter(t) \/ Close(t) \/ Exit(t) \/ Begin(t)
      PROVE  ~session'.closed
  BY <1>6, <1>a DEF Enter, Close, Exit, Begin, SessionState
<1>7. ASSUME ~session.closed, NEW t \in Threads, ThreadStep(t) \/ Interrupt(t) \/ Elapse(t)
      PROVE  ClosedInv'
  <2>1. CASE Released(t)  BY <1>7, <2>1, ReleasedClosed
  <2>2. CASE ~Released(t)
    <3>1. session'.closed = session.closed
      <4>1. CASE UNCHANGED session  BY <4>1
      <4>2. CASE Execute(t)  BY <4>2, <1>a DEF Execute, SessionState
      <4>3. CASE Accept(t)  BY <4>3, <1>a DEF Accept, SessionState
      <4> QED
        BY <1>7, <2>2, <4>1, <4>2, <4>3 DEF ThreadStep, Interrupt, Elapse, Acquire, Compare, Post,
           Poll, Collect, Release, Reap
    <3> QED  BY <1>3, <1>7, <3>1
  <2> QED  BY <2>1, <2>2
<1>8. ASSUME NEW g \in Groups, NEW r \in Ranks,
             \/ TakeRequest(g, r) \/ FinishSearch(g, r) \/ WriteReceipt(g, r)
             \/ ObeyStop(g, r) \/ WorkerDies(g, r)
      PROVE  UNCHANGED <<session, call>>
  BY <1>8, Zenon DEF TakeRequest, FinishSearch, WriteReceipt, ObeyStop, WorkerDies
<1>9. ASSUME ParentDies  PROVE UNCHANGED <<session, call>>  BY <1>9 DEF ParentDies
<1> QED  BY <1>1, <1>2, <1>4, <1>5, <1>6, <1>7, <1>8, <1>9, <1>3 DEF Next

\* The handle and the parent again: every live worker is held or being reaped.
LEMMA StrayStart == Init => StrayInv
<1>1. SUFFICES ASSUME Init, NEW g \in Groups  PROVE Alive(g) = {}
  BY Zenon DEF StrayInv
<1>2. \A r \in Ranks : group[g].worker[r] = "none"  BY <1>1 DEF Init
<1> QED  BY <1>2 DEF Alive

LEMMA StrayStep ==
    ASSUME SessionAssumption, ReapMayFail = FALSE, StrayInv, Types, SessionInv, [Next]_vars
    PROVE  StrayInv'
<1>1. ASSUME UNCHANGED vars  PROVE StrayInv'
  BY <1>1 DEF vars, StrayInv, Alive
<1> QED  BY <1>1, StrayInvKept, Zenon DEF SessionInv

LEMMA StrayFits == StrayInv => NoStrayWorkers
BY DEF StrayInv, NoStrayWorkers

LEMMA ClosedStart == Init => ClosedInv
BY DEF Init, ClosedInv

\* A closed session with nobody in a call leaves no worker to its group or to a call.
LEMMA ClosedFits == ASSUME ClosedInv, StrayInv  PROVE ClosedFreesWorkers
<1> SUFFICES ASSUME session.closed, parent, NEW g \in Groups, Alive(g) # {}  PROVE FALSE
  BY DEF ClosedFreesWorkers
<1>1. session.workers = 0 /\ \A t \in Threads : call[t].pc = "idle"  BY DEF ClosedInv
<1>2. session.workers = g  BY <1>1 DEF StrayInv
<1>3. g # 0  BY DEF Groups
<1> QED  BY <1>1, <1>2, <1>3

LEMMA StrayInvHolds ==
    ASSUME SessionAssumption, ReapMayFail = FALSE  PROVE Spec => []StrayInv
<1>1. StrayInv /\ Types /\ SessionInv /\ [Next]_vars => StrayInv'  BY StrayStep
<1> QED  BY <1>1, StrayStart, SessionInvHolds, PTL DEF Spec

\* While the parent lives every live worker belongs to the group the session holds or to
\* one a call is reaping, when terminate and wait always succeed
\* (persistent.py:76-80, resident_transport.py:31-34, 76-94).
THEOREM NoWorkerStrays ==
    ASSUME SessionAssumption, ReapMayFail = FALSE  PROVE Spec => []NoStrayWorkers
BY StrayFits, StrayInvHolds, PTL

\* "Exiting the context, including on exceptions, frees all owned workers"
\* (persistent.py:24-25) is true of a session that one thread uses: once it is closed and
\* no call is in progress, no worker is alive.
THEOREM ClosingFrees ==
    ASSUME SessionAssumption, ReapMayFail = FALSE, NEW u, Threads = {u}
    PROVE  Spec => []ClosedFreesWorkers
<1>1. ClosedInv /\ Types /\ [Next]_vars => ClosedInv'  BY ClosedInvKept
<1> QED  BY <1>1, ClosedStart, ClosedFits, SessionInvHolds, StrayInvHolds, PTL DEF Spec
================================================================================
