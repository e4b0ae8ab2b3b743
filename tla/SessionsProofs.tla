---------------------------- MODULE SessionsProofs ----------------------------
(***************************************************************************)
(* Sessions, for any number of threads, workers, searches and groups, and   *)
(* any number of contexts and jobs of the library.  The library is proved   *)
(* here: a wait that returns BEAM_OK has outlasted the jobs it was called   *)
(* after, and one engine runs in the process at a time.  The two sessions   *)
(* are instances of what NativeSessionProofs proves.                        *)
(***************************************************************************)
EXTENDS Sessions, FiniteSetTheorems, TLAPS
-----------------------------------------------------------------------------
(* The library.                                                             *)

Phases == {"created", "preparing", "ready", "running", "stopped", "error"}
EngineSteps == {"none", "prepare", "next", "asleep", "job", "complete", "leave", "over"}
Results == {"ok", "failed", "cancelled"}

Monitor == [there : BOOLEAN, phase : Phases, result : Results,
            completed : Nat, pending : Nat, stop : BOOLEAN]
Caller == [call : {"none", "look", "asleep", "join", "main"}, ctx : 0..MaxContexts,
           before : Nat, said : Results \cup {"nothing", "timeout"}]
EngineState == [pc : EngineSteps, job : Nat]

\* The types of the variables.
ControlTypes ==
    /\ occupied \in BOOLEAN /\ contexts \in 0..MaxContexts
    /\ control \in [Library!Contexts -> Monitor]
    /\ engine \in [Library!Contexts -> EngineState]
    /\ client \in [Threads -> Caller]
    /\ ran \in [Library!Contexts -> Nat] /\ accepted \in [Library!Contexts -> Nat]
    /\ \A t \in Threads :
          client[t].call \in {"look", "asleep", "join"} => client[t].ctx \in Library!Contexts

\* The monitor and its engine agree on the job at hand.
InStep(c) ==
    LET k == control[c]
        e == engine[c]
    IN /\ k.phase = "created" => e.pc = "none"
       /\ e.pc = "leave" => k.stop
       /\ k.phase \in {"created", "preparing", "ready"} =>
             accepted[c] = k.completed /\ k.pending = Library!NoJob
       /\ k.phase = "preparing" => e.pc \in {"prepare", "next"}
       /\ k.phase = "ready" => e.pc \in {"next", "asleep", "leave"}
       /\ k.phase = "running" =>
            /\ accepted[c] = k.completed + 1
            /\ \/ e.pc \in {"next", "leave"} /\ k.pending = k.completed /\ ran[c] = k.completed
               \/ e.pc = "job" /\ e.job = k.completed /\ ran[c] = k.completed
                  /\ k.pending = Library!NoJob
               \/ e.pc = "complete" /\ e.job = k.completed /\ ran[c] = accepted[c]
                  /\ k.pending = Library!NoJob
       /\ k.phase \in {"stopped", "error"} =>
            e.pc \in {"none", "over"} /\ (k.result = "ok" => k.stop)

\* Jobs are completed after they ran, and run after they were accepted.
Counted(c) ==
    control[c].completed <= ran[c] /\ ran[c] <= accepted[c] /\ accepted[c] <= MaxJobs

JobInv == \A c \in Library!Contexts : InStep(c) /\ Counted(c)

\* A wait under way, and one that returned BEAM_OK.
WaitInv ==
    \A t \in Threads :
      /\ client[t].call \in {"look", "asleep"} =>
            client[t].before <= accepted[client[t].ctx]
      /\ client[t].said = "ok" =>
            client[t].ctx \in Library!Contexts /\ client[t].before <= ran[client[t].ctx]

\* One context or one main at a time, and who joins the thread of the last one.
OneInv ==
    /\ \A c \in Library!Contexts : control[c].there => c = contexts /\ occupied
    /\ \A c \in Library!Running : c = contexts /\ occupied /\
          (control[c].there \/ \E t \in Threads : client[t].call = "join" /\ client[t].ctx = c)
    /\ \A t \in Threads : client[t].call = "join" =>
          client[t].ctx = contexts /\ contexts # 0 /\ occupied /\ ~control[contexts].there
    /\ \A t \in Threads : client[t].call = "main" =>
          /\ occupied /\ \A c \in Library!Contexts : ~control[c].there
          /\ \A u \in Threads : u # t => ~(client[u].call \in {"join", "main"})
    /\ \A t, u \in Threads : client[t].call = "join" /\ client[u].call = "join" => t = u

\* A field of one monitor changes and the monitors keep their type.
LEMMA MonitorThere ==
    ASSUME NEW S, NEW f \in [S -> Monitor], NEW c \in S, NEW v \in BOOLEAN
    PROVE  [f EXCEPT ![c].there = v] \in [S -> Monitor]
BY DEF Monitor

LEMMA MonitorStop ==
    ASSUME NEW S, NEW f \in [S -> Monitor], NEW c \in S, NEW v \in BOOLEAN
    PROVE  [f EXCEPT ![c].stop = v] \in [S -> Monitor]
BY DEF Monitor

LEMMA MonitorGone ==
    ASSUME NEW S, NEW f \in [S -> Monitor], NEW c \in S, NEW v \in BOOLEAN, NEW w \in BOOLEAN
    PROVE  [f EXCEPT ![c].stop = v, ![c].there = w] \in [S -> Monitor]
BY DEF Monitor

LEMMA MonitorAnswer ==
    ASSUME NEW S, NEW f \in [S -> Monitor], NEW c \in S, NEW r \in Results, NEW p \in Phases
    PROVE  [f EXCEPT ![c] = [@ EXCEPT !.result = r, !.phase = p]] \in [S -> Monitor]
BY DEF Monitor

LEMMA MonitorPhase ==
    ASSUME NEW S, NEW f \in [S -> Monitor], NEW c \in S, NEW n \in Nat, NEW p \in Phases
    PROVE  /\ [f EXCEPT ![c].phase = p] \in [S -> Monitor]
           /\ [f EXCEPT ![c] = [@ EXCEPT !.phase = p, !.pending = n]] \in [S -> Monitor]
           /\ [f EXCEPT ![c] = [@ EXCEPT !.pending = n, !.phase = p]] \in [S -> Monitor]
           /\ [f EXCEPT ![c].completed = n, ![c].phase = p] \in [S -> Monitor]
BY DEF Monitor

\* The end of an engine thread gives its monitor a result and a phase
\* (beam_native.cpp:124-134).
LEMMA MonitorFinished ==
    ASSUME NEW c \in Library!Contexts, NEW code \in Results,
           control \in [Library!Contexts -> Monitor], Library!Finish(c, code)
    PROVE  control' \in [Library!Contexts -> Monitor]
<1> DEFINE r == IF control[c].stop THEN "cancelled" ELSE code
           p == IF r = "failed" THEN "error" ELSE "stopped"
<1>1. r \in Results /\ p \in Phases  BY DEF Results, Phases
<1>2. control' = [control EXCEPT ![c] = [@ EXCEPT !.result = r, !.phase = p]]
  BY DEF Library!Finish
<1> HIDE DEF r, p
<1> QED  BY <1>1, <1>2, MonitorAnswer

\* The callers a notify wakes, and those a call returns to, keep their type.
LEMMA WokenTyped ==
    ASSUME NEW c \in Library!Contexts, client \in [Threads -> Caller]
    PROVE  Library!Woken(c) \in [Threads -> Caller]
BY DEF Library!Woken, Caller

LEMMA ReturnsTyped ==
    ASSUME NEW t \in Threads, client \in [Threads -> Caller],
           NEW s \in Results \cup {"nothing", "timeout"}, Library!Returns(t, s)
    PROVE  client' \in [Threads -> Caller]
BY DEF Library!Returns, Caller

\* The record of a call just begun.
LEMMA CallsTyped ==
    ASSUME NEW c \in 0..MaxContexts, Library!ControlAssumption
    PROVE  /\ [Library!Free EXCEPT !.ctx = c] \in Caller
           /\ [Library!Free EXCEPT !.call = "main"] \in Caller
           /\ [Library!Free EXCEPT !.call = "join", !.ctx = c] \in Caller
<1> USE DEF Library!Free, Caller, Library!ControlAssumption, Results
<1>1. [Library!Free EXCEPT !.ctx = c] = [call |-> "none", ctx |-> c, before |-> 0, said |-> "nothing"]
  OBVIOUS
<1>2. [Library!Free EXCEPT !.call = "main"] =
        [call |-> "main", ctx |-> 0, before |-> 0, said |-> "nothing"]
  OBVIOUS
<1>3. [Library!Free EXCEPT !.call = "join", !.ctx = c] =
        [call |-> "join", ctx |-> c, before |-> 0, said |-> "nothing"]
  <2> DEFINE j == [call |-> "join", ctx |-> 0, before |-> 0, said |-> "nothing"]
  <2>1. [Library!Free EXCEPT !.call = "join"] = j  OBVIOUS
  <2>2. [j EXCEPT !.ctx = c] = [call |-> "join", ctx |-> c, before |-> 0, said |-> "nothing"]
    OBVIOUS
  <2> HIDE DEF j
  <2> QED  BY <2>1, <2>2
<1> QED  BY <1>1, <1>2, <1>3

\* Every step keeps the types.
LEMMA ControlTypesKept ==
    ASSUME Library!ControlAssumption, ControlTypes, Library!Next
    PROVE  ControlTypes'
<1> USE DEF Library!Contexts, Library!NoJob, Phases, EngineSteps, Results, Library!ControlAssumption
<1>a. occupied \in BOOLEAN /\ contexts \in 0..MaxContexts  BY DEF ControlTypes
<1>b. control \in [Library!Contexts -> Monitor]  BY DEF ControlTypes
<1>c. engine \in [Library!Contexts -> EngineState]  BY DEF ControlTypes
<1>d. client \in [Threads -> Caller]  BY DEF ControlTypes
<1>e. ran \in [Library!Contexts -> Nat] /\ accepted \in [Library!Contexts -> Nat]
  BY DEF ControlTypes
<1>f. \A c \in Library!Contexts : Library!Answer(c) \in Results
  BY <1>b DEF Monitor, Library!Answer
<1>g. \A t \in Threads :
        client[t].call \in {"look", "asleep", "join"} => client[t].ctx \in Library!Contexts
  BY DEF ControlTypes
<1>1. ASSUME NEW t \in Threads, Library!Create(t) PROVE ControlTypes'
  <2>1. occupied' \in BOOLEAN /\ contexts' \in 0..MaxContexts
    BY <1>1, <1>a DEF Library!Create, Library!Free, Library!Idle
  <2>2. control' \in [Library!Contexts -> Monitor]
    <3>1. contexts' \in Library!Contexts  BY <1>1, <1>a DEF Library!Create
    <3> QED  BY <1>1, <1>b, <3>1, MonitorThere, Zenon DEF Library!Create
  <2>3. engine' \in [Library!Contexts -> EngineState]
    BY <1>1, <1>c DEF EngineState, Library!Create, Library!Free, Library!Idle
  <2>4. client' \in [Threads -> Caller]
    BY <1>1, <1>a, <1>d, <1>f, <1>g, WokenTyped, <1>e
      DEF Caller, Library!Create, Library!Free, Library!Idle
  <2>5. ran' \in [Library!Contexts -> Nat] /\ accepted' \in [Library!Contexts -> Nat]
    BY <1>1, <1>e DEF Library!Create, Library!Free, Library!Idle
  <2>6. \A u \in Threads : client'[u].call \in {"look", "asleep", "join"} =>
           client'[u].ctx \in Library!Contexts
    BY <1>1, <1>d, <1>g DEF Caller, Library!Woken, Library!Create, Library!Free, Library!Idle
  <2> QED BY <2>1, <2>2, <2>3, <2>4, <2>5, <2>6 DEF ControlTypes
<1>2. ASSUME NEW t \in Threads, Library!Main(t) PROVE ControlTypes'
  <2>1. occupied' \in BOOLEAN /\ contexts' \in 0..MaxContexts
    BY <1>2, <1>a DEF Library!Main, Library!Free, Library!Idle, Library!Returns
  <2>2. control' \in [Library!Contexts -> Monitor]
    BY <1>2, <1>a, <1>b DEF Monitor, Library!Main, Library!Free, Library!Idle, Library!Returns
  <2>3. engine' \in [Library!Contexts -> EngineState]
    BY <1>2, <1>c DEF EngineState, Library!Main, Library!Free, Library!Idle, Library!Returns
  <2>4. client' \in [Threads -> Caller]
    <3>1. CASE client' = [client EXCEPT ![t] = [Library!Free EXCEPT !.call = "main"]]
      BY <3>1, <1>a, <1>d, CallsTyped
    <3>2. CASE Library!Returns(t, "nothing")
      BY <3>2, <1>d, ReturnsTyped
    <3> QED  BY <1>2, <3>1, <3>2 DEF Library!Main
  <2>5. ran' \in [Library!Contexts -> Nat] /\ accepted' \in [Library!Contexts -> Nat]
    BY <1>2, <1>e DEF Library!Main, Library!Free, Library!Idle, Library!Returns
  <2>6. \A u \in Threads : client'[u].call \in {"look", "asleep", "join"} =>
           client'[u].ctx \in Library!Contexts
    BY <1>2, <1>d, <1>g, ZenonT(40)
      DEF Caller, Library!Woken, Library!Main, Library!Free, Library!Idle, Library!Returns
  <2> QED BY <2>1, <2>2, <2>3, <2>4, <2>5, <2>6 DEF ControlTypes
<1>3. ASSUME NEW t \in Threads, Library!TimeOut(t) PROVE ControlTypes'
  <2>1. occupied' \in BOOLEAN /\ contexts' \in 0..MaxContexts
    BY <1>3, <1>a DEF Library!TimeOut, Library!Returns
  <2>2. control' \in [Library!Contexts -> Monitor]
    BY <1>3, <1>a, <1>b DEF Monitor, Library!TimeOut, Library!Returns
  <2>3. engine' \in [Library!Contexts -> EngineState]
    BY <1>3, <1>c DEF EngineState, Library!TimeOut, Library!Returns
  <2>4. client' \in [Threads -> Caller]
    BY <1>3, <1>d, <1>f, <1>g, ReturnsTyped DEF Library!TimeOut, Caller
  <2>5. ran' \in [Library!Contexts -> Nat] /\ accepted' \in [Library!Contexts -> Nat]
    BY <1>3, <1>e DEF Library!TimeOut, Library!Returns
  <2>6. \A u \in Threads : client'[u].call \in {"look", "asleep", "join"} =>
           client'[u].ctx \in Library!Contexts
    BY <1>3, <1>d, <1>g DEF Caller, Library!Woken, Library!TimeOut, Library!Returns
  <2> QED BY <2>1, <2>2, <2>3, <2>4, <2>5, <2>6 DEF ControlTypes
<1>4. ASSUME NEW t \in Threads, Library!Look(t) PROVE ControlTypes'
  <2>1. occupied' \in BOOLEAN /\ contexts' \in 0..MaxContexts
    BY <1>4, <1>a DEF Library!Look, Library!Returns
  <2>2. control' \in [Library!Contexts -> Monitor]
    BY <1>4, <1>a, <1>b DEF Monitor, Library!Look, Library!Returns
  <2>3. engine' \in [Library!Contexts -> EngineState]
    BY <1>4, <1>c DEF EngineState, Library!Look, Library!Returns
  <2>4. client' \in [Threads -> Caller]
    <3>1. client[t].ctx \in Library!Contexts  BY <1>4, <1>g DEF Library!Look
    <3>2. CASE Library!Returns(t, Library!Answer(client[t].ctx))
      BY <3>1, <3>2, <1>d, <1>f, ReturnsTyped
    <3>3. CASE client' = [client EXCEPT ![t].call = "asleep"]
      BY <3>3, <1>d DEF Caller
    <3> QED  BY <1>4, <3>2, <3>3 DEF Library!Look
  <2>5. ran' \in [Library!Contexts -> Nat] /\ accepted' \in [Library!Contexts -> Nat]
    BY <1>4, <1>e DEF Library!Look, Library!Returns
  <2>6. \A u \in Threads : client'[u].call \in {"look", "asleep", "join"} =>
           client'[u].ctx \in Library!Contexts
    BY <1>4, <1>d, <1>g DEF Caller, Library!Woken, Library!Look, Library!Returns
  <2> QED BY <2>1, <2>2, <2>3, <2>4, <2>5, <2>6 DEF ControlTypes
<1>5. ASSUME NEW t \in Threads, Library!Join(t) PROVE ControlTypes'
  <2>1. occupied' \in BOOLEAN /\ contexts' \in 0..MaxContexts
    BY <1>5, <1>a DEF Library!Join, Library!Returns
  <2>2. control' \in [Library!Contexts -> Monitor]
    BY <1>5, <1>a, <1>b DEF Monitor, Library!Join, Library!Returns
  <2>3. engine' \in [Library!Contexts -> EngineState]
    BY <1>5, <1>c DEF EngineState, Library!Join, Library!Returns
  <2>4. client' \in [Threads -> Caller]
    BY <1>5, <1>a, <1>d, <1>f, <1>g, WokenTyped, <1>e DEF Caller, Library!Join, Library!Returns
  <2>5. ran' \in [Library!Contexts -> Nat] /\ accepted' \in [Library!Contexts -> Nat]
    BY <1>5, <1>e DEF Library!Join, Library!Returns
  <2>6. \A u \in Threads : client'[u].call \in {"look", "asleep", "join"} =>
           client'[u].ctx \in Library!Contexts
    BY <1>5, <1>d, <1>g DEF Caller, Library!Woken, Library!Join, Library!Returns
  <2> QED BY <2>1, <2>2, <2>3, <2>4, <2>5, <2>6 DEF ControlTypes
<1>6. ASSUME NEW t \in Threads, NEW c \in Library!Contexts, Library!Prepare(t, c) PROVE ControlTypes'
  <2>1. occupied' \in BOOLEAN /\ contexts' \in 0..MaxContexts
    BY <1>6, <1>a DEF Library!Prepare
  <2>2. control' \in [Library!Contexts -> Monitor]
    <3>1. CASE control' = [control EXCEPT ![c].phase = "preparing"]
      BY <3>1, <1>b DEF Monitor
    <3> DEFINE r == IF control[c].stop THEN "cancelled" ELSE "failed"
               p == IF control[c].stop THEN "stopped" ELSE "error"
    <3>2. CASE control' = [control EXCEPT ![c] = [@ EXCEPT !.result = r, !.phase = p]]
      <4>1. r \in Results /\ p \in Phases  OBVIOUS
      <4> HIDE DEF r, p
      <4> QED  BY <3>2, <4>1, <1>b, MonitorAnswer
    <3> QED  BY <1>6, <3>1, <3>2, Zenon DEF Library!Prepare
  <2>3. engine' \in [Library!Contexts -> EngineState]
    BY <1>6, <1>c DEF EngineState, Library!Prepare
  <2>4. client' \in [Threads -> Caller]
    BY <1>6, <1>a, <1>d, <1>f, <1>g, WokenTyped, <1>e DEF Caller, Library!Prepare
  <2>5. ran' \in [Library!Contexts -> Nat] /\ accepted' \in [Library!Contexts -> Nat]
    BY <1>6, <1>e DEF Library!Prepare
  <2>6. \A u \in Threads : client'[u].call \in {"look", "asleep", "join"} =>
           client'[u].ctx \in Library!Contexts
    BY <1>6, <1>d, <1>g DEF Caller, Library!Woken, Library!Prepare
  <2> QED BY <2>1, <2>2, <2>3, <2>4, <2>5, <2>6 DEF ControlTypes
<1>7. ASSUME NEW t \in Threads, NEW c \in Library!Contexts, Library!Submit(t, c) PROVE ControlTypes'
  <2>1. occupied' \in BOOLEAN /\ contexts' \in 0..MaxContexts
    BY <1>7, <1>a DEF Library!Submit, Library!Submitted, Library!WokenEngine
  <2>2. control' \in [Library!Contexts -> Monitor]
    BY <1>7, <1>a, <1>b DEF Monitor, Library!Submit, Library!Submitted, Library!WokenEngine
  <2>3. engine' \in [Library!Contexts -> EngineState]
    BY <1>7, <1>c DEF EngineState, Library!Submit, Library!Submitted, Library!WokenEngine
  <2>4. client' \in [Threads -> Caller]
    BY <1>7, <1>a, <1>d, <1>f, <1>g, WokenTyped, <1>e
      DEF Caller, Library!Submit, Library!Submitted, Library!WokenEngine
  <2>5. ran' \in [Library!Contexts -> Nat] /\ accepted' \in [Library!Contexts -> Nat]
    BY <1>7, <1>e DEF Library!Submit, Library!Submitted, Library!WokenEngine
  <2>6. \A u \in Threads : client'[u].call \in {"look", "asleep", "join"} =>
           client'[u].ctx \in Library!Contexts
    BY <1>7, <1>d, <1>g
      DEF Caller, Library!Woken, Library!Submit, Library!Submitted, Library!WokenEngine
  <2> QED BY <2>1, <2>2, <2>3, <2>4, <2>5, <2>6 DEF ControlTypes
<1>8. ASSUME NEW t \in Threads, NEW c \in Library!Contexts, Library!Wait(t, c) PROVE ControlTypes'
  <2>1. occupied' \in BOOLEAN /\ contexts' \in 0..MaxContexts
    BY <1>8, <1>a DEF Library!Wait
  <2>2. control' \in [Library!Contexts -> Monitor]
    BY <1>8, <1>a, <1>b DEF Monitor, Library!Wait
  <2>3. engine' \in [Library!Contexts -> EngineState]
    BY <1>8, <1>c DEF EngineState, Library!Wait
  <2>4. client' \in [Threads -> Caller]
    BY <1>8, <1>a, <1>d, <1>f, <1>g, WokenTyped, <1>e DEF Caller, Library!Wait
  <2>5. ran' \in [Library!Contexts -> Nat] /\ accepted' \in [Library!Contexts -> Nat]
    BY <1>8, <1>e DEF Library!Wait
  <2>6. \A u \in Threads : client'[u].call \in {"look", "asleep", "join"} =>
           client'[u].ctx \in Library!Contexts
    BY <1>8, <1>d, <1>g DEF Caller, Library!Woken, Library!Wait
  <2> QED BY <2>1, <2>2, <2>3, <2>4, <2>5, <2>6 DEF ControlTypes
<1>9. ASSUME NEW t \in Threads, NEW c \in Library!Contexts, Library!Cancel(t, c) PROVE ControlTypes'
  <2>1. occupied' \in BOOLEAN /\ contexts' \in 0..MaxContexts
    BY <1>9, <1>a DEF Library!Cancel, Library!WokenEngine, Library!EngineAfterCancel
  <2>2. control' \in [Library!Contexts -> Monitor]
    BY <1>9, <1>b, MonitorStop DEF Library!Cancel
  <2>3. engine' \in [Library!Contexts -> EngineState]
    BY <1>9, <1>c DEF EngineState, Library!Cancel, Library!WokenEngine, Library!EngineAfterCancel
  <2>4. client' \in [Threads -> Caller]
    BY <1>9, <1>a, <1>d, <1>f, <1>g, WokenTyped, <1>e DEF Caller, Library!Cancel, Library!WokenEngine,
       Library!EngineAfterCancel
  <2>5. ran' \in [Library!Contexts -> Nat] /\ accepted' \in [Library!Contexts -> Nat]
    BY <1>9, <1>e DEF Library!Cancel, Library!WokenEngine, Library!EngineAfterCancel
  <2>6. \A u \in Threads : client'[u].call \in {"look", "asleep", "join"} =>
           client'[u].ctx \in Library!Contexts
    BY <1>9, <1>d, <1>g
      DEF Caller, Library!Woken, Library!Cancel, Library!WokenEngine, Library!EngineAfterCancel
  <2> QED BY <2>1, <2>2, <2>3, <2>4, <2>5, <2>6 DEF ControlTypes
<1>10. ASSUME NEW t \in Threads, NEW c \in Library!Contexts, Library!Destroy(t, c) PROVE ControlTypes'
  <2>1. occupied' \in BOOLEAN /\ contexts' \in 0..MaxContexts
    BY <1>10, <1>a DEF Library!Destroy, Library!Free, Library!WokenEngine
  <2>2. control' \in [Library!Contexts -> Monitor]
    BY <1>10, <1>b, MonitorGone DEF Library!Destroy
  <2>3. engine' \in [Library!Contexts -> EngineState]
    BY <1>10, <1>c DEF EngineState, Library!Destroy, Library!Free, Library!WokenEngine
  <2>4. client' \in [Threads -> Caller]
    <3>0. c \in 0..MaxContexts  OBVIOUS
    <3>1. [Library!Free EXCEPT !.call = "join", !.ctx = c] \in Caller  BY <3>0, CallsTyped
    <3>2. client' = [client EXCEPT ![t] = [Library!Free EXCEPT !.call = "join", !.ctx = c]]
      BY <1>10 DEF Library!Destroy
    <3> QED  BY <3>1, <3>2, <1>d
  <2>5. ran' \in [Library!Contexts -> Nat] /\ accepted' \in [Library!Contexts -> Nat]
    BY <1>10, <1>e DEF Library!Destroy, Library!Free, Library!WokenEngine
  <2>6. \A u \in Threads : client'[u].call \in {"look", "asleep", "join"} =>
           client'[u].ctx \in Library!Contexts
    BY <1>10, <1>d, <1>g DEF Caller, Library!Woken, Library!Destroy, Library!Free, Library!WokenEngine
  <2> QED BY <2>1, <2>2, <2>3, <2>4, <2>5, <2>6 DEF ControlTypes
<1>11. ASSUME NEW c \in Library!Contexts, Library!Prepared(c) PROVE ControlTypes'
  <2>1. occupied' \in BOOLEAN /\ contexts' \in 0..MaxContexts
    BY <1>11, <1>a DEF Library!Prepared
  <2>2. control' \in [Library!Contexts -> Monitor]
    BY <1>11, <1>a, <1>b DEF Monitor, Library!Prepared
  <2>3. engine' \in [Library!Contexts -> EngineState]
    BY <1>11, <1>c DEF EngineState, Library!Prepared
  <2>4. client' \in [Threads -> Caller]
    BY <1>11, <1>a, <1>d, <1>f, <1>g, WokenTyped, <1>e DEF Caller, Library!Prepared
  <2>5. ran' \in [Library!Contexts -> Nat] /\ accepted' \in [Library!Contexts -> Nat]
    BY <1>11, <1>e DEF Library!Prepared
  <2>6. \A u \in Threads : client'[u].call \in {"look", "asleep", "join"} =>
           client'[u].ctx \in Library!Contexts
    BY <1>11, <1>d, <1>g DEF Caller, Library!Woken, Library!Prepared
  <2> QED BY <2>1, <2>2, <2>3, <2>4, <2>5, <2>6 DEF ControlTypes
<1>12. ASSUME NEW c \in Library!Contexts, Library!Throws(c) PROVE ControlTypes'
  <2>1. occupied' \in BOOLEAN /\ contexts' \in 0..MaxContexts
    BY <1>12, <1>a DEF Library!Throws, Library!Finish
  <2>2. control' \in [Library!Contexts -> Monitor]
    BY <1>12, <1>b, MonitorFinished DEF Results, Library!Throws, Library!Finish
  <2>3. engine' \in [Library!Contexts -> EngineState]
    BY <1>12, <1>c DEF EngineState, Library!Throws, Library!Finish
  <2>4. client' \in [Threads -> Caller]
    BY <1>12, <1>a, <1>d, <1>f, <1>g, WokenTyped, <1>e DEF Caller, Library!Throws, Library!Finish
  <2>5. ran' \in [Library!Contexts -> Nat] /\ accepted' \in [Library!Contexts -> Nat]
    BY <1>12, <1>e DEF Library!Throws, Library!Finish
  <2>6. \A u \in Threads : client'[u].call \in {"look", "asleep", "join"} =>
           client'[u].ctx \in Library!Contexts
    BY <1>12, <1>d, <1>g DEF Caller, Library!Woken, Library!Throws, Library!Finish
  <2> QED BY <2>1, <2>2, <2>3, <2>4, <2>5, <2>6 DEF ControlTypes
<1>13. ASSUME NEW c \in Library!Contexts, Library!Cancelled(c) PROVE ControlTypes'
  <2>1. occupied' \in BOOLEAN /\ contexts' \in 0..MaxContexts
    BY <1>13, <1>a DEF Library!Cancelled, Library!Finish
  <2>2. control' \in [Library!Contexts -> Monitor]
    BY <1>13, <1>b, MonitorFinished DEF Results, Library!Cancelled, Library!Finish
  <2>3. engine' \in [Library!Contexts -> EngineState]
    BY <1>13, <1>c DEF EngineState, Library!Cancelled, Library!Finish
  <2>4. client' \in [Threads -> Caller]
    BY <1>13, <1>a, <1>d, <1>f, <1>g, WokenTyped, <1>e DEF Caller, Library!Cancelled, Library!Finish
  <2>5. ran' \in [Library!Contexts -> Nat] /\ accepted' \in [Library!Contexts -> Nat]
    BY <1>13, <1>e DEF Library!Cancelled, Library!Finish
  <2>6. \A u \in Threads : client'[u].call \in {"look", "asleep", "join"} =>
           client'[u].ctx \in Library!Contexts
    BY <1>13, <1>d, <1>g DEF Caller, Library!Woken, Library!Cancelled, Library!Finish
  <2> QED BY <2>1, <2>2, <2>3, <2>4, <2>5, <2>6 DEF ControlTypes
<1>14. ASSUME NEW c \in Library!Contexts, Library!NextJob(c) PROVE ControlTypes'
  <2>1. occupied' \in BOOLEAN /\ contexts' \in 0..MaxContexts
    BY <1>14, <1>a DEF Library!NextJob
  <2>2. control' \in [Library!Contexts -> Monitor]
    <3> DEFINE phase == IF control[c].phase = "preparing" THEN "ready" ELSE control[c].phase
    <3>1. phase \in Phases  BY <1>b DEF Monitor
    <3>2. \/ control' = [control EXCEPT ![c].phase = phase]
          \/ control' = [control EXCEPT ![c] = [@ EXCEPT !.phase = phase, !.pending = MaxJobs]]
      BY <1>14, Zenon DEF Library!NextJob
    <3> HIDE DEF phase
    <3>3. [control EXCEPT ![c].phase = phase] \in [Library!Contexts -> Monitor]
      BY <3>1, <1>b, MonitorPhase
    <3>4. [control EXCEPT ![c] = [@ EXCEPT !.phase = phase, !.pending = MaxJobs]]
             \in [Library!Contexts -> Monitor]
      BY <3>1, <1>b, MonitorPhase
    <3> QED  BY <3>2, <3>3, <3>4, Zenon
  <2>3. engine' \in [Library!Contexts -> EngineState]
    <3>1. \/ \E p \in EngineSteps : engine' = [engine EXCEPT ![c].pc = p]
          \/ engine' = [engine EXCEPT ![c] = [pc |-> "job", job |-> control[c].pending]]
      BY <1>14 DEF Library!NextJob
    <3>2. control[c].pending \in Nat  BY <1>b DEF Monitor
    <3> QED  BY <3>1, <3>2, <1>c DEF EngineState
  <2>4. client' \in [Threads -> Caller]
    BY <1>14, <1>a, <1>d, <1>f, <1>g, WokenTyped, <1>e DEF Caller, Library!NextJob
  <2>5. ran' \in [Library!Contexts -> Nat] /\ accepted' \in [Library!Contexts -> Nat]
    BY <1>14, <1>e DEF Library!NextJob
  <2>6. \A u \in Threads : client'[u].call \in {"look", "asleep", "join"} =>
           client'[u].ctx \in Library!Contexts
    BY <1>14, <1>d, <1>g DEF Caller, Library!Woken, Library!NextJob
  <2> QED BY <2>1, <2>2, <2>3, <2>4, <2>5, <2>6 DEF ControlTypes
<1>15. ASSUME NEW c \in Library!Contexts, Library!Leave(c) PROVE ControlTypes'
  <2>1. occupied' \in BOOLEAN /\ contexts' \in 0..MaxContexts
    BY <1>15, <1>a DEF Library!Leave, Library!Finish
  <2>2. control' \in [Library!Contexts -> Monitor]
    BY <1>15, <1>b, MonitorFinished DEF Results, Library!Leave, Library!Finish
  <2>3. engine' \in [Library!Contexts -> EngineState]
    BY <1>15, <1>c DEF EngineState, Library!Leave, Library!Finish
  <2>4. client' \in [Threads -> Caller]
    BY <1>15, <1>a, <1>d, <1>f, <1>g, WokenTyped, <1>e DEF Caller, Library!Leave, Library!Finish
  <2>5. ran' \in [Library!Contexts -> Nat] /\ accepted' \in [Library!Contexts -> Nat]
    BY <1>15, <1>e DEF Library!Leave, Library!Finish
  <2>6. \A u \in Threads : client'[u].call \in {"look", "asleep", "join"} =>
           client'[u].ctx \in Library!Contexts
    BY <1>15, <1>d, <1>g DEF Caller, Library!Woken, Library!Leave, Library!Finish
  <2> QED BY <2>1, <2>2, <2>3, <2>4, <2>5, <2>6 DEF ControlTypes
<1>16. ASSUME NEW c \in Library!Contexts, Library!RunJob(c) PROVE ControlTypes'
  <2>1. occupied' \in BOOLEAN /\ contexts' \in 0..MaxContexts
    BY <1>16, <1>a DEF Library!RunJob
  <2>2. control' \in [Library!Contexts -> Monitor]
    BY <1>16, <1>a, <1>b DEF Monitor, Library!RunJob
  <2>3. engine' \in [Library!Contexts -> EngineState]
    BY <1>16, <1>c DEF EngineState, Library!RunJob
  <2>4. client' \in [Threads -> Caller]
    BY <1>16, <1>a, <1>d, <1>f, <1>g, WokenTyped, <1>e DEF Caller, Library!RunJob
  <2>5. ran' \in [Library!Contexts -> Nat] /\ accepted' \in [Library!Contexts -> Nat]
    BY <1>16, <1>e DEF Library!RunJob
  <2>6. \A u \in Threads : client'[u].call \in {"look", "asleep", "join"} =>
           client'[u].ctx \in Library!Contexts
    BY <1>16, <1>d, <1>g DEF Caller, Library!Woken, Library!RunJob
  <2> QED BY <2>1, <2>2, <2>3, <2>4, <2>5, <2>6 DEF ControlTypes
<1>17. ASSUME NEW c \in Library!Contexts, Library!Complete(c) PROVE ControlTypes'
  <2>1. occupied' \in BOOLEAN /\ contexts' \in 0..MaxContexts
    BY <1>17, <1>a DEF Library!Complete, Library!Finish
  <2>2. control' \in [Library!Contexts -> Monitor]
    <3>1. CASE control' = [control EXCEPT ![c].completed = @ + 1, ![c].phase = "ready"]
      <4>1. control[c].completed + 1 \in Nat  BY <1>b DEF Monitor
      <4> DEFINE n == control[c].completed + 1
      <4>2. control' = [control EXCEPT ![c].completed = n, ![c].phase = "ready"]
        BY <3>1
      <4>3. n \in Nat /\ "ready" \in Phases  BY <4>1
      <4> HIDE DEF n
      <4> QED  BY <4>2, <4>3, <1>b, MonitorPhase, Zenon
    <3>2. CASE Library!Finish(c, "failed")
      BY <3>2, <1>b, MonitorFinished
    <3> QED  BY <1>17, <3>1, <3>2 DEF Library!Complete
  <2>3. engine' \in [Library!Contexts -> EngineState]
    BY <1>17, <1>c DEF EngineState, Library!Complete, Library!Finish
  <2>4. client' \in [Threads -> Caller]
    BY <1>17, <1>a, <1>d, <1>f, <1>g, WokenTyped, <1>e DEF Caller, Library!Complete, Library!Finish
  <2>5. ran' \in [Library!Contexts -> Nat] /\ accepted' \in [Library!Contexts -> Nat]
    BY <1>17, <1>e DEF Library!Complete, Library!Finish
  <2>6. \A u \in Threads : client'[u].call \in {"look", "asleep", "join"} =>
           client'[u].ctx \in Library!Contexts
    BY <1>17, <1>d, <1>g DEF Caller, Library!Woken, Library!Complete, Library!Finish
  <2> QED BY <2>1, <2>2, <2>3, <2>4, <2>5, <2>6 DEF ControlTypes
<1> QED
  BY <1>1, <1>2, <1>3, <1>4, <1>5, <1>6, <1>7, <1>8, <1>9, <1>10, <1>11, <1>12, <1>13,
     <1>14, <1>15, <1>16, <1>17 DEF Library!Next, Library!Call, Library!Engine

\* Every step keeps the monitor in step with its engine: a job is accepted, taken,
\* run and completed in this order, one at a time (engine_control.hpp:33-49,
\* beam_native.cpp:99-135).
LEMMA JobInvKept ==
    ASSUME Library!ControlAssumption, ControlTypes, JobInv, Library!Next
    PROVE  JobInv'
<1> USE DEF Library!Contexts, Library!NoJob, Library!ControlAssumption
<1>a. control \in [Library!Contexts -> Monitor]  BY DEF ControlTypes
<1>b. engine \in [Library!Contexts -> EngineState]  BY DEF ControlTypes
<1>c. ran \in [Library!Contexts -> Nat] /\ accepted \in [Library!Contexts -> Nat]
  BY DEF ControlTypes
<1>d. \A c \in Library!Contexts : InStep(c) /\ Counted(c)  BY DEF JobInv
<1> SUFFICES ASSUME NEW d \in Library!Contexts  PROVE InStep(d)' /\ Counted(d)'
  BY DEF JobInv
<1> USE DEF InStep, Counted, Monitor, EngineState, Phases
<1>1. ASSUME NEW t \in Threads, Library!Create(t)
     PROVE  InStep(d)' /\ Counted(d)'
  BY <1>1, <1>a, <1>b, <1>c, <1>d DEF Library!Create
<1>2. ASSUME NEW t \in Threads, Library!Main(t)
     PROVE  InStep(d)' /\ Counted(d)'
  BY <1>2, <1>a, <1>b, <1>c, <1>d DEF Library!Main
<1>3. ASSUME NEW t \in Threads, Library!TimeOut(t)
     PROVE  InStep(d)' /\ Counted(d)'
  BY <1>3, <1>a, <1>b, <1>c, <1>d DEF Library!TimeOut
<1>4. ASSUME NEW t \in Threads, Library!Look(t)
     PROVE  InStep(d)' /\ Counted(d)'
  BY <1>4, <1>a, <1>b, <1>c, <1>d DEF Library!Look
<1>5. ASSUME NEW t \in Threads, Library!Join(t)
     PROVE  InStep(d)' /\ Counted(d)'
  BY <1>5, <1>a, <1>b, <1>c, <1>d DEF Library!Join
<1>6. ASSUME NEW t \in Threads, NEW c \in Library!Contexts, Library!Prepare(t, c)
     PROVE  InStep(d)' /\ Counted(d)'
  <2>1. CASE control' = [control EXCEPT ![c].phase = "preparing"]
           /\ engine' = [engine EXCEPT ![c].pc = "prepare"]
    BY <1>6, <2>1, <1>a, <1>b, <1>c, <1>d DEF Library!Prepare
  <2> DEFINE r == IF control[c].stop THEN "cancelled" ELSE "failed"
             p == IF control[c].stop THEN "stopped" ELSE "error"
  <2>2. CASE control' = [control EXCEPT ![c] = [@ EXCEPT !.result = r, !.phase = p]]
             /\ UNCHANGED engine
    <3>1. r # "ok" /\ p \in {"stopped", "error"}  OBVIOUS
    <3>2. control[c].phase = "created" /\ UNCHANGED <<ran, accepted>>
      BY <1>6 DEF Library!Prepare
    <3> HIDE DEF r, p
    <3> QED  BY <2>2, <3>1, <3>2, <1>a, <1>b, <1>c, <1>d
  <2> QED  BY <1>6, <2>1, <2>2, Zenon DEF Library!Prepare
<1>7. ASSUME NEW t \in Threads, NEW c \in Library!Contexts, Library!Submit(t, c)
     PROVE  InStep(d)' /\ Counted(d)'
  BY <1>7, <1>a, <1>b, <1>c, <1>d DEF Library!Submit, Library!Submitted, Library!WokenEngine
<1>8. ASSUME NEW t \in Threads, NEW c \in Library!Contexts, Library!Wait(t, c)
     PROVE  InStep(d)' /\ Counted(d)'
  BY <1>8, <1>a, <1>b, <1>c, <1>d DEF Library!Wait
<1>9. ASSUME NEW t \in Threads, NEW c \in Library!Contexts, Library!Cancel(t, c)
     PROVE  InStep(d)' /\ Counted(d)'
  BY <1>9, <1>a, <1>b, <1>c, <1>d, SMTT(30)
    DEF Library!Cancel, Library!WokenEngine, Library!EngineAfterCancel
<1>10. ASSUME NEW t \in Threads, NEW c \in Library!Contexts, Library!Destroy(t, c)
     PROVE  InStep(d)' /\ Counted(d)'
  BY <1>10, <1>a, <1>b, <1>c, <1>d, SMTT(30) DEF Library!Destroy, Library!WokenEngine
<1>11. ASSUME NEW c \in Library!Contexts, Library!Prepared(c)
     PROVE  InStep(d)' /\ Counted(d)'
  BY <1>11, <1>a, <1>b, <1>c, <1>d DEF Library!Prepared
<1>12. ASSUME NEW c \in Library!Contexts, Library!Throws(c)
     PROVE  InStep(d)' /\ Counted(d)'
  BY <1>12, <1>a, <1>b, <1>c, <1>d DEF Library!Throws, Library!Finish
<1>13. ASSUME NEW c \in Library!Contexts, Library!Cancelled(c)
     PROVE  InStep(d)' /\ Counted(d)'
  BY <1>13, <1>a, <1>b, <1>c, <1>d DEF Library!Cancelled, Library!Finish
<1>14. ASSUME NEW c \in Library!Contexts, Library!NextJob(c)
     PROVE  InStep(d)' /\ Counted(d)'
  <2> DEFINE p == IF control[c].phase = "preparing" THEN "ready" ELSE control[c].phase
  <2>0. engine[c].pc = "next" /\ UNCHANGED <<ran, accepted>>  BY <1>14 DEF Library!NextJob
  <2>1. (control[c].phase = "preparing" => p = "ready")
        /\ (control[c].phase # "preparing" => p = control[c].phase)
    OBVIOUS
  <2>2. CASE control[c].stop /\ control' = [control EXCEPT ![c].phase = p]
             /\ engine' = [engine EXCEPT ![c].pc = "leave"]
    <3> HIDE DEF p
    <3> QED  BY <2>0, <2>1, <2>2, <1>a, <1>b, <1>c, <1>d
  <2>3. CASE control[c].pending # MaxJobs
             /\ control' = [control EXCEPT ![c] = [@ EXCEPT !.phase = p, !.pending = MaxJobs]]
             /\ engine' = [engine EXCEPT ![c] = [pc |-> "job", job |-> control[c].pending]]
    <3> HIDE DEF p
    <3> QED  BY <2>0, <2>1, <2>3, <1>a, <1>b, <1>c, <1>d, SMTT(30)
  <2>4. CASE control[c].pending = MaxJobs /\ control' = [control EXCEPT ![c].phase = p]
             /\ engine' = [engine EXCEPT ![c].pc = "asleep"]
    <3> HIDE DEF p
    <3> QED  BY <2>0, <2>1, <2>4, <1>a, <1>b, <1>c, <1>d, SMTT(30)
  <2> QED  BY <1>14, <2>2, <2>3, <2>4, Zenon DEF Library!NextJob
<1>15. ASSUME NEW c \in Library!Contexts, Library!Leave(c)
     PROVE  InStep(d)' /\ Counted(d)'
  BY <1>15, <1>a, <1>b, <1>c, <1>d DEF Library!Leave, Library!Finish
<1>16. ASSUME NEW c \in Library!Contexts, Library!RunJob(c)
     PROVE  InStep(d)' /\ Counted(d)'
  BY <1>16, <1>a, <1>b, <1>c, <1>d, SMTT(30) DEF Library!RunJob
<1>17. ASSUME NEW c \in Library!Contexts, Library!Complete(c)
     PROVE  InStep(d)' /\ Counted(d)'
  <2>1. engine[c].pc = "complete"  BY <1>17 DEF Library!Complete
  <2>2. engine[c].job = control[c].completed /\ control[c].phase = "running"
    BY <2>1, <1>a, <1>d
  <2>3. /\ control' = [control EXCEPT ![c].completed = @ + 1, ![c].phase = "ready"]
        /\ engine' = [engine EXCEPT ![c] = [pc |-> "next", job |-> MaxJobs]]
        /\ UNCHANGED <<ran, accepted>>
    BY <1>17, <2>2 DEF Library!Complete
  <2>4. CASE d = c
    <3>1. control'[c].completed = control[c].completed + 1 /\ control'[c].phase = "ready"
          /\ control'[c].pending = control[c].pending
      BY <2>3, <1>a
    <3>2. engine'[c].pc = "next"  BY <2>3, <1>b
    <3> QED  BY <2>1, <2>2, <2>3, <2>4, <3>1, <3>2, <1>a, <1>c, <1>d
  <2>5. CASE d # c
    <3>1. control'[d] = control[d] /\ engine'[d] = engine[d]  BY <2>3, <2>5, <1>a, <1>b
    <3> QED  BY <2>3, <3>1, <1>d, ZenonT(40)
  <2> QED  BY <2>4, <2>5
<1> QED
  BY <1>1, <1>2, <1>3, <1>4, <1>5, <1>6, <1>7, <1>8, <1>9, <1>10, <1>11, <1>12, <1>13,
     <1>14, <1>15, <1>16, <1>17 DEF Library!Next, Library!Call, Library!Engine

\* A wait answered BEAM_OK finds every accepted job run.
LEMMA OkOutlasts ==
    ASSUME Library!ControlAssumption, ControlTypes, JobInv, NEW c \in Library!Contexts,
           Library!Answerable(c), Library!Answer(c) = "ok"
    PROVE  ran[c] = accepted[c]
BY DEF ControlTypes, JobInv, InStep, Counted, Monitor, EngineState, Phases, Library!Answerable,
       Library!Answer

\* Every step keeps what the waits were promised.
LEMMA WaitInvKept ==
    ASSUME Library!ControlAssumption, ControlTypes, JobInv, WaitInv, Library!Next
    PROVE  WaitInv'
<1> USE DEF Library!NoJob
<1>a. client \in [Threads -> Caller]  BY DEF ControlTypes
<1>b. ran \in [Library!Contexts -> Nat] /\ accepted \in [Library!Contexts -> Nat]
  BY DEF ControlTypes
<1>c. \A t \in Threads : client[t].call \in {"look", "asleep", "join"} =>
          client[t].ctx \in Library!Contexts
  BY DEF ControlTypes
<1> USE DEF WaitInv, Caller
<1>1. ASSUME NEW t \in Threads, Library!Create(t)  PROVE  WaitInv'
  BY <1>1, <1>a, <1>b, <1>c DEF Library!Create, Library!Idle, Library!Free
<1>2. ASSUME NEW t \in Threads, Library!Main(t)  PROVE  WaitInv'
  BY <1>2, <1>a, <1>b, <1>c, ZenonT(40) DEF Library!Main, Library!Idle, Library!Free, Library!Returns
<1>3. ASSUME NEW t \in Threads, Library!TimeOut(t)  PROVE  WaitInv'
  BY <1>3, <1>a, <1>b, <1>c, OkOutlasts DEF Library!TimeOut, Library!Returns
<1>4. ASSUME NEW t \in Threads, Library!Look(t)  PROVE  WaitInv'
  <2>1. client[t].ctx \in Library!Contexts /\ UNCHANGED <<ran, accepted>>
    BY <1>4, <1>c DEF Library!Look
  <2>2. client[t].before <= accepted[client[t].ctx]  BY <1>4 DEF Library!Look
  <2>3. CASE Library!Answerable(client[t].ctx) /\ Library!Returns(t, Library!Answer(client[t].ctx))
    BY <2>1, <2>2, <2>3, <1>a, <1>b, OkOutlasts DEF Library!Returns
  <2>4. CASE client' = [client EXCEPT ![t].call = "asleep"]
    BY <2>1, <2>2, <2>4, <1>a
  <2> QED  BY <1>4, <2>3, <2>4 DEF Library!Look
<1>5. ASSUME NEW t \in Threads, Library!Join(t)  PROVE  WaitInv'
  BY <1>5, <1>a, <1>b, <1>c DEF Library!Join, Library!Returns
<1>6. ASSUME NEW t \in Threads, NEW c \in Library!Contexts, Library!Prepare(t, c)  PROVE  WaitInv'
  BY <1>6, <1>a, <1>b, <1>c DEF Library!Prepare
<1>7. ASSUME NEW t \in Threads, NEW c \in Library!Contexts, Library!Submit(t, c)  PROVE  WaitInv'
  BY <1>7, <1>a, <1>b, <1>c DEF Library!Submit, Library!Woken
<1>8. ASSUME NEW t \in Threads, NEW c \in Library!Contexts, Library!Wait(t, c)  PROVE  WaitInv'
  BY <1>8, <1>a, <1>b, <1>c DEF Library!Wait, Library!Idle
<1>9. ASSUME NEW t \in Threads, NEW c \in Library!Contexts, Library!Cancel(t, c)  PROVE  WaitInv'
  BY <1>9, <1>a, <1>b, <1>c DEF Library!Cancel, Library!Woken
<1>10. ASSUME NEW t \in Threads, NEW c \in Library!Contexts, Library!Destroy(t, c)  PROVE  WaitInv'
  BY <1>10, <1>a, <1>b, <1>c DEF Library!Destroy, Library!Idle, Library!Free
<1>11. ASSUME NEW c \in Library!Contexts, Library!Prepared(c)  PROVE  WaitInv'
  BY <1>11, <1>a, <1>b, <1>c DEF Library!Prepared
<1>12. ASSUME NEW c \in Library!Contexts, Library!Throws(c)  PROVE  WaitInv'
  BY <1>12, <1>a, <1>b, <1>c DEF Library!Throws, Library!Finish, Library!Woken
<1>13. ASSUME NEW c \in Library!Contexts, Library!Cancelled(c)  PROVE  WaitInv'
  BY <1>13, <1>a, <1>b, <1>c DEF Library!Cancelled, Library!Finish, Library!Woken
<1>14. ASSUME NEW c \in Library!Contexts, Library!NextJob(c)  PROVE  WaitInv'
  BY <1>14, <1>a, <1>b, <1>c DEF Library!NextJob, Library!Woken
<1>15. ASSUME NEW c \in Library!Contexts, Library!Leave(c)  PROVE  WaitInv'
  BY <1>15, <1>a, <1>b, <1>c DEF Library!Leave, Library!Finish, Library!Woken
<1>16. ASSUME NEW c \in Library!Contexts, Library!RunJob(c)  PROVE  WaitInv'
  BY <1>16, <1>a, <1>b, <1>c DEF Library!RunJob
<1>17. ASSUME NEW c \in Library!Contexts, Library!Complete(c)  PROVE  WaitInv'
  BY <1>17, <1>a, <1>b, <1>c DEF Library!Complete, Library!Finish, Library!Woken
<1> QED
  BY <1>1, <1>2, <1>3, <1>4, <1>5, <1>6, <1>7, <1>8, <1>9, <1>10, <1>11, <1>12, <1>13,
     <1>14, <1>15, <1>16, <1>17 DEF Library!Next, Library!Call, Library!Engine

\* A step that touches neither a context nor the gate keeps one engine at most.
LEMMA OneInvUntouched ==
    ASSUME OneInv, UNCHANGED <<occupied, contexts>>, Library!ControlAssumption,
           contexts \in 0..MaxContexts,
           \A c \in Library!Contexts : control'[c].there <=> control[c].there,
           \A c \in Library!Running' : c \in Library!Running \/ control[c].there,
           \A t \in Threads : \A what \in {"join", "main"} :
              (client'[t].call = what <=> client[t].call = what)
              /\ (client[t].call = what => client'[t].ctx = client[t].ctx)
    PROVE  OneInv'
<1>1. \A c \in Library!Running' : c \in Library!Contexts  BY DEF Library!Running
<1>2. \A c \in Library!Contexts : control'[c].there => c = contexts' /\ occupied'
  BY DEF OneInv
<1>3. ASSUME NEW c \in Library!Running'
      PROVE  c = contexts' /\ occupied' /\ (control'[c].there
                \/ \E t \in Threads : client'[t].call = "join" /\ client'[t].ctx = c)
  BY <1>1, <1>3 DEF OneInv
<1>4. \A t \in Threads : client'[t].call = "join" =>
          client'[t].ctx = contexts' /\ contexts' # 0 /\ occupied'
  BY DEF OneInv
<1>5. \A t \in Threads : client'[t].call = "join" => ~control'[contexts'].there
  BY DEF OneInv, Library!Contexts, Library!ControlAssumption
<1>6. \A t \in Threads : client'[t].call = "main" =>
          /\ occupied' /\ \A c \in Library!Contexts : ~control'[c].there
          /\ \A u \in Threads : u # t => ~(client'[u].call \in {"join", "main"})
  BY DEF OneInv
<1>7. \A t, u \in Threads : client'[t].call = "join" /\ client'[u].call = "join" => t = u
  BY DEF OneInv
<1> QED  BY <1>2, <1>3, <1>4, <1>5, <1>6, <1>7 DEF OneInv

\* An engine that is over leaves the gate to the others.
LEMMA OneInvOver ==
    ASSUME Library!ControlAssumption, ControlTypes, OneInv, NEW c \in Library!Contexts,
           NEW code \in Results,
           c \in Library!Running, Library!Finish(c, code)
    PROVE  OneInv'
<1> DEFINE r == IF control[c].stop THEN "cancelled" ELSE code
           p == IF r = "failed" THEN "error" ELSE "stopped"
<1>a. client \in [Threads -> Caller] /\ contexts \in 0..MaxContexts  BY DEF ControlTypes
<1>b. control \in [Library!Contexts -> Monitor]  BY DEF ControlTypes
<1>c. engine \in [Library!Contexts -> EngineState]  BY DEF ControlTypes
<1>1. control' = [control EXCEPT ![c] = [@ EXCEPT !.result = r, !.phase = p]]
  BY Zenon DEF Library!Finish
<1> HIDE DEF r, p
<1>2. \A d \in Library!Contexts : control'[d].there <=> control[d].there
  <2>1. \A d \in Library!Contexts : d # c => control'[d] = control[d]  BY <1>1, <1>b
  <2>2. control'[c].there <=> control[c].there  BY <1>1, <1>b DEF Monitor
  <2> QED  BY <2>1, <2>2
<1>3. \A d \in Library!Contexts : d # c => engine'[d] = engine[d]  BY <1>c DEF Library!Finish
<1>4. client' = Library!Woken(c) /\ UNCHANGED <<occupied, contexts>>  BY DEF Library!Finish
<1>5. \A t \in Threads : \A what \in {"join", "main"} :
        (client'[t].call = what <=> client[t].call = what)
        /\ (client[t].call = what => client'[t].ctx = client[t].ctx)
  BY <1>4, <1>a DEF Library!Woken, Caller
<1>6. \A d \in Library!Running' : d \in Library!Running  BY <1>3 DEF Library!Running
<1> QED  BY <1>2, <1>4, <1>5, <1>6, <1>a, OneInvUntouched

\* Every step keeps one engine at most (beam_native.cpp:56-63, 167-192).
LEMMA OneInvKept ==
    ASSUME Library!ControlAssumption, ControlTypes, JobInv, OneInv, Library!Next
    PROVE  OneInv'
<1> USE DEF Library!NoJob, Library!Contexts, Library!ControlAssumption
<1>a. client \in [Threads -> Caller]  BY DEF ControlTypes
<1>b. control \in [Library!Contexts -> Monitor]  BY DEF ControlTypes
<1>c. engine \in [Library!Contexts -> EngineState]  BY DEF ControlTypes
<1>d. contexts \in 0..MaxContexts  BY DEF ControlTypes
<1> USE DEF OneInv, Caller, Monitor, EngineState, Library!Running
<1>1. ASSUME NEW t \in Threads, Library!Create(t)  PROVE  OneInv'
  BY <1>1, <1>a, <1>b, <1>c, <1>d DEF Library!Create, Library!Idle, Library!Free
<1>2. ASSUME NEW t \in Threads, Library!Main(t)  PROVE  OneInv'
  <2>1. UNCHANGED <<contexts, control, engine>>  BY <1>2 DEF Library!Main
  <2>2. CASE client[t].call = "none" /\ ~occupied /\ occupied'
             /\ client' = [client EXCEPT ![t] = [Library!Free EXCEPT !.call = "main"]]
    <3>1. client'[t].call = "main"  BY <2>2, <1>a DEF Library!Free
    <3>2. \A u \in Threads : u # t => client'[u] = client[u]  BY <2>2, <1>a
    <3>3. \A c \in Library!Contexts : ~control[c].there /\ c \notin Library!Running
      BY <2>2
    <3>4. \A u \in Threads : ~(client[u].call \in {"join", "main"})  BY <2>2
    <3>5. Library!Running' = {}  BY <2>1, <3>3
    <3> HIDE DEF Library!Running
    <3> QED  BY <2>1, <2>2, <3>1, <3>2, <3>3, <3>4, <3>5
  <2>3. CASE client[t].call = "main" /\ ~occupied' /\ Library!Returns(t, "nothing")
    <3>1. client'[t].call = "none"  BY <2>3, <1>a DEF Library!Returns
    <3>2. \A u \in Threads : u # t => client'[u] = client[u]
      BY <2>3, <1>a DEF Library!Returns
    <3>3. \A c \in Library!Contexts : ~control[c].there  BY <2>3
    <3>4. \A u \in Threads : u # t => ~(client[u].call \in {"join", "main"})  BY <2>3
    <3>5. Library!Running = {}  BY <2>3, <3>3, <3>4
    <3>6. Library!Running' = {}  BY <2>1, <3>5
    <3> HIDE DEF Library!Running
    <3> QED  BY <2>1, <3>1, <3>2, <3>3, <3>4, <3>6
  <2> QED  BY <1>2, <2>2, <2>3 DEF Library!Main, Library!Idle
<1>3. ASSUME NEW t \in Threads, Library!TimeOut(t)  PROVE  OneInv'
  BY <1>3, <1>a, <1>b, <1>c, <1>d DEF Library!TimeOut, Library!Returns
<1>4. ASSUME NEW t \in Threads, Library!Look(t)  PROVE  OneInv'
  <2>1. client[t].call = "look" /\ UNCHANGED <<occupied, contexts, control, engine>>
    BY <1>4 DEF Library!Look
  <2>2. client'[t].call \in {"none", "asleep"}
    <3>1. \/ Library!Returns(t, Library!Answer(client[t].ctx))
          \/ client' = [client EXCEPT ![t].call = "asleep"]
      BY <1>4 DEF Library!Look
    <3>2. CASE Library!Returns(t, Library!Answer(client[t].ctx))
      BY <3>2, <1>a DEF Library!Returns
    <3>3. CASE client' = [client EXCEPT ![t].call = "asleep"]
      BY <3>3, <1>a
    <3> QED  BY <3>1, <3>2, <3>3
  <2>3. \A u \in Threads : u # t => client'[u] = client[u]
    BY <1>4, <1>a DEF Library!Look, Library!Returns
  <2>4. \A u \in Threads : \A what \in {"join", "main"} :
          (client'[u].call = what <=> client[u].call = what)
          /\ (client[u].call = what => client'[u].ctx = client[u].ctx)
    BY <2>1, <2>2, <2>3
  <2>5. Library!Running' = Library!Running  BY <2>1
  <2> QED  BY <2>1, <2>4, <2>5, <1>d, OneInvUntouched
<1>5. ASSUME NEW t \in Threads, Library!Join(t)  PROVE  OneInv'
  BY <1>5, <1>a, <1>b, <1>c, <1>d DEF Library!Join, Library!Returns, Library!Joined
<1>6. ASSUME NEW t \in Threads, NEW c \in Library!Contexts, Library!Prepare(t, c)  PROVE  OneInv'
  <2>1. control[c].there /\ UNCHANGED <<occupied, contexts, client>>
    BY <1>6 DEF Library!Prepare
  <2>2. \A d \in Library!Contexts : control'[d].there <=> control[d].there
    <3> DEFINE r == IF control[c].stop THEN "cancelled" ELSE "failed"
               p == IF control[c].stop THEN "stopped" ELSE "error"
    <3>1. \/ control' = [control EXCEPT ![c].phase = "preparing"]
          \/ control' = [control EXCEPT ![c] = [@ EXCEPT !.result = r, !.phase = p]]
      BY <1>6, Zenon DEF Library!Prepare
    <3> HIDE DEF r, p
    <3>2. CASE control' = [control EXCEPT ![c].phase = "preparing"]  BY <3>2, <1>b
    <3>3. CASE control' = [control EXCEPT ![c] = [@ EXCEPT !.result = r, !.phase = p]]
      <4>1. \A d \in Library!Contexts : d # c => control'[d] = control[d]  BY <3>3, <1>b
      <4>2. control'[c].there <=> control[c].there  BY <3>3, <1>b
      <4> QED  BY <4>1, <4>2
    <3> QED  BY <3>1, <3>2, <3>3
  <2>3. \A d \in Library!Contexts : d # c => engine'[d] = engine[d]
    BY <1>6, <1>c DEF Library!Prepare
  <2>4. \A d \in Library!Running' : d \in Library!Running \/ control[d].there
    BY <2>1, <2>3
  <2>5. \A u \in Threads : \A what \in {"join", "main"} :
          (client'[u].call = what <=> client[u].call = what)
          /\ (client[u].call = what => client'[u].ctx = client[u].ctx)
    BY <2>1
  <2> QED  BY <2>1, <2>2, <2>4, <2>5, <1>d, OneInvUntouched
<1>7. ASSUME NEW t \in Threads, NEW c \in Library!Contexts, Library!Submit(t, c)  PROVE  OneInv'
  BY <1>7, <1>a, <1>b, <1>c, <1>d, SMTT(30) DEF Library!Submit, Library!Woken, Library!WokenEngine
<1>8. ASSUME NEW t \in Threads, NEW c \in Library!Contexts, Library!Wait(t, c)  PROVE  OneInv'
  BY <1>8, <1>a, <1>b, <1>c, <1>d DEF Library!Wait, Library!Idle
<1>9. ASSUME NEW t \in Threads, NEW c \in Library!Contexts, Library!Cancel(t, c)  PROVE  OneInv'
  BY <1>9, <1>a, <1>b, <1>c, <1>d, SMTT(30)
    DEF Library!Cancel, Library!Woken, Library!WokenEngine, Library!EngineAfterCancel
<1>10. ASSUME NEW t \in Threads, NEW c \in Library!Contexts, Library!Destroy(t, c)  PROVE  OneInv'
  BY <1>10, <1>a, <1>b, <1>c, <1>d DEF Library!Destroy, Library!Idle, Library!Free, Library!WokenEngine
<1>11. ASSUME NEW c \in Library!Contexts, Library!Prepared(c)  PROVE  OneInv'
  BY <1>11, <1>a, <1>b, <1>c, <1>d DEF Library!Prepared
<1>12. ASSUME NEW c \in Library!Contexts, Library!Throws(c)  PROVE  OneInv'
  <2>1. c \in Library!Running /\ Library!Finish(c, "failed")  BY <1>12 DEF Library!Throws
  <2> QED  BY <2>1, OneInvOver DEF Results
<1>13. ASSUME NEW c \in Library!Contexts, Library!Cancelled(c)  PROVE  OneInv'
  <2>1. c \in Library!Running /\ Library!Finish(c, "cancelled")  BY <1>13 DEF Library!Cancelled
  <2> QED  BY <2>1, OneInvOver DEF Results
<1>14. ASSUME NEW c \in Library!Contexts, Library!NextJob(c)  PROVE  OneInv'
  <2>1. engine[c].pc = "next"  BY <1>14 DEF Library!NextJob
  <2>2. \A d \in Library!Contexts : control'[d].there <=> control[d].there
    <3> DEFINE p == IF control[c].phase = "preparing" THEN "ready" ELSE control[c].phase
    <3>1. \/ control' = [control EXCEPT ![c].phase = p]
          \/ control' = [control EXCEPT ![c] = [@ EXCEPT !.phase = p, !.pending = MaxJobs]]
      BY <1>14, Zenon DEF Library!NextJob
    <3> HIDE DEF p
    <3>2. CASE control' = [control EXCEPT ![c].phase = p]  BY <3>2, <1>b
    <3>3. CASE control' = [control EXCEPT ![c] = [@ EXCEPT !.phase = p, !.pending = MaxJobs]]
      <4>1. \A d \in Library!Contexts : d # c => control'[d] = control[d]  BY <3>3, <1>b
      <4>2. control'[c].there <=> control[c].there  BY <3>3, <1>b
      <4> QED  BY <4>1, <4>2
    <3> QED  BY <3>1, <3>2, <3>3
  <2>3. \A d \in Library!Contexts : d # c => engine'[d] = engine[d]
    BY <1>14, <1>c DEF Library!NextJob
  <2>4. client' \in {client, Library!Woken(c)} /\ UNCHANGED <<occupied, contexts>>
    BY <1>14 DEF Library!NextJob
  <2>5. \A t \in Threads : \A what \in {"join", "main"} :
          (client'[t].call = what <=> client[t].call = what)
          /\ (client[t].call = what => client'[t].ctx = client[t].ctx)
    BY <2>4, <1>a DEF Library!Woken
  <2>6. \A d \in Library!Running' : d \in Library!Running  BY <2>1, <2>3
  <2> QED  BY <2>2, <2>4, <2>5, <2>6, <1>d, OneInvUntouched
<1>15. ASSUME NEW c \in Library!Contexts, Library!Leave(c)  PROVE  OneInv'
  BY <1>15, <1>a, <1>b, <1>c, <1>d, SMTT(30) DEF Library!Leave, Library!Finish, Library!Woken
<1>16. ASSUME NEW c \in Library!Contexts, Library!RunJob(c)  PROVE  OneInv'
  BY <1>16, <1>a, <1>b, <1>c, <1>d DEF Library!RunJob
<1>17. ASSUME NEW c \in Library!Contexts, Library!Complete(c)  PROVE  OneInv'
  <2>1. engine[c].pc = "complete"  BY <1>17 DEF Library!Complete
  <2>2. \A d \in Library!Contexts : control'[d].there <=> control[d].there
    <3>1. CASE control' = [control EXCEPT ![c].completed = @ + 1, ![c].phase = "ready"]
      BY <3>1, <1>b
    <3>2. CASE Library!Finish(c, "failed")
      BY <3>2, <1>b DEF Library!Finish
    <3> QED  BY <1>17, <3>1, <3>2 DEF Library!Complete
  <2>3. \A d \in Library!Contexts : d # c => engine'[d] = engine[d]
    BY <1>17, <1>c DEF Library!Complete, Library!Finish
  <2>4. client' = Library!Woken(c) /\ UNCHANGED <<occupied, contexts>>
    BY <1>17 DEF Library!Complete, Library!Finish
  <2>5. \A t \in Threads : \A what \in {"join", "main"} :
          (client'[t].call = what <=> client[t].call = what)
          /\ (client[t].call = what => client'[t].ctx = client[t].ctx)
    BY <2>4, <1>a DEF Library!Woken
  <2>6. \A d \in Library!Running' : d \in Library!Running  BY <2>1, <2>3
  <2> QED  BY <2>2, <2>4, <2>5, <2>6, <1>d, OneInvUntouched
<1> QED
  BY <1>1, <1>2, <1>3, <1>4, <1>5, <1>6, <1>7, <1>8, <1>9, <1>10, <1>11, <1>12, <1>13,
     <1>14, <1>15, <1>16, <1>17 DEF Library!Next, Library!Call, Library!Engine

\* No call is under way at the start.
LEMMA FreeCalls ==
    ASSUME client = [t \in Threads |-> Library!Free]
    PROVE  \A t \in Threads : ~(client[t].call \in {"look", "asleep", "join"})
<1>1. Library!Free.call = "none"  BY DEF Library!Free
<1>2. ASSUME NEW t \in Threads  PROVE client[t].call = "none"  BY <1>1
<1> QED  BY <1>2

\* The first state, and a stutter.
LEMMA ControlStart ==
    ASSUME Library!ControlAssumption, Library!Init
    PROVE  ControlTypes /\ JobInv /\ WaitInv /\ OneInv
<1> USE DEF Library!Init, Library!ControlAssumption, Library!NoJob, Library!Contexts
<1>1. ControlTypes
  <2> DEFINE first == [there |-> FALSE, phase |-> "created", result |-> "ok",
                       completed |-> 0, pending |-> MaxJobs, stop |-> FALSE]
  <2>1. first \in Monitor  BY DEF Monitor, Phases, Results
  <2>2. control \in [Library!Contexts -> Monitor]  BY <2>1
  <2>3. Library!Free \in Caller  BY DEF Library!Free, Caller
  <2>4. client \in [Threads -> Caller]  BY <2>3
  <2>5. engine \in [Library!Contexts -> EngineState]  BY DEF EngineState, EngineSteps
  <2>6. \A t \in Threads : ~(client[t].call \in {"look", "asleep", "join"})
    BY FreeCalls
  <2>7. occupied \in BOOLEAN  BY Zenon
  <2>8. contexts \in 0..MaxContexts  OBVIOUS
  <2>9. ran \in [Library!Contexts -> Nat] /\ accepted \in [Library!Contexts -> Nat]  OBVIOUS
  <2> QED  BY <2>2, <2>4, <2>5, <2>6, <2>7, <2>8, <2>9, Zenon DEF ControlTypes
<1>2. JobInv  BY DEF JobInv, InStep, Counted
<1>3. WaitInv  BY DEF WaitInv, Library!Free
<1>4. OneInv  BY DEF OneInv, Library!Free, Library!Running
<1> QED  BY <1>1, <1>2, <1>3, <1>4

LEMMA ControlStutters ==
    ASSUME ControlTypes, JobInv, WaitInv, OneInv, UNCHANGED Library!controlVars
    PROVE  ControlTypes' /\ JobInv' /\ WaitInv' /\ OneInv'
<1> USE DEF Library!controlVars
<1>1. ControlTypes'  BY DEF ControlTypes
<1>2. JobInv'  BY DEF JobInv, InStep, Counted
<1>3. WaitInv'  BY DEF WaitInv
<1>4. OneInv'  BY DEF OneInv, Library!Running
<1> QED  BY <1>1, <1>2, <1>3, <1>4

\* What the invariant says of the engines there are.
LEMMA AtMostOne ==
    ASSUME NEW S, NEW x, S \subseteq {x}
    PROVE  Library!Cardinality(S) \in {0, 1} /\ (S = {} => Library!Cardinality(S) = 0)
<1>1. Library!Cardinality(S) = Cardinality(S)
  BY Zenon DEF Library!Cardinality, Cardinality
<1>2. S = {} \/ S = {x}  OBVIOUS
<1> QED  BY <1>1, <1>2, FS_EmptySet, FS_Singleton

LEMMA OneEngineFits == ASSUME OneInv PROVE Library!OneEngine
<1>1. Library!Cardinality(Library!Running) + Library!Cardinality(Library!InMain) <= 1
  <2>1. Library!Running \subseteq {contexts}  BY DEF OneInv
  <2>2. CASE Library!InMain = {}
    BY <2>1, <2>2, AtMostOne
  <2>3. CASE Library!InMain # {}
    <3>1. PICK t \in Threads : client[t].call = "main"  BY <2>3 DEF Library!InMain
    <3>2. Library!InMain \subseteq {t}  BY <3>1 DEF OneInv, Library!InMain
    <3>3. Library!Running = {}  BY <3>1 DEF OneInv, Library!Running
    <3> QED  BY <3>2, <3>3, AtMostOne
  <2> QED  BY <2>2, <2>3
<1>2. \A c \in Library!Running : control[c].there \/ \E t \in Threads :
         client[t].call = "join" /\ client[t].ctx = c
  BY DEF OneInv
<1> QED  BY <1>1, <1>2 DEF Library!OneEngine

ControlInv == ControlTypes /\ JobInv /\ WaitInv /\ OneInv

\* The jobs of a context are run one by one in the order they were accepted, and a
\* wait that returned BEAM_OK has outlasted every job accepted before it was called
\* (engine_control.hpp:33-49, beam_native.cpp:99-135).  One engine, created or run by
\* main, is in the process at a time, and an engine thread never outlives its context
\* unless a destroy is joining it (beam_native.cpp:56-63, 167-192).
THEOREM JobsAnswered == Spec => []JobsAsAnswered
<1> DEFINE Here == part = "library" => ControlInv
<1> USE LibraryAssumption
<1>1. Init => Here
  BY ControlStart DEF Init, ControlInv
<1>2. Here /\ [Next]_allVars => Here'
  <2> SUFFICES ASSUME Here, [Next]_allVars, part' = "library" PROVE ControlInv'
    OBVIOUS
  <2>1. ASSUME LibraryStep PROVE ControlInv'
    BY <2>1, ControlTypesKept, JobInvKept, WaitInvKept, OneInvKept DEF LibraryStep, ControlInv
  <2>2. ASSUME SingleStep \/ SharedStep PROVE FALSE
    BY <2>2 DEF SingleStep, SharedStep
  <2>3. CASE UNCHANGED allVars
    <3>1. UNCHANGED Library!controlVars /\ part = "library"
      BY <2>3 DEF allVars, libraryVars, Library!controlVars
    <3> QED
      BY <3>1, ControlStutters DEF ControlInv
  <2> QED
    BY <2>1, <2>2, <2>3 DEF Next
<1>3. Here => JobsAsAnswered
  <2> SUFFICES ASSUME ControlInv PROVE JobsAsAnswered
    BY DEF JobsAsAnswered
  <2>1. Library!JobsAsAnswered
    BY DEF ControlInv, JobInv, Counted, WaitInv, Library!JobsAsAnswered
  <2> QED
    BY <2>1, OneEngineFits DEF ControlInv, JobsAsAnswered
<1> QED
  BY <1>1, <1>2, <1>3, PTL DEF Spec

-----------------------------------------------------------------------------
(* The sessions.                                                            *)

OfSingle == INSTANCE NativeSessionProofs WITH
    Threads <- {Owner}, ReapMayFail <- FALSE, ParentMayDie <- TRUE
OfShared == INSTANCE NativeSessionProofs WITH
    Ranks <- Workers, ReapMayFail <- FALSE, ParentMayDie <- FALSE

\* What is proved of the instances is about the same definitions by another name.
LEMMA SingleIsProved ==
  /\ OfSingle!SessionAssumption
  /\ Single!Init => OfSingle!Init
  /\ Single!Next => OfSingle!Next
  /\ UNCHANGED Single!vars => UNCHANGED OfSingle!vars
<1>1. OfSingle!SessionAssumption
  BY SingleAssumption
    DEF Single!SessionAssumption, OfSingle!SessionAssumption, Single!None, OfSingle!None
<1>2. Single!Init => OfSingle!Init
  BY DEF Single!Init, OfSingle!Init, Single!Idle, OfSingle!Idle, Single!None,
      OfSingle!None, Single!Groups, OfSingle!Groups, Single!Runs, OfSingle!Runs
<1>3. Single!Next => OfSingle!Next
  BY DEF Single!None, OfSingle!None, Single!Groups, OfSingle!Groups, Single!Runs,
      OfSingle!Runs, Single!Idle, OfSingle!Idle, Single!Alive, OfSingle!Alive,
      Single!Receipts, OfSingle!Receipts, Single!At, OfSingle!At, Single!Goto,
      OfSingle!Goto, Single!Return, OfSingle!Return, Single!Raise, OfSingle!Raise,
      Single!Enter, OfSingle!Enter, Single!StartClose, OfSingle!StartClose,
      Single!Close, OfSingle!Close, Single!Exit, OfSingle!Exit, Single!Begin,
      OfSingle!Begin, Single!Acquire, OfSingle!Acquire, Single!MayReuse,
      OfSingle!MayReuse, Single!Compare, OfSingle!Compare, Single!SpawnGroup,
      OfSingle!SpawnGroup, Single!Execute, OfSingle!Execute, Single!Post, OfSingle!Post,
      Single!CloseInSubmit, OfSingle!CloseInSubmit, Single!Arrived, OfSingle!Arrived,
      Single!Overdue, OfSingle!Overdue, Single!Poll, OfSingle!Poll, Single!Interrupt,
      OfSingle!Interrupt, Single!Elapse, OfSingle!Elapse, Single!NextSequence,
      OfSingle!NextSequence, Single!Collect, OfSingle!Collect, Single!Accept,
      OfSingle!Accept, Single!Released, OfSingle!Released, Single!NothingToStop,
      OfSingle!NothingToStop, Single!Release, OfSingle!Release, Single!Survivors,
      OfSingle!Survivors, Single!Reap, OfSingle!Reap, Single!Told, OfSingle!Told,
      Single!TakeRequest, OfSingle!TakeRequest, Single!FinishSearch,
      OfSingle!FinishSearch, Single!WriteReceipt, OfSingle!WriteReceipt,
      Single!ObeyStop, OfSingle!ObeyStop, Single!WorkerDies, OfSingle!WorkerDies,
      Single!ParentDies, OfSingle!ParentDies, Single!ThreadStep, OfSingle!ThreadStep,
      Single!Next, OfSingle!Next
<1>4. UNCHANGED Single!vars => UNCHANGED OfSingle!vars
  BY DEF Single!vars, OfSingle!vars
<1> QED
  BY <1>1, <1>2, <1>3, <1>4

LEMMA SinglePromises ==
  /\ OfSingle!TypeOK => Single!TypeOK
  /\ OfSingle!AnswerBelongsToRequest => Single!AnswerBelongsToRequest
  /\ OfSingle!PostsAfresh => Single!PostsAfresh
  /\ OfSingle!NoStrayWorkers => Single!NoStrayWorkers
  /\ OfSingle!ClosedFreesWorkers => Single!ClosedFreesWorkers
BY DEF Single!TypeOK, OfSingle!TypeOK, Single!AnswerBelongsToRequest,
    OfSingle!AnswerBelongsToRequest, Single!PostsAfresh, OfSingle!PostsAfresh,
    Single!NoStrayWorkers, OfSingle!NoStrayWorkers, Single!ClosedFreesWorkers,
    OfSingle!ClosedFreesWorkers, Single!Steps, OfSingle!Steps, Single!Afters,
    OfSingle!Afters, Single!None, OfSingle!None, Single!Groups, OfSingle!Groups,
    Single!Runs, OfSingle!Runs, Single!Alive, OfSingle!Alive, Single!Receipts,
    OfSingle!Receipts

LEMMA SharedIsProved ==
  /\ OfShared!SessionAssumption
  /\ Shared!Init => OfShared!Init
  /\ Shared!Next => OfShared!Next
  /\ UNCHANGED Shared!vars => UNCHANGED OfShared!vars
<1>1. OfShared!SessionAssumption
  BY SharedAssumption
    DEF Shared!SessionAssumption, OfShared!SessionAssumption, Shared!None, OfShared!None
<1>2. Shared!Init => OfShared!Init
  BY DEF Shared!Init, OfShared!Init, Shared!Idle, OfShared!Idle, Shared!None,
      OfShared!None, Shared!Groups, OfShared!Groups, Shared!Runs, OfShared!Runs
<1>3. Shared!Next => OfShared!Next
  BY DEF Shared!None, OfShared!None, Shared!Groups, OfShared!Groups, Shared!Runs,
      OfShared!Runs, Shared!Idle, OfShared!Idle, Shared!Alive, OfShared!Alive,
      Shared!Receipts, OfShared!Receipts, Shared!At, OfShared!At, Shared!Goto,
      OfShared!Goto, Shared!Return, OfShared!Return, Shared!Raise, OfShared!Raise,
      Shared!Enter, OfShared!Enter, Shared!StartClose, OfShared!StartClose,
      Shared!Close, OfShared!Close, Shared!Exit, OfShared!Exit, Shared!Begin,
      OfShared!Begin, Shared!Acquire, OfShared!Acquire, Shared!MayReuse,
      OfShared!MayReuse, Shared!Compare, OfShared!Compare, Shared!SpawnGroup,
      OfShared!SpawnGroup, Shared!Execute, OfShared!Execute, Shared!Post, OfShared!Post,
      Shared!CloseInSubmit, OfShared!CloseInSubmit, Shared!Arrived, OfShared!Arrived,
      Shared!Overdue, OfShared!Overdue, Shared!Poll, OfShared!Poll, Shared!Interrupt,
      OfShared!Interrupt, Shared!Elapse, OfShared!Elapse, Shared!NextSequence,
      OfShared!NextSequence, Shared!Collect, OfShared!Collect, Shared!Accept,
      OfShared!Accept, Shared!Released, OfShared!Released, Shared!NothingToStop,
      OfShared!NothingToStop, Shared!Release, OfShared!Release, Shared!Survivors,
      OfShared!Survivors, Shared!Reap, OfShared!Reap, Shared!Told, OfShared!Told,
      Shared!TakeRequest, OfShared!TakeRequest, Shared!FinishSearch,
      OfShared!FinishSearch, Shared!WriteReceipt, OfShared!WriteReceipt,
      Shared!ObeyStop, OfShared!ObeyStop, Shared!WorkerDies, OfShared!WorkerDies,
      Shared!ParentDies, OfShared!ParentDies, Shared!ThreadStep, OfShared!ThreadStep,
      Shared!Next, OfShared!Next
<1>4. UNCHANGED Shared!vars => UNCHANGED OfShared!vars
  BY DEF Shared!vars, OfShared!vars
<1> QED
  BY <1>1, <1>2, <1>3, <1>4

LEMMA SharedPromises ==
  /\ OfShared!TypeOK => Shared!TypeOK
  /\ OfShared!AnswerBelongsToRequest => Shared!AnswerBelongsToRequest
  /\ OfShared!PostsAfresh => Shared!PostsAfresh
  /\ OfShared!NoStrayWorkers => Shared!NoStrayWorkers
BY DEF Shared!TypeOK, OfShared!TypeOK, Shared!AnswerBelongsToRequest,
    OfShared!AnswerBelongsToRequest, Shared!PostsAfresh, OfShared!PostsAfresh,
    Shared!NoStrayWorkers, OfShared!NoStrayWorkers, Shared!Steps, OfShared!Steps,
    Shared!Afters, OfShared!Afters, Shared!None, OfShared!None, Shared!Groups,
    OfShared!Groups, Shared!Runs, OfShared!Runs, Shared!Alive, OfShared!Alive,
    Shared!Receipts, OfShared!Receipts

\* Each session keeps its invariant; the one with a single user also has nobody in a
\* call once it is closed.
SingleInv ==
    OfSingle!Types /\ OfSingle!SessionInv /\ OfSingle!StrayInv /\ OfSingle!ClosedInv
SharedInv == OfShared!Types /\ OfShared!SessionInv /\ OfShared!StrayInv

SessionsInv == (part = "single" => SingleInv) /\ (part = "shared" => SharedInv)

LEMMA SessionsStart == Init => SessionsInv
<1>1. ASSUME Single!Init PROVE SingleInv
  <2>1. OfSingle!SessionAssumption /\ OfSingle!Init
    BY <1>1, SingleIsProved
  <2>2. OfSingle!Types  BY <2>1, OfSingle!StartTyped
  <2>3. OfSingle!SessionInv  BY <2>1, OfSingle!StartFits
  <2>4. OfSingle!StrayInv  BY <2>1, OfSingle!StrayStart
  <2>5. OfSingle!ClosedInv  BY <2>1, OfSingle!ClosedStart
  <2> QED  BY <2>2, <2>3, <2>4, <2>5 DEF SingleInv
<1>2. ASSUME Shared!Init PROVE SharedInv
  <2>1. OfShared!SessionAssumption /\ OfShared!Init
    BY <1>2, SharedIsProved
  <2>2. OfShared!Types  BY <2>1, OfShared!StartTyped
  <2>3. OfShared!SessionInv  BY <2>1, OfShared!StartFits
  <2>4. OfShared!StrayInv  BY <2>1, OfShared!StrayStart
  <2> QED  BY <2>2, <2>3, <2>4 DEF SharedInv
<1> QED
  BY <1>1, <1>2 DEF Init, SessionsInv

LEMMA SingleKeeps ==
  ASSUME SingleInv, Single!Next \/ UNCHANGED Single!vars PROVE SingleInv'
<1>1. OfSingle!SessionAssumption /\ [OfSingle!Next]_OfSingle!vars
  BY SingleIsProved
<1>2. OfSingle!Types /\ OfSingle!SessionInv /\ OfSingle!StrayInv /\ OfSingle!ClosedInv
  BY DEF SingleInv
<1>3. OfSingle!Types' /\ OfSingle!SessionInv'
  BY <1>1, <1>2, OfSingle!SessionInvKept
<1>4. OfSingle!StrayInv'
  BY <1>1, <1>2, OfSingle!StrayStep
<1>5. OfSingle!ClosedInv'
  BY <1>1, <1>2, OfSingle!ClosedInvKept
<1> QED
  BY <1>3, <1>4, <1>5 DEF SingleInv

LEMMA SharedKeeps ==
  ASSUME SharedInv, Shared!Next \/ UNCHANGED Shared!vars PROVE SharedInv'
<1>1. OfShared!SessionAssumption /\ [OfShared!Next]_OfShared!vars
  BY SharedIsProved
<1>2. OfShared!Types /\ OfShared!SessionInv /\ OfShared!StrayInv
  BY DEF SharedInv
<1>3. OfShared!Types' /\ OfShared!SessionInv'
  BY <1>1, <1>2, OfShared!SessionInvKept
<1>4. OfShared!StrayInv'
  BY <1>1, <1>2, OfShared!StrayStep
<1> QED
  BY <1>3, <1>4 DEF SharedInv

LEMMA SessionsKeep == SessionsInv /\ [Next]_allVars => SessionsInv'
<1> SUFFICES ASSUME SessionsInv, [Next]_allVars PROVE SessionsInv'
  OBVIOUS
<1>1. ASSUME part' = "single" PROVE SingleInv'
  <2>1. part = "single" /\ (Single!Next \/ UNCHANGED Single!vars)
    BY <1>1 DEF Next, SingleStep, SharedStep, LibraryStep, allVars, sessionVars, Single!vars
  <2> QED
    BY <2>1, SingleKeeps DEF SessionsInv
<1>2. ASSUME part' = "shared" PROVE SharedInv'
  <2>1. part = "shared" /\ (Shared!Next \/ UNCHANGED Shared!vars)
    BY <1>2 DEF Next, SingleStep, SharedStep, LibraryStep, allVars, sessionVars, Shared!vars
  <2> QED
    BY <2>1, SharedKeeps DEF SessionsInv
<1> QED
  BY <1>1, <1>2 DEF SessionsInv

\* What a call is about to return was written for this very request by every rank,
\* to the end, for the identity it asked with, and requests are posted where neither a
\* request nor a receipt lies; whether one thread uses the session and its process is
\* killed, or several call it (persistent.py:115-133, resident_transport.py:46-72).
THEOREM AnswersBelongToRequests == Spec => []AnswerBelongsToRequest
<1>1. ASSUME SessionsInv PROVE AnswerBelongsToRequest
  <2>1. ASSUME part = "single" PROVE Single!AnswerBelongsToRequest /\ Single!PostsAfresh
    <3>1. OfSingle!SessionAssumption /\ OfSingle!Types /\ OfSingle!SessionInv
      BY <1>1, <2>1, SingleIsProved DEF SessionsInv, SingleInv
    <3> QED
      BY <3>1, OfSingle!AnswerFits, OfSingle!PostsFit, SinglePromises
  <2>2. ASSUME part = "shared" PROVE Shared!AnswerBelongsToRequest /\ Shared!PostsAfresh
    <3>1. OfShared!SessionAssumption /\ OfShared!Types /\ OfShared!SessionInv
      BY <1>1, <2>2, SharedIsProved DEF SessionsInv, SharedInv
    <3> QED
      BY <3>1, OfShared!AnswerFits, OfShared!PostsFit, SharedPromises
  <2> QED
    BY <2>1, <2>2 DEF AnswerBelongsToRequest
<1> QED
  BY <1>1, SessionsStart, SessionsKeep, PTL DEF Spec

\* A live worker belongs to the group the session holds or to one a call is reaping, as
\* long as the parent lives, and a session closed by its only user has none
\* (persistent.py:24-25, 76-80, resident_transport.py:31-34, 76-94).
THEOREM WorkersNeverStray == Spec => []NoStrayWorkers
<1>1. ASSUME SessionsInv PROVE NoStrayWorkers
  <2>1. ASSUME part = "single"
        PROVE  Single!TypeOK /\ Single!NoStrayWorkers /\ Single!ClosedFreesWorkers
    <3>1. /\ OfSingle!SessionAssumption /\ OfSingle!Types /\ OfSingle!SessionInv
          /\ OfSingle!StrayInv /\ OfSingle!ClosedInv
      BY <1>1, <2>1, SingleIsProved DEF SessionsInv, SingleInv
    <3> QED
      BY <3>1, OfSingle!TypesFit, OfSingle!StrayFits, OfSingle!ClosedFits, SinglePromises
  <2>2. ASSUME part = "shared" PROVE Shared!TypeOK /\ Shared!NoStrayWorkers
    <3>1. /\ OfShared!SessionAssumption /\ OfShared!Types /\ OfShared!SessionInv
          /\ OfShared!StrayInv
      BY <1>1, <2>2, SharedIsProved DEF SessionsInv, SharedInv
    <3> QED
      BY <3>1, OfShared!TypesFit, OfShared!StrayFits, SharedPromises
  <2> QED
    BY <2>1, <2>2 DEF NoStrayWorkers
<1> QED
  BY <1>1, SessionsStart, SessionsKeep, PTL DEF Spec
================================================================================
