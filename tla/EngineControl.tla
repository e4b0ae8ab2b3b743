----------------------------- MODULE EngineControl -----------------------------
(***************************************************************************)
(* The C interface of the native library (beam_native.cpp) and the monitor  *)
(* behind it (engine_control.hpp): contexts with one engine thread each,    *)
(* and the threads that create them, submit jobs, wait, cancel and destroy. *)
(* Every call holds the mutex of its context, so it is one step, except     *)
(* that a wait sleeps until it is notified or its time is over, and that    *)
(* destroy joins the engine.                                                *)
(*                                                                         *)
(* The engine (run_production_runner and resident_search.hpp) is reduced to *)
(* what the monitor sees: it prepares, takes a job, looks for a             *)
(* cancellation before every depth, and completes the job or throws.        *)
(***************************************************************************)
EXTENDS Naturals, FiniteSets

CONSTANTS
    Clients,     \* the threads that use the library
    MaxContexts, \* bound: contexts created
    MaxJobs      \* bound: jobs submitted to a context

ControlAssumption == Clients # {} /\ MaxContexts \in Nat /\ MaxJobs \in Nat

Contexts == 1..MaxContexts
NoJob == MaxJobs   \* a job is named by its sequence number, which is smaller

VARIABLES
    occupied,  \* the flag of the same name
    contexts,  \* how many were created
    control,   \* control[c]: the monitor of context c, and whether c is there
    engine,    \* engine[c]: its engine thread
    client,    \* client[t]: the call thread t is in, and what its last wait said
    ran,       \* ran[c]: how many jobs its engine ran to the end
    accepted   \* accepted[c]: how many submissions returned BEAM_OK

controlVars == <<occupied, contexts, control, engine, client, ran, accepted>>

Free == [call |-> "none", ctx |-> 0, before |-> 0, said |-> "nothing"]

Init ==
    /\ occupied = FALSE /\ contexts = 0
    /\ control = [c \in Contexts |-> [there |-> FALSE, phase |-> "created", result |-> "ok",
                      completed |-> 0, pending |-> NoJob, stop |-> FALSE]]
    /\ engine = [c \in Contexts |-> [pc |-> "none", job |-> NoJob]]
    /\ client = [t \in Clients |-> Free]
    /\ ran = [c \in Contexts |-> 0] /\ accepted = [c \in Contexts |-> 0]

Idle(t) == client[t].call = "none"
Returns(t, said) == client' = [client EXCEPT ![t] = [@ EXCEPT !.call = "none", !.said = said]]

\* notify_all: who sleeps on the condition variable looks at it again.
Woken(c) == [t \in Clients |-> IF client[t].ctx = c /\ client[t].call = "asleep"
                               THEN [client[t] EXCEPT !.call = "look"] ELSE client[t]]
WokenEngine(c) == IF engine[c].pc = "asleep" THEN "next" ELSE engine[c].pc

----------------------------------------------------------------------------
(* The calls.                                                               *)

\* beam_context_create, and set_history, which only a fresh context takes.
Create(t) ==
    /\ Idle(t) /\ ~occupied /\ contexts < MaxContexts
    /\ occupied' = TRUE /\ contexts' = contexts + 1
    /\ control' = [control EXCEPT ![contexts'].there = TRUE]
    /\ client' = [client EXCEPT ![t] = [Free EXCEPT !.ctx = contexts']]
    /\ UNCHANGED <<engine, ran, accepted>>

\* beam_context_prepare; the thread may fail to start.
Prepare(t, c) ==
    /\ Idle(t) /\ control[c].there /\ control[c].phase = "created"
    /\ \/ /\ control' = [control EXCEPT ![c].phase = "preparing"]
          /\ engine' = [engine EXCEPT ![c].pc = "prepare"]
       \/ /\ control' = [control EXCEPT ![c] = [@ EXCEPT
                !.result = IF control[c].stop THEN "cancelled" ELSE "failed",
                !.phase = IF control[c].stop THEN "stopped" ELSE "error"]]
          /\ UNCHANGED engine
    /\ UNCHANGED <<occupied, contexts, client, ran, accepted>>

SubmitLeavesPhase(c) == control[c].phase   \* mutant: stays as it was
Submitted(c) == "running"

\* beam_context_submit; a stale sequence, another phase or a stop are refused
\* without effect.
Submit(t, c) ==
    /\ Idle(t) /\ control[c].there /\ accepted[c] < MaxJobs
    /\ control[c].phase = "ready" /\ ~control[c].stop
    /\ control' = [control EXCEPT ![c] = [@ EXCEPT !.pending = control[c].completed,
                                                   !.phase = Submitted(c)]]
    /\ accepted' = [accepted EXCEPT ![c] = @ + 1]
    /\ client' = Woken(c) /\ engine' = [engine EXCEPT ![c].pc = WokenEngine(c)]
    /\ UNCHANGED <<occupied, contexts, ran>>

Answerable(c) == control[c].phase \in {"ready", "stopped", "error"}
Answer(c) == IF control[c].stop THEN "cancelled" ELSE control[c].result

\* beam_context_wait
Wait(t, c) ==
    /\ Idle(t) /\ control[c].there /\ control[c].phase # "created"
    /\ client' = [client EXCEPT ![t] =
          [call |-> "look", ctx |-> c, before |-> accepted[c], said |-> "nothing"]]
    /\ UNCHANGED <<occupied, contexts, control, engine, ran, accepted>>

Look(t) ==
    LET c == client[t].ctx IN
    /\ client[t].call = "look"
    /\ IF Answerable(c) THEN Returns(t, Answer(c))
       ELSE client' = [client EXCEPT ![t].call = "asleep"]
    /\ UNCHANGED <<occupied, contexts, control, engine, ran, accepted>>

\* The time is over; the condition is looked at once more.
TimeOut(t) ==
    LET c == client[t].ctx IN
    /\ client[t].call = "asleep"
    /\ Returns(t, IF Answerable(c) THEN Answer(c) ELSE "timeout")
    /\ UNCHANGED <<occupied, contexts, control, engine, ran, accepted>>

EngineSleepsOn(c) == engine[c].pc      \* mutant: cancel notifies nobody
EngineAfterCancel(c) == WokenEngine(c)

\* beam_context_cancel
Cancel(t, c) ==
    /\ Idle(t) /\ control[c].there /\ ~control[c].stop
    /\ control' = [control EXCEPT ![c].stop = TRUE]
    /\ client' = Woken(c)
    /\ engine' = [engine EXCEPT ![c].pc = EngineAfterCancel(c)]
    /\ UNCHANGED <<occupied, contexts, ran, accepted>>

\* beam_context_destroy cancels and joins.  The owner of a context destroys it
\* when nobody else uses it.
Destroy(t, c) ==
    /\ Idle(t) /\ control[c].there
    /\ \A u \in Clients : client[u].call \in {"asleep", "look", "join"} => client[u].ctx # c
    /\ control' = [control EXCEPT ![c].stop = TRUE, ![c].there = FALSE]
    /\ client' = [client EXCEPT ![t] = [Free EXCEPT !.call = "join", !.ctx = c]]
    /\ engine' = [engine EXCEPT ![c].pc = WokenEngine(c)]
    /\ UNCHANGED <<occupied, contexts, ran, accepted>>

JoinAtOnce(c) == TRUE                          \* mutant: the engine is not joined
Joined(c) == engine[c].pc \in {"none", "over"}

Join(t) ==
    /\ client[t].call = "join" /\ Joined(client[t].ctx)
    /\ Returns(t, "nothing") /\ occupied' = FALSE
    /\ UNCHANGED <<contexts, control, engine, ran, accepted>>

\* beam_native_main: one search in the calling thread, without a context.
Main(t) ==
    /\ \/ Idle(t) /\ ~occupied /\ occupied' = TRUE
          /\ client' = [client EXCEPT ![t] = [Free EXCEPT !.call = "main"]]
       \/ client[t].call = "main" /\ occupied' = FALSE /\ Returns(t, "nothing")
    /\ UNCHANGED <<contexts, control, engine, ran, accepted>>

----------------------------------------------------------------------------
(* The engine thread.                                                       *)

\* Control::finish
Finish(c, code) ==
    LET result == IF control[c].stop THEN "cancelled" ELSE code IN
    /\ control' = [control EXCEPT ![c] = [@ EXCEPT !.result = result,
                      !.phase = IF result = "failed" THEN "error" ELSE "stopped"]]
    /\ engine' = [engine EXCEPT ![c] = [pc |-> "over", job |-> NoJob]]
    /\ client' = Woken(c)
    /\ UNCHANGED <<occupied, contexts, ran, accepted>>

Prepared(c) ==
    /\ engine[c].pc = "prepare"
    /\ engine' = [engine EXCEPT ![c].pc = "next"]
    /\ UNCHANGED <<occupied, contexts, control, client, ran, accepted>>

\* What is thrown in preparation, in a job or after it, and a cancellation.
Throws(c) == engine[c].pc \in {"prepare", "job"} /\ Finish(c, "failed")
Cancelled(c) == engine[c].pc = "job" /\ control[c].stop /\ Finish(c, "cancelled")

\* Control::next
NextJob(c) ==
    LET phase == IF control[c].phase = "preparing" THEN "ready" ELSE control[c].phase
        wakes == IF phase = control[c].phase THEN client ELSE Woken(c)
    IN /\ engine[c].pc = "next"
       /\ IF control[c].stop
          THEN /\ control' = [control EXCEPT ![c].phase = phase]
               /\ engine' = [engine EXCEPT ![c].pc = "leave"]
          ELSE IF control[c].pending # NoJob
          THEN /\ control' = [control EXCEPT ![c] = [@ EXCEPT !.phase = phase, !.pending = NoJob]]
               /\ engine' = [engine EXCEPT ![c] = [pc |-> "job", job |-> control[c].pending]]
          ELSE /\ control' = [control EXCEPT ![c].phase = phase]
               /\ engine' = [engine EXCEPT ![c].pc = "asleep"]
       /\ client' = wakes
       /\ UNCHANGED <<occupied, contexts, ran, accepted>>

\* No job is left when the loop of the runner ends: it closes the history.
Leave(c) == engine[c].pc = "leave" /\ Finish(c, "ok")

\* Mailbox::next throws at a sequence that is not the one it waits for.
RunJob(c) ==
    /\ engine[c].pc = "job" /\ engine[c].job = ran[c]
    /\ engine' = [engine EXCEPT ![c].pc = "complete"]
    /\ ran' = [ran EXCEPT ![c] = @ + 1]
    /\ UNCHANGED <<occupied, contexts, control, client, accepted>>

\* Control::complete, or its throw.
Complete(c) ==
    /\ engine[c].pc = "complete"
    /\ IF engine[c].job = control[c].completed /\ control[c].phase = "running"
       THEN /\ control' = [control EXCEPT ![c].completed = @ + 1, ![c].phase = "ready"]
            /\ engine' = [engine EXCEPT ![c] = [pc |-> "next", job |-> NoJob]]
            /\ client' = Woken(c)
            /\ UNCHANGED <<occupied, contexts, ran, accepted>>
       ELSE Finish(c, "failed")

----------------------------------------------------------------------------
Engine(c) ==
    \/ Prepared(c) \/ Throws(c) \/ Cancelled(c) \/ NextJob(c) \/ Leave(c)
    \/ RunJob(c) \/ Complete(c)

Call(t) ==
    \/ Create(t) \/ Main(t) \/ TimeOut(t)
    \/ \E c \in Contexts : Prepare(t, c) \/ Submit(t, c) \/ Wait(t, c) \/ Cancel(t, c)
                           \/ Destroy(t, c)

Next == \E t \in Clients : Call(t) \/ Look(t) \/ Join(t) \/ \E c \in Contexts : Engine(c)

Spec == Init /\ [][Next]_controlVars

----------------------------------------------------------------------------
(* Properties                                                               *)

\* A wait that returns BEAM_OK has outlasted every job that was submitted before
\* it, by any thread, and no job is counted as completed before it ran or runs
\* without a submission (engine_control.hpp:33-49, beam_native.cpp:99-135).
JobsAsAnswered ==
    /\ \A c \in Contexts : control[c].completed <= ran[c] /\ ran[c] <= accepted[c]
    /\ \A t \in Clients : client[t].said = "ok" => client[t].before <= ran[client[t].ctx]

\* Only one engine runs in a process at any time, and none when its context,
\* with the history callbacks it holds, is gone: the flag is given back after
\* the join (beam_native.cpp:176-185, beam_native.h:73-77).
Running == {c \in Contexts : ~(engine[c].pc \in {"none", "over"})}
InMain == {t \in Clients : client[t].call = "main"}
OneEngine ==
    /\ Cardinality(Running) + Cardinality(InMain) <= 1
    /\ \A c \in Running : control[c].there \/ \E t \in Clients :
         client[t].call = "join" /\ client[t].ctx = c

\* A cancelled engine, and a thread in the wait of a cancelled context or in its
\* destroy.
MustStop(c) == control[c].stop /\ c \in Running
MustReturn(t) ==
    \/ client[t].call \in {"look", "asleep"} /\ control[client[t].ctx].stop
    \/ client[t].call = "join"

\* A cancelled engine ends, and so do the wait and the destroy that follow it,
\* without their time being over (beam_native.cpp:147-176).
CancelEnds ==
    /\ \A c \in Contexts : MustStop(c) ~> ~MustStop(c)
    /\ \A t \in Clients : MustReturn(t) ~> ~MustReturn(t)
================================================================================
