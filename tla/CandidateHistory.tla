--------------------------- MODULE CandidateHistory ---------------------------
(***************************************************************************)
(* The history of one rank: for every finished depth, the parent and the    *)
(* move of every kept candidate (CpuCandidateHistory).  A depth is copied   *)
(* from the device into a slot, a writer thread stores it, and the slot is  *)
(* free again.  In RAM, when the rank is the only one, unused entries are   *)
(* pruned in pairs of depths by other threads; the hybrid mode puts each    *)
(* depth into an arena on disk or in RAM by a plan made beforehand, and     *)
(* falls back to the RAM that the plan left when a disk write fails.  The   *)
(* search follows the links back when it has found a solution.              *)
(***************************************************************************)
EXTENDS Integers, FiniteSetsExt, SequencesExt

CONSTANTS
    Mode,         \* the modes tried: "ram", "disk", "hybrid"
    Frontiers,    \* parent indices that a depth may have, from 0
    DepthLimit,
    Slot,         \* history slots
    Workers,      \* BEAM_HISTORY_WORKERS
    Beam, Moves,  \* local beam and MOVE_COUNT, for the plan
    RamEntries, DiskEntries   \* of the arenas

VARIABLES
    mode,
    pc,         \* what the search does with the history
    waiting,    \* pump_completed's wait_all
    committed,  \* the depths as they were committed
    slot,       \* phase, depth and entries of a slot, and where they go
    stored,     \* ram_depths, or the files of the depths
    ready,      \* ram_ready
    dirty,      \* prune_dirty
    jobs,       \* prune_jobs
    places,     \* depth_locations
    ram, disk,  \* the arenas
    ramUsed,    \* ram_entries_used
    diskFailed  \* disk_write_failed

vars == <<mode, pc, waiting, committed, slot, stored, ready, dirty, jobs, places, ram, disk,
          ramUsed, diskFailed>>
arenaVars == <<ram, disk, ramUsed, diskFailed>>

Entries(d) == committed[d]
Free == [phase |-> "free", depth |-> 0, entries |-> <<>>, at |-> <<>>]
NoEntry == [parent |-> 0, move |-> <<>>]
Moved == <<>>
-----------------------------------------------------------------------------
(* The plan of the arenas.                                                  *)

Least(m, n) == IF m < n THEN m ELSE n

\* expand_bound: how many entries a depth may have.
Bound[d \in 0..DepthLimit] == IF d = 0 THEN 1 ELSE Least(Beam, Bound[d - 1] * Moves)

\* plan_history: whole depths, on disk as long as they fit.
Plan[d \in 0..DepthLimit] ==
    IF d = 0 THEN [disk |-> 0, ram |-> 0, at |-> <<>>]
    ELSE LET before == Plan[d - 1]
         IN IF Bound[d] <= DiskEntries - before.disk
            THEN [before EXCEPT !.disk = @ + Bound[d], !.at = <<"disk", before.disk>>]
            ELSE [before EXCEPT !.ram = @ + Bound[d], !.at = <<"ram", before.ram>>]

HistoryAssumption ==
    /\ DepthLimit \in Nat /\ Workers \in Nat \ {0} /\ Slot # {}
    /\ Plan[DepthLimit].ram <= RamEntries

FitsArena(count) == count <= RamEntries  \* mutant: what was promised is forgotten
\* reserve_history_fallback_ram: only RAM that no depth was promised.
FallbackFits(count) == count <= RamEntries - ramUsed
-----------------------------------------------------------------------------
Init ==
    /\ mode \in Mode /\ pc = "slots" /\ waiting = FALSE
    /\ committed = <<>> /\ slot = [s \in Slot |-> Free]
    /\ stored = <<>> /\ ready = <<>> /\ dirty = <<>> /\ jobs = {} /\ places = <<>>
    /\ ram = [i \in 0..(RamEntries - 1) |-> NoEntry]
    /\ disk = [i \in 0..(DiskEntries - 1) |-> NoEntry]
    /\ ramUsed = Plan[DepthLimit].ram /\ diskFailed = FALSE

Phase(s) == slot[s].phase
SetPhase(s, phase) == slot' = [slot EXCEPT ![s].phase = phase]
Newest == Len(committed)

\* acquire_slot, the copy of the final candidates, commit_slot.
Commit(s) ==
    /\ pc = "depth" /\ Phase(s) = "free" /\ Newest < DepthLimit
    /\ \E f \in Frontiers :
         LET d == Newest + 1
             at == IF mode # "hybrid" THEN <<>>
                   ELSE IF Plan[d].at[1] = "disk" /\ diskFailed THEN <<"ram", ramUsed>>
                   ELSE Plan[d].at
             entries == [i \in DOMAIN f |-> [parent |-> f[i], move |-> <<d, i>>]]
             late == mode = "hybrid" /\ at # Plan[d].at
         IN /\ \A i \in DOMAIN f : f[i] < (IF Newest = 0 THEN 1 ELSE Len(Entries(Newest)))
            /\ Len(f) <= Bound[d]
            /\ IF late /\ ~FallbackFits(Len(f))
               THEN pc' = "failed" /\ UNCHANGED <<committed, slot, stored, ready, dirty, places, ramUsed>>
               ELSE /\ pc' = "slots"
                    /\ committed' = Append(committed, entries)
                    /\ slot' = [slot EXCEPT ![s] =
                           [phase |-> "copying", depth |-> d, entries |-> entries, at |-> at]]
                    /\ stored' = Append(stored, <<>>)
                    /\ ready' = Append(ready, FALSE) /\ dirty' = Append(dirty, FALSE)
                    /\ places' = Append(places, at)
                    /\ ramUsed' = IF late THEN ramUsed + Len(f) ELSE ramUsed
    /\ UNCHANGED <<mode, waiting, jobs, ram, disk, diskFailed>>

\* No slot is free, or a solution was found: wait for everything.
WaitForAll ==
    /\ pc = "depth" /\ pc' = "slots" /\ waiting' = TRUE
    /\ UNCHANGED <<mode, committed, slot, stored, ready, dirty, jobs, places, arenaVars>>

\* pump_completed: start a writer where the copy has arrived, and take over what
\* the writers have stored.
Handled == {s \in Slot : Phase(s) \in {"copied", "written"}}
Written == {s \in Slot : Phase(s) = "written"}
Done(d) == \E s \in Written : slot[s].depth = d
SlotOf(d) == slot[CHOOSE s \in Written : slot[s].depth = d]

PumpSlots ==
    /\ pc = "slots" /\ \A s \in Slot : Phase(s) # "failed"
    /\ waiting => Handled # {} \/ \A s \in Slot : Phase(s) = "free"
    /\ slot' = [s \in Slot |->
           CASE Phase(s) = "copied" -> [slot[s] EXCEPT !.phase = "writing"]
             [] Phase(s) = "written" -> Free
             [] OTHER -> slot[s]]
    /\ stored' = [d \in DOMAIN stored |->
           IF mode = "ram" /\ Done(d) THEN SlotOf(d).entries ELSE stored[d]]
    /\ ready' = [d \in DOMAIN ready |-> ready[d] \/ Done(d)]
    /\ dirty' = [d \in DOMAIN dirty |-> dirty[d] \/ (mode = "ram" /\ Done(d + 1))]
    /\ places' = [d \in DOMAIN places |-> IF Done(d) THEN SlotOf(d).at ELSE places[d]]
    /\ pc' = IF waiting /\ \E s \in Slot : slot'[s] # Free THEN "slots" ELSE "take"
    /\ UNCHANGED <<mode, waiting, committed, jobs, arenaVars>>

\* The result of a writer that failed is thrown at the search.
WriterThrows(s) ==
    /\ pc = "slots" /\ Phase(s) = "failed" /\ pc' = "failed"
    /\ slot' = [slot EXCEPT ![s] = Free]
    /\ UNCHANGED <<mode, waiting, committed, stored, ready, dirty, jobs, places, arenaVars>>

\* pump_prune_jobs: take what is pruned, which may make the pair before it dirty.
Finished == {j \in jobs : j.done}
Pruned(d) == \E j \in Finished : j.depth = d
Job(d) == CHOOSE j \in Finished : j.depth = d

TakeJobs ==
    /\ pc = "take" /\ (waiting => Finished = jobs)
    /\ pc' = "launch"
    /\ stored' = [d \in DOMAIN stored |->
           IF Pruned(d) THEN Job(d).previous
           ELSE IF Pruned(d - 1) THEN Job(d - 1).current ELSE stored[d]]
    /\ ready' = [d \in DOMAIN ready |-> ready[d] \/ Pruned(d) \/ Pruned(d - 1)]
    /\ dirty' = [d \in DOMAIN dirty |-> (dirty[d] /\ ~Pruned(d)) \/ Pruned(d + 1)]
    /\ jobs' = jobs \ Finished
    /\ UNCHANGED <<mode, waiting, committed, slot, places, arenaVars>>

PairFree(d) == \A j \in jobs : j.depth \notin {d - 1, d, d + 1}
Prunable == {d \in 1..(Newest - 1) : dirty[d] /\ ready[d] /\ ready[d + 1] /\ PairFree(d)}

\* The last pair first; its depths are moved into the job.
LaunchJob ==
    /\ pc = "launch" /\ Prunable # {} /\ Cardinality(jobs) < Workers
    /\ LET d == Max(Prunable)
       IN /\ jobs' = jobs \cup {[depth |-> d, previous |-> stored[d], current |-> stored[d + 1], done |-> FALSE]}
          /\ stored' = [stored EXCEPT ![d] = Moved, ![d + 1] = Moved]
          /\ ready' = [ready EXCEPT ![d] = FALSE, ![d + 1] = FALSE]
    /\ UNCHANGED <<mode, pc, waiting, committed, slot, dirty, places, arenaVars>>

PruneIdle == Prunable = {} \/ Cardinality(jobs) >= Workers

\* After a pass the search goes on, with a solution or without.
LeavePump ==
    /\ pc = "launch" /\ PruneIdle
    /\ IF waiting /\ jobs # {} THEN pc' = "take" /\ UNCHANGED waiting
       ELSE /\ pc' \in IF waiting THEN {"read", "depth"} ELSE {"slots", "depth"}
            /\ waiting' = FALSE
    /\ UNCHANGED <<mode, committed, slot, stored, ready, dirty, jobs, places, arenaVars>>

\* Solutions have been traced; more may be collected.
GoOn ==
    /\ pc = "read" /\ pc' \in {"depth", "destroy"}
    /\ UNCHANGED <<mode, waiting, committed, slot, stored, ready, dirty, jobs, places, arenaVars>>
-----------------------------------------------------------------------------
(* Copies, writers and prune workers.                                       *)

CopyDone(s) ==
    /\ Phase(s) = "copying" /\ SetPhase(s, "copied")
    /\ UNCHANGED <<mode, pc, waiting, committed, stored, ready, dirty, jobs, places, arenaVars>>

\* The entries written to an arena from `first` on.
Put(arena, first, entries) == [i \in DOMAIN arena |->
    IF i - first + 1 \in DOMAIN entries THEN entries[i - first + 1] ELSE arena[i]]

\* materialize_depth
Write(s) ==
    LET w == slot[s]
    IN /\ Phase(s) = "writing"
       /\ \/ mode = "ram" /\ SetPhase(s, "written") /\ UNCHANGED <<stored, ram, disk>>
          \/ /\ mode = "disk" /\ SetPhase(s, "written")
             /\ stored' = [stored EXCEPT ![w.depth] = w.entries] /\ UNCHANGED <<ram, disk>>
          \/ /\ mode = "hybrid" /\ SetPhase(s, "written")
             /\ IF w.at[1] = "disk"
                THEN disk' = Put(disk, w.at[2], w.entries) /\ UNCHANGED ram
                ELSE ram' = Put(ram, w.at[2], w.entries) /\ UNCHANGED disk
             /\ UNCHANGED stored
    /\ UNCHANGED <<mode, pc, waiting, committed, ready, dirty, jobs, places, ramUsed, diskFailed>>

\* A disk write fails: the hybrid mode reserves RAM for it if any is left.
DiskWriteFails(s) ==
    LET count == Len(slot[s].entries)
    IN /\ Phase(s) = "writing"
       /\ \/ mode = "disk" /\ SetPhase(s, "failed") /\ UNCHANGED <<ramUsed, diskFailed>>
          \/ /\ mode = "hybrid" /\ slot[s].at[1] = "disk" /\ diskFailed' = TRUE
             /\ IF FallbackFits(count)
                THEN /\ slot' = [slot EXCEPT ![s].at = <<"ram", ramUsed>>]
                     /\ ramUsed' = ramUsed + count
                ELSE SetPhase(s, "failed") /\ UNCHANGED ramUsed
    /\ UNCHANGED <<mode, pc, waiting, committed, stored, ready, dirty, jobs, places, ram, disk>>

\* prune_adjacent_depths: keep the entries that have children, and renumber the
\* links to them.
Kept(j) == {p \in {j.current[i].parent : i \in DOMAIN j.current} : p < Len(j.previous)}
OldIndex(p, kept) == p  \* mutant: the links keep their old numbers
NewIndex(p, kept) == Cardinality({q \in kept : q < p})

Prune(j) ==
    LET kept == Kept(j)
        compact == [i \in 1..Cardinality(kept) |->
                       j.previous[1 + CHOOSE p \in kept : Cardinality({q \in kept : q < p}) = i - 1]]
        renumbered == [i \in DOMAIN j.current |-> [j.current[i] EXCEPT !.parent = NewIndex(@, kept)]]
    IN /\ ~j.done
       /\ jobs' = (jobs \ {j}) \cup {[j EXCEPT !.previous = compact, !.current = renumbered, !.done = TRUE]}
       /\ UNCHANGED <<mode, pc, waiting, committed, slot, stored, ready, dirty, places, arenaVars>>

\* destroy: after a failure too, every writer and worker is joined first.
Destroy ==
    /\ pc \in {"destroy", "failed"} /\ pc' = "released"
    /\ \A s \in Slot : Phase(s) \notin {"copying", "writing"}
    /\ Finished = jobs
    /\ slot' = [s \in Slot |-> Free] /\ jobs' = {}
    /\ UNCHANGED <<mode, waiting, committed, stored, ready, dirty, places, arenaVars>>

Ended == pc = "released" /\ UNCHANGED vars

Search == WaitForAll \/ PumpSlots \/ TakeJobs \/ LaunchJob \/ LeavePump \/ GoOn \/ Destroy
Next ==
    \/ Search \/ Ended \/ \E j \in jobs : Prune(j)
    \/ \E s \in Slot : Commit(s) \/ WriterThrows(s) \/ CopyDone(s) \/ Write(s) \/ DiskWriteFails(s)

Spec == Init /\ [][Next]_vars
-----------------------------------------------------------------------------
(* Properties.                                                             *)

\* read_entry
ReadEntry(d, index) ==
    LET place == places[d]
        arena == IF place[1] = "disk" THEN disk ELSE ram
    IN IF mode = "hybrid"
       THEN IF ready[d] /\ place[2] + index \in DOMAIN arena THEN arena[place[2] + index] ELSE NoEntry
       ELSE IF index + 1 \in DOMAIN stored[d] THEN stored[d][index + 1] ELSE NoEntry

\* The entries of all depths as they are read, and as they were committed.
Read == [d \in 1..Newest |-> [i \in 0..(Beam - 1) |-> ReadEntry(d, i)]]
Original == [d \in 1..Newest |->
    [i \in 0..(Beam - 1) |-> IF i < Len(Entries(d)) THEN Entries(d)[i + 1] ELSE NoEntry]]

\* The moves back from a parent in the newest depth.
Trace(table, parent) ==
    LET index[k \in 0..Newest] ==
            IF k = 0 THEN parent ELSE table[Newest - k + 1][index[k - 1]].parent
    IN [d \in 1..Newest |-> table[d][index[Newest - d]].move]

\* reconstruct_solution_from_history: once everything is stored, the moves traced
\* back from any parent in the newest depth are the ones that led to it, however
\* the depths were written, moved and renumbered (candidate_history.hpp:454, 493).
LinksLeadBack == pc = "read" =>
    \A p \in 0..(IF Newest = 0 THEN -1 ELSE Len(Entries(Newest)) - 1) :
        Trace(Read, p) = Trace(Original, p)

\* Then nothing is kept in RAM that no later entry descends from, except in the
\* newest depth: a pruned depth has its predecessor pruned again (:557).
OnlyAncestorsKept == pc = "read" /\ mode = "ram" => \A d \in 1..(Newest - 1) :
    {stored[d + 1][i].parent + 1 : i \in DOMAIN stored[d + 1]} = DOMAIN stored[d]

\* The search fails only if a disk write did, and in the hybrid mode only if the
\* depths since then do not fit into the RAM that the plan left over (:454).
FailsForDiskOnly == pc = "failed" =>
    /\ mode # "ram"
    /\ mode = "hybrid" => diskFailed /\ ramUsed + Beam > RamEntries

HistoryKept == LinksLeadBack /\ OnlyAncestorsKept /\ FailsForDiskOnly
=============================================================================
