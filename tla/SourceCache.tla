----------------------------- MODULE SourceCache -----------------------------
(***************************************************************************)
(* The checksummed source trees a search is built from (sources.py), shared *)
(* by processes that set them up at the same time, and prepare_sources      *)
(* (bootstrap.py), which decides which of them a search needs.              *)
(***************************************************************************)
EXTENDS Naturals, FiniteSets

CONSTANTS
    Procs,
    Offline,       \* processes that must not use the network
    Searching,     \* those that come from prepare_sources, with bundled sources
    MayCrash, Tampering

SourceAssumption ==
    Offline \cup Searching \cup MayCrash \subseteq Procs /\ Tampering \in BOOLEAN

Archives == {"native", "cutlass"}
NoArchive == "none"

VARIABLES
    given,     \* the explicit directories of each call: valid, invalid or none
    cache,     \* the directory of each archive: absent, partial, whole or modified
    temp,      \* the temporary directory of each process
    fetched,   \* archives each process downloaded
    pc, todo, got

vars == <<given, cache, temp, fetched, pc, todo, got>>

TypeOK ==
    /\ given \in [Procs -> [Archives -> {"none", "valid", "invalid"}]]
    /\ cache \in [Archives -> {"absent", "partial", "whole", "modified"}]
    /\ temp \in [Procs -> {"none", "empty", "archive", "tree"}]
    /\ fetched \in [Procs -> SUBSET Archives]
    /\ pc \in [Procs -> {"check", "next", "look", "download", "extract", "rename",
                         "verify", "cleanup", "done", "failed", "crashed"}]
    /\ todo \in [Procs -> SUBSET Archives]
    /\ got \in [Procs -> [Archives -> {"none", "whole", "modified"}]]
    /\ \A p \in Procs : pc[p] \in {"check", "next", "look"} => temp[p] = "none"

\* prepare_sources names its own native tree (a checkout or bundled sources,
\* whose manifest may not match) and asks for CUTLASS when it has none.
Init ==
    /\ given \in [Procs -> [Archives -> {"none", "valid", "invalid"}]]
    /\ \A p \in Searching : given[p]["native"] # "none" /\ given[p]["cutlass"] = "none"
    /\ cache = [a \in Archives |-> "absent"]
    /\ temp = [p \in Procs |-> "none"]
    /\ fetched = [p \in Procs |-> {}]
    /\ pc = [p \in Procs |-> "check"]
    /\ todo = [p \in Procs |-> {}]
    /\ got = [p \in Procs |-> [a \in Archives |-> "none"]]

Goto(p, step) == pc' = [pc EXCEPT ![p] = step]
Current(p) == IF "native" \in todo[p] THEN "native" ELSE "cutlass"

\* Both explicit directories are examined before anything is downloaded.
AnyGiven(p) == TRUE                       \* mutant: each is examined when its turn comes
GivenAreValid(p) == \A a \in Archives : given[p][a] # "invalid"

CheckGiven(p) ==
    /\ pc[p] = "check"
    /\ IF GivenAreValid(p)
       THEN todo' = [todo EXCEPT ![p] = {a \in Archives : given[p][a] # "valid"}]
            /\ Goto(p, "next")
       ELSE Goto(p, "failed") /\ UNCHANGED todo
    /\ UNCHANGED <<given, cache, temp, fetched, got>>

NextArchive(p) ==
    /\ pc[p] = "next"
    /\ Goto(p, IF todo[p] = {} THEN "done" ELSE "look")
    /\ UNCHANGED <<given, cache, temp, fetched, todo, got>>

Look(p) ==
    /\ pc[p] = "look"
    /\ \/ cache[Current(p)] # "absent" /\ Goto(p, "verify") /\ UNCHANGED temp
       \/ cache[Current(p)] = "absent" /\ p \in Offline /\ Goto(p, "failed") /\ UNCHANGED temp
       \/ /\ cache[Current(p)] = "absent" /\ p \notin Offline
          /\ temp' = [temp EXCEPT ![p] = "empty"] /\ Goto(p, "download")
    /\ UNCHANGED <<given, cache, fetched, todo, got>>

\* The archive must have the pinned hash; size limits and network errors fail.
Download(p) ==
    /\ pc[p] = "download"
    /\ \/ /\ temp' = [temp EXCEPT ![p] = "archive"] /\ Goto(p, "extract")
          /\ fetched' = [fetched EXCEPT ![p] = fetched[p] \cup {Current(p)}]
       \/ Goto(p, "cleanup") /\ UNCHANGED <<temp, fetched>>
    /\ UNCHANGED <<given, cache, todo, got>>

Extract(p) ==
    /\ pc[p] = "extract"
    /\ \/ temp' = [temp EXCEPT ![p] = "tree"] /\ Goto(p, "rename")
       \/ Goto(p, "cleanup") /\ UNCHANGED temp
    /\ UNCHANGED <<given, cache, fetched, todo, got>>

\* The directory appears at once; one that is there already is never replaced.
Replace(p) == TRUE                        \* mutant: whatever is there is replaced
MayAppear(p) == cache[Current(p)] = "absent"

Rename(p) ==
    /\ pc[p] = "rename"
    /\ IF MayAppear(p)
       THEN /\ cache' = [cache EXCEPT ![Current(p)] = "whole"]
            /\ temp' = [temp EXCEPT ![p] = "none"]
       ELSE UNCHANGED <<cache, temp>>
    /\ Goto(p, "verify")
    /\ UNCHANGED <<given, fetched, todo, got>>

\* The archive is hashed and every file of the tree compared with its member.
Trusted(a) == cache[a] # "absent"         \* mutant: an existing directory is trusted
Verified(a) == cache[a] = "whole"

Verify(p) ==
    LET a == Current(p) IN
    /\ pc[p] = "verify"
    /\ got' = IF Verified(a) THEN [got EXCEPT ![p][a] =
                  IF cache[a] = "whole" THEN "whole" ELSE "modified"] ELSE got
    /\ Goto(p, "cleanup")
    /\ UNCHANGED <<given, cache, temp, fetched, todo>>

LeaveTemporary(p) == temp[p]              \* mutant
AfterCleanup(p) == "none"

Cleanup(p) ==
    LET a == Current(p) IN
    /\ pc[p] = "cleanup"
    /\ temp' = [temp EXCEPT ![p] = AfterCleanup(p)]
    /\ IF got[p][a] = "none" THEN Goto(p, "failed") /\ UNCHANGED todo
       ELSE Goto(p, "next") /\ todo' = [todo EXCEPT ![p] = todo[p] \ {a}]
    /\ UNCHANGED <<given, cache, fetched, got>>

Crash(p) ==
    /\ p \in MayCrash /\ pc[p] \notin {"done", "failed", "crashed"}
    /\ Goto(p, "crashed")
    /\ UNCHANGED <<given, cache, temp, fetched, todo, got>>

\* Someone edits a cached tree.
Tamper(a) ==
    /\ Tampering /\ cache[a] = "whole"
    /\ cache' = [cache EXCEPT ![a] = "modified"]
    /\ UNCHANGED <<given, temp, fetched, pc, todo, got>>

Next ==
    \/ \E p \in Procs :
         \/ CheckGiven(p) \/ NextArchive(p) \/ Look(p) \/ Download(p) \/ Extract(p)
         \/ Rename(p) \/ Verify(p) \/ Cleanup(p) \/ Crash(p)
    \/ \E a \in Archives : Tamper(a)

Spec == Init /\ [][Next]_vars

----------------------------------------------------------------------------
(* Properties                                                               *)

\* A call that succeeds was given trees that matched their pinned archives when
\* they were verified, whoever put them there (sources.py:112-142).
OnlyVerifiedTrees ==
    \A p \in Procs : pc[p] = "done" =>
        \A a \in Archives : given[p][a] = "valid" \/ got[p][a] = "whole"

\* An archive directory is only ever created whole, and nobody replaces one that
\* exists: an edited tree stays edited, to be refused (sources.py:157-163).
NeverReplaced ==
    [][\A a \in Archives : cache'[a] # cache[a] =>
        \/ cache[a] = "absent" /\ cache'[a] = "whole"
        \/ cache[a] = "whole" /\ cache'[a] = "modified"]_vars

\* A temporary directory outlives only a process that was killed
\* (sources.py:165).
NoTemporaryLeft == \A p \in Procs : pc[p] \in {"done", "failed"} => temp[p] = "none"

\* An invalid explicit directory is reported before the network is used
\* (sources.py:188).
NothingFetchedInVain ==
    \A p \in Procs : (\E a \in Archives : given[p][a] = "invalid") => fetched[p] = {}
=============================================================================
