----------------------------- MODULE AdapterProofs -----------------------------
(***************************************************************************)
(* A call and what precedes and follows it, for any number of processes,    *)
(* edits, upgrades, members and parts, any request, graph and host and any  *)
(* amount of memory: only verified trees are used, a process runs what its  *)
(* key names, an ensemble runs as it was frozen, what is said to be         *)
(* published is, a call does what it records, and the frontier fits.  Each  *)
(* part of Adapter is by itself, so each has an invariant of its own, kept  *)
(* by its own steps.                                                        *)
(***************************************************************************)
EXTENDS Adapter, FiniteSetTheorems, WellFoundedInduction, TLAPS
-----------------------------------------------------------------------------
(* Pinned source trees.                                                     *)

\* Past the examination of the explicit directories.
Setting == {"next", "look", "download", "extract", "rename", "verify", "cleanup", "done"}

\* A process that goes on was given no invalid directory, and has every tree but
\* those it still has to do; it is busy with one of these, and done when there are
\* none; a tree was verified or was not taken.
TreesInHand(p) ==
    /\ pc[p] \in Setting =>
         /\ Fetching!GivenAreValid(p)
         /\ \A a \in Fetching!Archives \ todo[p] : given[p][a] = "valid" \/ got[p][a] = "whole"
    /\ pc[p] \in Setting \ {"next", "done"} => todo[p] # {}
    /\ pc[p] = "done" => todo[p] = {}
    /\ \A a \in Fetching!Archives : got[p][a] # "modified"

\* An invalid directory was seen before anything was fetched, and what was
\* unpacked is gone when the process ends by itself.
CleanHands(p) ==
    /\ (\E a \in Fetching!Archives : given[p][a] = "invalid") => fetched[p] = {}
    /\ pc[p] \in {"done", "failed"} => temp[p] = "none"

SourcesInv == Fetching!TypeOK /\ \A p \in Fetchers : TreesInHand(p) /\ CleanHands(p)

LEMMA SourcesStart == Fetching!Init => SourcesInv
BY FetchAssumption DEF Fetching!Init, SourcesInv, Fetching!TypeOK, TreesInHand, CleanHands,
    Setting, Fetching!Archives

LEMMA CurrentIsTodo ==
    ASSUME NEW p \in Fetchers, Fetching!TypeOK, todo[p] # {}
    PROVE  Fetching!Current(p) \in todo[p] /\ Fetching!Current(p) \in Fetching!Archives
BY DEF Fetching!TypeOK, Fetching!Current, Fetching!Archives

\* A step of one process leaves the others alone.
LEMMA OthersKeepTrees ==
    ASSUME SourcesInv, NEW p \in Fetchers, UNCHANGED given,
           \A q \in Fetchers \ {p} :
               /\ pc'[q] = pc[q] /\ todo'[q] = todo[q] /\ got'[q] = got[q]
               /\ temp'[q] = temp[q] /\ fetched'[q] = fetched[q],
           TreesInHand(p)', CleanHands(p)'
    PROVE  \A q \in Fetchers : TreesInHand(q)' /\ CleanHands(q)'
<1> SUFFICES ASSUME NEW q \in Fetchers \ {p} PROVE TreesInHand(q)' /\ CleanHands(q)'
  OBVIOUS
<1>1. TreesInHand(q) /\ CleanHands(q)
  BY DEF SourcesInv
<1> QED
  BY <1>1 DEF TreesInHand, CleanHands, Fetching!GivenAreValid

LEMMA SourcesKeep == SourcesInv /\ [Fetching!Next]_(Fetching!vars) => SourcesInv'
<1> SUFFICES ASSUME SourcesInv, [Fetching!Next]_(Fetching!vars) PROVE SourcesInv'
  OBVIOUS
<1>1. ASSUME NEW p \in Fetchers, Fetching!CheckGiven(p) PROVE SourcesInv'
  <2>1. Fetching!TypeOK'
    <3>1. pc' \in [Fetchers -> {"check", "next", "look", "download", "extract", "rename",
                     "verify", "cleanup", "done", "failed", "crashed"}]
      BY <1>1 DEF SourcesInv, Fetching!TypeOK, Fetching!CheckGiven, Fetching!Goto
    <3>2. /\ given' \in [Fetchers -> [Fetching!Archives -> {"none", "valid", "invalid"}]]
          /\ cache' \in [Fetching!Archives -> {"absent", "partial", "whole", "modified"}]
          /\ temp' \in [Fetchers -> {"none", "empty", "archive", "tree"}]
          /\ fetched' \in [Fetchers -> SUBSET Fetching!Archives]
      BY <1>1 DEF SourcesInv, Fetching!TypeOK, Fetching!CheckGiven, Fetching!Goto
    <3>3. /\ todo' \in [Fetchers -> SUBSET Fetching!Archives]
          /\ got' \in [Fetchers -> [Fetching!Archives -> {"none", "whole", "modified"}]]
      <4>1. {a \in Fetching!Archives : given[p][a] # "valid"} \in SUBSET Fetching!Archives
        BY DEF SourcesInv, Fetching!TypeOK
      <4>2. \/ todo' = todo
            \/ todo' = [todo EXCEPT ![p] = {a \in Fetching!Archives : given[p][a] # "valid"}]
        BY <1>1 DEF Fetching!CheckGiven
      <4> QED
        BY <1>1, <4>1, <4>2, SMTT(30) DEF SourcesInv, Fetching!TypeOK, Fetching!CheckGiven
    <3>4. \A q \in Fetchers : pc'[q] \in {"check", "next", "look"} => temp'[q] = "none"
      BY <1>1 DEF SourcesInv, Fetching!TypeOK, Fetching!CheckGiven, Fetching!Goto
    <3> QED
      BY <3>1, <3>2, <3>3, <3>4 DEF Fetching!TypeOK
  <2>2. /\ UNCHANGED given
        /\ \A q \in Fetchers \ {p} :
               /\ pc'[q] = pc[q] /\ todo'[q] = todo[q] /\ got'[q] = got[q]
               /\ temp'[q] = temp[q] /\ fetched'[q] = fetched[q]
    BY <1>1 DEF SourcesInv, Fetching!TypeOK, Fetching!CheckGiven, Fetching!Goto
  <2>3. TreesInHand(p)'
    BY <1>1 DEF SourcesInv, Fetching!TypeOK, TreesInHand, Setting,
        Fetching!GivenAreValid, Fetching!CheckGiven, Fetching!Goto
  <2>4. CleanHands(p)'
    BY <1>1 DEF SourcesInv, Fetching!TypeOK, CleanHands, Fetching!CheckGiven, Fetching!Goto
  <2> QED
    BY <2>1, <2>2, <2>3, <2>4, OthersKeepTrees DEF SourcesInv
<1>2. ASSUME NEW p \in Fetchers, Fetching!NextArchive(p) PROVE SourcesInv'
  <2>1. Fetching!TypeOK'
    BY <1>2 DEF SourcesInv, Fetching!TypeOK, TreesInHand, Setting, Fetching!NextArchive, Fetching!Goto
  <2>2. /\ UNCHANGED given
        /\ \A q \in Fetchers \ {p} :
               /\ pc'[q] = pc[q] /\ todo'[q] = todo[q] /\ got'[q] = got[q]
               /\ temp'[q] = temp[q] /\ fetched'[q] = fetched[q]
    BY <1>2 DEF SourcesInv, Fetching!TypeOK, Fetching!NextArchive, Fetching!Goto
  <2>3. TreesInHand(p)'
    BY <1>2 DEF SourcesInv, Fetching!TypeOK, TreesInHand, Setting,
        Fetching!GivenAreValid, Fetching!NextArchive, Fetching!Goto
  <2>4. CleanHands(p)'
    BY <1>2 DEF SourcesInv, Fetching!TypeOK, CleanHands, Fetching!NextArchive, Fetching!Goto
  <2> QED
    BY <2>1, <2>2, <2>3, <2>4, OthersKeepTrees DEF SourcesInv
<1>3. ASSUME NEW p \in Fetchers, Fetching!Look(p) PROVE SourcesInv'
  <2>1. Fetching!TypeOK'
    <3>1. pc' \in [Fetchers -> {"check", "next", "look", "download", "extract", "rename",
                     "verify", "cleanup", "done", "failed", "crashed"}]
      BY <1>3 DEF SourcesInv, Fetching!TypeOK, Fetching!Look, Fetching!Goto
    <3>2. /\ given' \in [Fetchers -> [Fetching!Archives -> {"none", "valid", "invalid"}]]
          /\ cache' \in [Fetching!Archives -> {"absent", "partial", "whole", "modified"}]
          /\ temp' \in [Fetchers -> {"none", "empty", "archive", "tree"}]
          /\ fetched' \in [Fetchers -> SUBSET Fetching!Archives]
      BY <1>3 DEF SourcesInv, Fetching!TypeOK, Fetching!Look, Fetching!Goto
    <3>3. /\ todo' \in [Fetchers -> SUBSET Fetching!Archives]
          /\ got' \in [Fetchers -> [Fetching!Archives -> {"none", "whole", "modified"}]]
      BY <1>3 DEF SourcesInv, Fetching!TypeOK, Fetching!Look, Fetching!Goto
    <3>4. \A q \in Fetchers : pc'[q] \in {"check", "next", "look"} => temp'[q] = "none"
      BY <1>3 DEF SourcesInv, Fetching!TypeOK, Fetching!Look, Fetching!Goto
    <3> QED
      BY <3>1, <3>2, <3>3, <3>4 DEF Fetching!TypeOK
  <2>2. /\ UNCHANGED given
        /\ \A q \in Fetchers \ {p} :
               /\ pc'[q] = pc[q] /\ todo'[q] = todo[q] /\ got'[q] = got[q]
               /\ temp'[q] = temp[q] /\ fetched'[q] = fetched[q]
    BY <1>3 DEF SourcesInv, Fetching!TypeOK, Fetching!Look, Fetching!Goto
  <2>3. TreesInHand(p)'
    BY <1>3 DEF SourcesInv, Fetching!TypeOK, TreesInHand, Setting,
        Fetching!GivenAreValid, Fetching!Look, Fetching!Goto
  <2>4. CleanHands(p)'
    BY <1>3 DEF SourcesInv, Fetching!TypeOK, CleanHands, Fetching!Look, Fetching!Goto
  <2> QED
    BY <2>1, <2>2, <2>3, <2>4, OthersKeepTrees DEF SourcesInv
<1>4. ASSUME NEW p \in Fetchers, Fetching!Download(p) PROVE SourcesInv'
  <2>1. Fetching!TypeOK'
    <3>1. pc' \in [Fetchers -> {"check", "next", "look", "download", "extract", "rename",
                     "verify", "cleanup", "done", "failed", "crashed"}]
      BY <1>4 DEF SourcesInv, Fetching!TypeOK, Fetching!Download, Fetching!Goto
    <3>2. /\ given' \in [Fetchers -> [Fetching!Archives -> {"none", "valid", "invalid"}]]
          /\ cache' \in [Fetching!Archives -> {"absent", "partial", "whole", "modified"}]
          /\ temp' \in [Fetchers -> {"none", "empty", "archive", "tree"}]
          /\ fetched' \in [Fetchers -> SUBSET Fetching!Archives]
      <4>1. fetched[p] \cup {Fetching!Current(p)} \in SUBSET Fetching!Archives
        BY <1>4, CurrentIsTodo DEF SourcesInv, Fetching!TypeOK, TreesInHand, Setting,
            Fetching!Download
      <4>2. \/ fetched' = fetched
            \/ fetched' = [fetched EXCEPT ![p] = fetched[p] \cup {Fetching!Current(p)}]
        BY <1>4 DEF Fetching!Download
      <4>3. fetched' \in [Fetchers -> SUBSET Fetching!Archives]
        BY <4>1, <4>2 DEF SourcesInv, Fetching!TypeOK
      <4> QED
        BY <1>4, <4>3 DEF SourcesInv, Fetching!TypeOK, Fetching!Download
    <3>3. /\ todo' \in [Fetchers -> SUBSET Fetching!Archives]
          /\ got' \in [Fetchers -> [Fetching!Archives -> {"none", "whole", "modified"}]]
      BY <1>4 DEF SourcesInv, Fetching!TypeOK, Fetching!Download, Fetching!Goto
    <3>4. \A q \in Fetchers : pc'[q] \in {"check", "next", "look"} => temp'[q] = "none"
      BY <1>4 DEF SourcesInv, Fetching!TypeOK, Fetching!Download, Fetching!Goto
    <3> QED
      BY <3>1, <3>2, <3>3, <3>4 DEF Fetching!TypeOK
  <2>2. /\ UNCHANGED given
        /\ \A q \in Fetchers \ {p} :
               /\ pc'[q] = pc[q] /\ todo'[q] = todo[q] /\ got'[q] = got[q]
               /\ temp'[q] = temp[q] /\ fetched'[q] = fetched[q]
    BY <1>4 DEF SourcesInv, Fetching!TypeOK, Fetching!Download, Fetching!Goto
  <2>3. TreesInHand(p)'
    BY <1>4, CurrentIsTodo DEF SourcesInv, Fetching!TypeOK, TreesInHand, Setting,
        Fetching!GivenAreValid, Fetching!Download, Fetching!Goto
  <2>4. CleanHands(p)'
    BY <1>4, CurrentIsTodo DEF SourcesInv, Fetching!TypeOK, TreesInHand, Setting, Fetching!GivenAreValid,
        CleanHands, Fetching!Download, Fetching!Goto
  <2> QED
    BY <2>1, <2>2, <2>3, <2>4, OthersKeepTrees DEF SourcesInv
<1>5. ASSUME NEW p \in Fetchers, Fetching!Extract(p) PROVE SourcesInv'
  <2>1. Fetching!TypeOK'
    <3>1. pc' \in [Fetchers -> {"check", "next", "look", "download", "extract", "rename",
                     "verify", "cleanup", "done", "failed", "crashed"}]
      BY <1>5 DEF SourcesInv, Fetching!TypeOK, Fetching!Extract, Fetching!Goto
    <3>2. /\ given' \in [Fetchers -> [Fetching!Archives -> {"none", "valid", "invalid"}]]
          /\ cache' \in [Fetching!Archives -> {"absent", "partial", "whole", "modified"}]
          /\ temp' \in [Fetchers -> {"none", "empty", "archive", "tree"}]
          /\ fetched' \in [Fetchers -> SUBSET Fetching!Archives]
      BY <1>5 DEF SourcesInv, Fetching!TypeOK, Fetching!Extract, Fetching!Goto
    <3>3. /\ todo' \in [Fetchers -> SUBSET Fetching!Archives]
          /\ got' \in [Fetchers -> [Fetching!Archives -> {"none", "whole", "modified"}]]
      BY <1>5 DEF SourcesInv, Fetching!TypeOK, Fetching!Extract, Fetching!Goto
    <3>4. \A q \in Fetchers : pc'[q] \in {"check", "next", "look"} => temp'[q] = "none"
      BY <1>5 DEF SourcesInv, Fetching!TypeOK, Fetching!Extract, Fetching!Goto
    <3> QED
      BY <3>1, <3>2, <3>3, <3>4 DEF Fetching!TypeOK
  <2>2. /\ UNCHANGED given
        /\ \A q \in Fetchers \ {p} :
               /\ pc'[q] = pc[q] /\ todo'[q] = todo[q] /\ got'[q] = got[q]
               /\ temp'[q] = temp[q] /\ fetched'[q] = fetched[q]
    BY <1>5 DEF SourcesInv, Fetching!TypeOK, Fetching!Extract, Fetching!Goto
  <2>3. TreesInHand(p)'
    BY <1>5 DEF SourcesInv, Fetching!TypeOK, TreesInHand, Setting,
        Fetching!GivenAreValid, Fetching!Extract, Fetching!Goto
  <2>4. CleanHands(p)'
    BY <1>5 DEF SourcesInv, Fetching!TypeOK, CleanHands, Fetching!Extract, Fetching!Goto
  <2> QED
    BY <2>1, <2>2, <2>3, <2>4, OthersKeepTrees DEF SourcesInv
<1>6. ASSUME NEW p \in Fetchers, Fetching!Rename(p) PROVE SourcesInv'
  <2>1. Fetching!TypeOK'
    <3>1. Fetching!TypeOK /\ todo[p] # {}
      BY <1>6 DEF SourcesInv, TreesInHand, Setting, Fetching!Rename
    <3>2. Fetching!Current(p) \in Fetching!Archives
      BY <3>1, CurrentIsTodo
    <3>3. cache' \in [Fetching!Archives -> {"absent", "partial", "whole", "modified"}]
      BY <1>6, <3>1, <3>2 DEF Fetching!TypeOK, Fetching!Rename
    <3>4. temp' \in [Fetchers -> {"none", "empty", "archive", "tree"}]
      BY <1>6, <3>1 DEF Fetching!TypeOK, Fetching!Rename
    <3>5. /\ pc' \in [Fetchers -> {"check", "next", "look", "download", "extract", "rename",
                                  "verify", "cleanup", "done", "failed", "crashed"}]
          /\ \A q \in Fetchers : pc'[q] \in {"check", "next", "look"} => temp'[q] = "none"
      BY <1>6, <3>1 DEF Fetching!TypeOK, Fetching!Rename, Fetching!Goto
    <3> QED
      BY <1>6, <3>1, <3>3, <3>4, <3>5 DEF Fetching!TypeOK, Fetching!Rename
  <2>2. /\ UNCHANGED given
        /\ \A q \in Fetchers \ {p} :
               /\ pc'[q] = pc[q] /\ todo'[q] = todo[q] /\ got'[q] = got[q]
               /\ temp'[q] = temp[q] /\ fetched'[q] = fetched[q]
    BY <1>6 DEF SourcesInv, Fetching!TypeOK, Fetching!Rename, Fetching!Goto
  <2>3. TreesInHand(p)'
    BY <1>6, CurrentIsTodo DEF SourcesInv, Fetching!TypeOK, TreesInHand, Setting,
        Fetching!GivenAreValid, Fetching!Rename, Fetching!Goto
  <2>4. CleanHands(p)'
    BY <1>6, CurrentIsTodo DEF SourcesInv, Fetching!TypeOK, CleanHands, Fetching!Rename, Fetching!Goto
  <2> QED
    BY <2>1, <2>2, <2>3, <2>4, OthersKeepTrees DEF SourcesInv
<1>7. ASSUME NEW p \in Fetchers, Fetching!Verify(p) PROVE SourcesInv'
  <2>1. Fetching!TypeOK'
    BY <1>7, CurrentIsTodo DEF SourcesInv, Fetching!TypeOK, TreesInHand, Setting, Fetching!Verify, Fetching!Goto, Fetching!Verified
  <2>2. /\ UNCHANGED given
        /\ \A q \in Fetchers \ {p} :
               /\ pc'[q] = pc[q] /\ todo'[q] = todo[q] /\ got'[q] = got[q]
               /\ temp'[q] = temp[q] /\ fetched'[q] = fetched[q]
    BY <1>7 DEF SourcesInv, Fetching!TypeOK, Fetching!Verify, Fetching!Goto, Fetching!Verified
  <2>3. TreesInHand(p)'
    BY <1>7, CurrentIsTodo DEF SourcesInv, Fetching!TypeOK, TreesInHand, Setting,
        Fetching!GivenAreValid, Fetching!Verify, Fetching!Goto, Fetching!Verified
  <2>4. CleanHands(p)'
    BY <1>7, CurrentIsTodo DEF SourcesInv, Fetching!TypeOK, CleanHands, Fetching!Verify, Fetching!Goto, Fetching!Verified
  <2> QED
    BY <2>1, <2>2, <2>3, <2>4, OthersKeepTrees DEF SourcesInv
<1>8. ASSUME NEW p \in Fetchers, Fetching!Cleanup(p) PROVE SourcesInv'
  <2>1. Fetching!TypeOK'
    <3>1. pc' \in [Fetchers -> {"check", "next", "look", "download", "extract", "rename",
                     "verify", "cleanup", "done", "failed", "crashed"}]
      BY <1>8 DEF SourcesInv, Fetching!TypeOK, Fetching!Cleanup, Fetching!Goto, Fetching!AfterCleanup
    <3>2. /\ given' \in [Fetchers -> [Fetching!Archives -> {"none", "valid", "invalid"}]]
          /\ cache' \in [Fetching!Archives -> {"absent", "partial", "whole", "modified"}]
          /\ temp' \in [Fetchers -> {"none", "empty", "archive", "tree"}]
          /\ fetched' \in [Fetchers -> SUBSET Fetching!Archives]
      BY <1>8 DEF SourcesInv, Fetching!TypeOK, Fetching!Cleanup, Fetching!Goto, Fetching!AfterCleanup
    <3>3. /\ todo' \in [Fetchers -> SUBSET Fetching!Archives]
          /\ got' \in [Fetchers -> [Fetching!Archives -> {"none", "whole", "modified"}]]
      <4>1. todo[p] \ {Fetching!Current(p)} \in SUBSET Fetching!Archives
        BY DEF SourcesInv, Fetching!TypeOK
      <4>2. \/ todo' = todo
            \/ todo' = [todo EXCEPT ![p] = todo[p] \ {Fetching!Current(p)}]
        BY <1>8 DEF Fetching!Cleanup
      <4> QED
        BY <1>8, <4>1, <4>2 DEF SourcesInv, Fetching!TypeOK, Fetching!Cleanup
    <3>4. \A q \in Fetchers : pc'[q] \in {"check", "next", "look"} => temp'[q] = "none"
      BY <1>8 DEF SourcesInv, Fetching!TypeOK, Fetching!Cleanup, Fetching!Goto, Fetching!AfterCleanup
    <3> QED
      BY <3>1, <3>2, <3>3, <3>4 DEF Fetching!TypeOK
  <2>2. /\ UNCHANGED given
        /\ \A q \in Fetchers \ {p} :
               /\ pc'[q] = pc[q] /\ todo'[q] = todo[q] /\ got'[q] = got[q]
               /\ temp'[q] = temp[q] /\ fetched'[q] = fetched[q]
    BY <1>8 DEF SourcesInv, Fetching!TypeOK, Fetching!Cleanup, Fetching!Goto, Fetching!AfterCleanup
  <2>3. TreesInHand(p)'
    BY <1>8, CurrentIsTodo DEF SourcesInv, Fetching!TypeOK, TreesInHand, Setting,
        Fetching!GivenAreValid, Fetching!Cleanup, Fetching!Goto, Fetching!AfterCleanup
  <2>4. CleanHands(p)'
    BY <1>8, CurrentIsTodo DEF SourcesInv, Fetching!TypeOK, CleanHands, Fetching!Cleanup, Fetching!Goto, Fetching!AfterCleanup
  <2> QED
    BY <2>1, <2>2, <2>3, <2>4, OthersKeepTrees DEF SourcesInv
<1>9. ASSUME NEW p \in Fetchers, Fetching!Crash(p) PROVE SourcesInv'
  <2>1. Fetching!TypeOK'
    BY <1>9 DEF SourcesInv, Fetching!TypeOK, TreesInHand, Setting, Fetching!Crash, Fetching!Goto
  <2>2. /\ UNCHANGED given
        /\ \A q \in Fetchers \ {p} :
               /\ pc'[q] = pc[q] /\ todo'[q] = todo[q] /\ got'[q] = got[q]
               /\ temp'[q] = temp[q] /\ fetched'[q] = fetched[q]
    BY <1>9 DEF SourcesInv, Fetching!TypeOK, Fetching!Crash, Fetching!Goto
  <2>3. TreesInHand(p)'
    BY <1>9 DEF SourcesInv, Fetching!TypeOK, TreesInHand, Setting,
        Fetching!GivenAreValid, Fetching!Crash, Fetching!Goto
  <2>4. CleanHands(p)'
    BY <1>9 DEF SourcesInv, Fetching!TypeOK, CleanHands, Fetching!Crash, Fetching!Goto
  <2> QED
    BY <2>1, <2>2, <2>3, <2>4, OthersKeepTrees DEF SourcesInv
<1>10. ASSUME NEW a \in Fetching!Archives, Fetching!Tamper(a) PROVE SourcesInv'
  BY <1>10, SMTT(30) DEF SourcesInv, Fetching!TypeOK, TreesInHand, CleanHands, Fetching!GivenAreValid,
      Fetching!Tamper
<1>11. CASE UNCHANGED Fetching!vars
  BY <1>11 DEF SourcesInv, Fetching!TypeOK, TreesInHand, CleanHands, Fetching!GivenAreValid,
      Fetching!vars
<1> QED
  BY <1>1, <1>2, <1>3, <1>4, <1>5, <1>6, <1>7, <1>8, <1>9, <1>10, <1>11 DEF Fetching!Next

\* Trees a search is built from are whole, and were verified or given as they are;
\* nothing temporary is left, and nothing fetched in vain (sources.py:112-188).
THEOREM TreesVerified == Spec => []OnlyVerifiedTrees
<1> DEFINE Here == part = "sources" => SourcesInv
<1>1. Init => Here
  BY SourcesStart DEF Init
<1>2. Here /\ [Next]_allVars => Here'
  <2> SUFFICES ASSUME Here, [Next]_allVars, part' = "sources" PROVE SourcesInv'
    OBVIOUS
  <2>1. ASSUME FetchSources PROVE SourcesInv'
    BY <2>1, SourcesKeep DEF FetchSources
  <2>2. ASSUME CallStep \/ RouteStep \/ BuildRunner \/ FreezeModel \/ PublishResults \/ FitFrontier
        PROVE  FALSE
    BY <2>2 DEF CallStep, RouteStep, BuildRunner, FreezeModel, PublishResults, FitFrontier
  <2>3. CASE UNCHANGED allVars
    <3>1. UNCHANGED Fetching!vars /\ part = "sources"
      BY <2>3 DEF allVars, sourceVars, Fetching!vars
    <3> QED
      BY <3>1, SourcesKeep
  <2> QED
    BY <2>1, <2>2, <2>3 DEF Next
<1>3. Here => OnlyVerifiedTrees
  <2> SUFFICES ASSUME SourcesInv PROVE OnlyVerifiedTrees
    BY DEF OnlyVerifiedTrees
  <2>1. Fetching!OnlyVerifiedTrees
    BY DEF SourcesInv, TreesInHand, Setting, Fetching!OnlyVerifiedTrees
  <2>2. Fetching!NoTemporaryLeft /\ Fetching!NothingFetchedInVain
    BY DEF SourcesInv, CleanHands, Fetching!NoTemporaryLeft, Fetching!NothingFetchedInVain
  <2> QED
    BY <2>1, <2>2 DEF SourcesInv, OnlyVerifiedTrees
<1> QED
  BY <1>1, <1>2, <1>3, PTL DEF Spec

-----------------------------------------------------------------------------
(* Built runners.                                                           *)

\* Those that have a key, those that write into its directory, those that still
\* look for a runner, and those that were given one.
Keyed == {"cached", "validate", "lock", "configure", "link", "check", "publish", "verify",
          "unlock", "copy", "hash", "library", "running"}
Locked == {"configure", "link", "check", "publish", "verify", "unlock"}
Looking == {"tools", "digest", "cached", "validate", "lock", "configure", "link", "check",
            "publish", "verify"}
Given == {"copy", "hash", "library", "running"}

\* A key names contents the sources have or had.
KeyIsPast(p) ==
    /\ pc[p] \in Keyed => key[p] \in Building!Versions
    /\ key[p] \in Building!Versions =>
         key[p].source <= source.source /\ key[p].nccl <= source.nccl

\* A process forgets what it was given before it looks again; what it was given
\* was built from what its key names, and what it runs is what it was given.
RunnerOfKey(p) ==
    /\ pc[p] \in Looking => expected[p] = Building!Absent /\ snapshot[p] = Building!Absent
    /\ expected[p] # Building!Absent => expected[p].from = key[p]
    /\ pc[p] \in Given => expected[p] # Building!Absent
    /\ pc[p] \in {"library", "running"} => snapshot[p] = expected[p]
    /\ pc[p] = "running" => library[p] = key[p].nccl

HoldsLock(p) == pc[p] \in Locked => lock[key[p]] = p

\* What is about to be described is whole; if it is not, the sources have moved
\* on, and the digest that is taken again will tell.
LinkedWhole(p) ==
    /\ pc[p] = "check" => runner[key[p]].from = key[p] \/ source # key[p]
    /\ pc[p] = "publish" => runner[key[p]].from = key[p]

BuildInv ==
    /\ Building!TypeOK /\ Building!MetadataOfWholeBuilds
    /\ \A p \in Builders : KeyIsPast(p) /\ RunnerOfKey(p) /\ HoldsLock(p) /\ LinkedWhole(p)

LEMMA BuildStart == Building!Init => BuildInv
<1> SUFFICES ASSUME Building!Init PROVE BuildInv
  OBVIOUS
<1>1. Building!Torn \notin Building!Versions /\ [source |-> 0, nccl |-> 0] \in Building!Versions
  BY BuildsAssumption DEF Building!BuildAssumption, Building!Torn, Building!Versions
<1>2. Building!TypeOK
  BY <1>1, BuildsAssumption DEF Building!Init, Building!TypeOK, Building!BuildAssumption,
      Building!NoVersion
<1> QED
  BY <1>1, <1>2 DEF Building!Init, BuildInv, Building!MetadataOfWholeBuilds, KeyIsPast, RunnerOfKey,
      HoldsLock, LinkedWhole, Keyed, Looking, Given, Locked, Building!NoVersion

\* A process that does not move keeps what concerns it alone, and while it holds the
\* lock of its key nobody else writes there.
LEMMA OthersKeepRunner ==
    ASSUME BuildInv, NEW p \in Builders, UNCHANGED source,
           \A q \in Builders \ {p} :
               /\ pc'[q] = pc[q] /\ key'[q] = key[q] /\ expected'[q] = expected[q]
               /\ snapshot'[q] = snapshot[q] /\ library'[q] = library[q],
           \A v \in Building!Versions :
               lock[v] \in Builders \ {p} => lock'[v] = lock[v] /\ runner'[v] = runner[v],
           KeyIsPast(p)', RunnerOfKey(p)', HoldsLock(p)', LinkedWhole(p)'
    PROVE  \A q \in Builders :
               KeyIsPast(q)' /\ RunnerOfKey(q)' /\ HoldsLock(q)' /\ LinkedWhole(q)'
<1> SUFFICES ASSUME NEW q \in Builders \ {p}
             PROVE  KeyIsPast(q)' /\ RunnerOfKey(q)' /\ HoldsLock(q)' /\ LinkedWhole(q)'
  OBVIOUS
<1>0. KeyIsPast(q) /\ RunnerOfKey(q) /\ HoldsLock(q) /\ LinkedWhole(q)
  BY DEF BuildInv
<1>1. KeyIsPast(q)' /\ RunnerOfKey(q)'
  BY <1>0 DEF KeyIsPast, RunnerOfKey
<1>2. pc[q] \in Locked => lock'[key[q]] = q /\ runner'[key[q]] = runner[key[q]]
  BY <1>0 DEF KeyIsPast, HoldsLock, Locked, Keyed
<1> QED
  BY <1>0, <1>1, <1>2 DEF HoldsLock, LinkedWhole, Locked

LEMMA BuildKeep == BuildInv /\ [Building!Next]_(Building!vars) => BuildInv'
<1> SUFFICES ASSUME BuildInv, [Building!Next]_(Building!vars) PROVE BuildInv'
  OBVIOUS
<1>0. Building!Torn \notin Building!Versions /\ Building!Absent.from = Building!Torn
  BY BuildsAssumption DEF Building!BuildAssumption, Building!Torn, Building!Versions, Building!Absent
<1>1. ASSUME NEW p \in Builders, Building!FindTools(p) PROVE BuildInv'
  <2>0. Building!TypeOK /\ KeyIsPast(p) /\ RunnerOfKey(p) /\ HoldsLock(p) /\ LinkedWhole(p)
    BY DEF BuildInv
  <2>1. Building!TypeOK'
    BY <1>1, <2>0, BuildsAssumption DEF Building!TypeOK, KeyIsPast, RunnerOfKey, Keyed, Looking, Building!FindTools, Building!Goto
  <2>2. /\ UNCHANGED source
        /\ \A q \in Builders \ {p} :
               /\ pc'[q] = pc[q] /\ key'[q] = key[q] /\ expected'[q] = expected[q]
               /\ snapshot'[q] = snapshot[q] /\ library'[q] = library[q]
    BY <1>1, <2>0 DEF Building!TypeOK, Building!FindTools, Building!Goto
  <2>3. \A v \in Building!Versions :
            lock[v] \in Builders \ {p} => lock'[v] = lock[v] /\ runner'[v] = runner[v]
    BY <1>1, <2>0 DEF Building!TypeOK, HoldsLock, Locked, Building!FindTools, Building!Goto
  <2>4. KeyIsPast(p)'
    BY <1>1, <2>0 DEF Building!TypeOK, KeyIsPast, Keyed, Building!FindTools, Building!Goto
  <2>5. RunnerOfKey(p)'
    BY <1>1, <2>0 DEF Building!TypeOK, RunnerOfKey, Looking, Given, Building!FindTools, Building!Goto
  <2>6. HoldsLock(p)'
    BY <1>1, <2>0 DEF Building!TypeOK, KeyIsPast, HoldsLock, Locked, Keyed, Building!FindTools, Building!Goto
  <2>7. LinkedWhole(p)'
    BY <1>1, <2>0 DEF Building!TypeOK, KeyIsPast, LinkedWhole, Keyed, Building!FindTools, Building!Goto
  <2>8. Building!MetadataOfWholeBuilds'
    BY <1>1, <2>0 DEF BuildInv, Building!TypeOK, Building!MetadataOfWholeBuilds, KeyIsPast, LinkedWhole,
        Keyed, Building!FindTools, Building!Goto
  <2> QED
    BY <2>1, <2>2, <2>3, <2>4, <2>5, <2>6, <2>7, <2>8, OthersKeepRunner DEF BuildInv
<1>2. ASSUME NEW p \in Builders, Building!Digest(p) PROVE BuildInv'
  <2>0. Building!TypeOK /\ KeyIsPast(p) /\ RunnerOfKey(p) /\ HoldsLock(p) /\ LinkedWhole(p)
    BY DEF BuildInv
  <2>1. Building!TypeOK'
    BY <1>2, <2>0, BuildsAssumption DEF Building!TypeOK, KeyIsPast, RunnerOfKey, Keyed, Looking, Building!Digest, Building!Goto
  <2>2. /\ UNCHANGED source
        /\ \A q \in Builders \ {p} :
               /\ pc'[q] = pc[q] /\ key'[q] = key[q] /\ expected'[q] = expected[q]
               /\ snapshot'[q] = snapshot[q] /\ library'[q] = library[q]
    BY <1>2, <2>0 DEF Building!TypeOK, Building!Digest, Building!Goto
  <2>3. \A v \in Building!Versions :
            lock[v] \in Builders \ {p} => lock'[v] = lock[v] /\ runner'[v] = runner[v]
    BY <1>2, <2>0 DEF Building!TypeOK, HoldsLock, Locked, Building!Digest, Building!Goto
  <2>4. KeyIsPast(p)'
    BY <1>2, <2>0 DEF Building!TypeOK, KeyIsPast, Keyed, Building!Digest, Building!Goto, Building!Versions
  <2>5. RunnerOfKey(p)'
    BY <1>2, <2>0 DEF Building!TypeOK, RunnerOfKey, Looking, Given, Building!Digest, Building!Goto
  <2>6. HoldsLock(p)'
    BY <1>2, <2>0 DEF Building!TypeOK, KeyIsPast, HoldsLock, Locked, Keyed, Building!Digest, Building!Goto
  <2>7. LinkedWhole(p)'
    BY <1>2, <2>0 DEF Building!TypeOK, KeyIsPast, LinkedWhole, Keyed, Building!Digest, Building!Goto
  <2>8. Building!MetadataOfWholeBuilds'
    BY <1>2, <2>0 DEF BuildInv, Building!TypeOK, Building!MetadataOfWholeBuilds, KeyIsPast, LinkedWhole,
        Keyed, Building!Digest, Building!Goto
  <2> QED
    BY <2>1, <2>2, <2>3, <2>4, <2>5, <2>6, <2>7, <2>8, OthersKeepRunner DEF BuildInv
<1>3. ASSUME NEW p \in Builders, Building!LookUp(p) PROVE BuildInv'
  <2>0. Building!TypeOK /\ KeyIsPast(p) /\ RunnerOfKey(p) /\ HoldsLock(p) /\ LinkedWhole(p)
    BY DEF BuildInv
  <2>1. Building!TypeOK'
    BY <1>3, <2>0, BuildsAssumption DEF Building!TypeOK, KeyIsPast, RunnerOfKey, Keyed, Looking, Building!LookUp, Building!Goto
  <2>2. /\ UNCHANGED source
        /\ \A q \in Builders \ {p} :
               /\ pc'[q] = pc[q] /\ key'[q] = key[q] /\ expected'[q] = expected[q]
               /\ snapshot'[q] = snapshot[q] /\ library'[q] = library[q]
    BY <1>3, <2>0 DEF Building!TypeOK, Building!LookUp, Building!Goto
  <2>3. \A v \in Building!Versions :
            lock[v] \in Builders \ {p} => lock'[v] = lock[v] /\ runner'[v] = runner[v]
    BY <1>3, <2>0 DEF Building!TypeOK, HoldsLock, Locked, Building!LookUp, Building!Goto
  <2>4. KeyIsPast(p)'
    BY <1>3, <2>0 DEF Building!TypeOK, KeyIsPast, Keyed, Building!LookUp, Building!Goto
  <2>5. RunnerOfKey(p)'
    BY <1>3, <2>0 DEF Building!TypeOK, RunnerOfKey, Looking, Given, Building!LookUp, Building!Goto
  <2>6. HoldsLock(p)'
    BY <1>3, <2>0 DEF Building!TypeOK, KeyIsPast, HoldsLock, Locked, Keyed, Building!LookUp, Building!Goto
  <2>7. LinkedWhole(p)'
    BY <1>3, <2>0 DEF Building!TypeOK, KeyIsPast, LinkedWhole, Keyed, Building!LookUp, Building!Goto
  <2>8. Building!MetadataOfWholeBuilds'
    BY <1>3, <2>0 DEF BuildInv, Building!TypeOK, Building!MetadataOfWholeBuilds, KeyIsPast, LinkedWhole,
        Keyed, Building!LookUp, Building!Goto
  <2> QED
    BY <2>1, <2>2, <2>3, <2>4, <2>5, <2>6, <2>7, <2>8, OthersKeepRunner DEF BuildInv
<1>4. ASSUME NEW p \in Builders, Building!Validate(p) PROVE BuildInv'
  <2>0. Building!TypeOK /\ KeyIsPast(p) /\ RunnerOfKey(p) /\ HoldsLock(p) /\ LinkedWhole(p)
    BY DEF BuildInv
  <2>1. Building!TypeOK'
    BY <1>4, <2>0, BuildsAssumption DEF Building!TypeOK, KeyIsPast, RunnerOfKey, Keyed, Looking, Building!Validate, Building!Goto, Building!Valid
  <2>2. /\ UNCHANGED source
        /\ \A q \in Builders \ {p} :
               /\ pc'[q] = pc[q] /\ key'[q] = key[q] /\ expected'[q] = expected[q]
               /\ snapshot'[q] = snapshot[q] /\ library'[q] = library[q]
    BY <1>4, <2>0 DEF Building!TypeOK, Building!Validate, Building!Goto, Building!Valid
  <2>3. \A v \in Building!Versions :
            lock[v] \in Builders \ {p} => lock'[v] = lock[v] /\ runner'[v] = runner[v]
    BY <1>4, <2>0 DEF Building!TypeOK, HoldsLock, Locked, Building!Validate, Building!Goto, Building!Valid
  <2>4. KeyIsPast(p)'
    BY <1>4, <2>0 DEF Building!TypeOK, KeyIsPast, Keyed, Building!Validate, Building!Goto, Building!Valid
  <2>5. RunnerOfKey(p)'
    BY <1>4, <2>0 DEF BuildInv, Building!TypeOK, Building!MetadataOfWholeBuilds, KeyIsPast, Keyed,
        RunnerOfKey, Looking, Given, Building!Validate, Building!Goto, Building!Valid
  <2>6. HoldsLock(p)'
    BY <1>4, <2>0 DEF Building!TypeOK, KeyIsPast, HoldsLock, Locked, Keyed, Building!Validate, Building!Goto, Building!Valid
  <2>7. LinkedWhole(p)'
    BY <1>4, <2>0 DEF Building!TypeOK, KeyIsPast, LinkedWhole, Keyed, Building!Validate, Building!Goto, Building!Valid
  <2>8. Building!MetadataOfWholeBuilds'
    BY <1>4, <2>0 DEF BuildInv, Building!TypeOK, Building!MetadataOfWholeBuilds, KeyIsPast, LinkedWhole,
        Keyed, Building!Validate, Building!Goto, Building!Valid
  <2> QED
    BY <2>1, <2>2, <2>3, <2>4, <2>5, <2>6, <2>7, <2>8, OthersKeepRunner DEF BuildInv
<1>5. ASSUME NEW p \in Builders, Building!Lock(p) PROVE BuildInv'
  <2>0. Building!TypeOK /\ KeyIsPast(p) /\ RunnerOfKey(p) /\ HoldsLock(p) /\ LinkedWhole(p)
    BY DEF BuildInv
  <2>1. Building!TypeOK'
    BY <1>5, <2>0, BuildsAssumption DEF Building!TypeOK, KeyIsPast, RunnerOfKey, Keyed, Looking, Building!Lock, Building!Goto, Building!MayLock
  <2>2. /\ UNCHANGED source
        /\ \A q \in Builders \ {p} :
               /\ pc'[q] = pc[q] /\ key'[q] = key[q] /\ expected'[q] = expected[q]
               /\ snapshot'[q] = snapshot[q] /\ library'[q] = library[q]
    BY <1>5, <2>0 DEF Building!TypeOK, Building!Lock, Building!Goto, Building!MayLock
  <2>3. \A v \in Building!Versions :
            lock[v] \in Builders \ {p} => lock'[v] = lock[v] /\ runner'[v] = runner[v]
    BY <1>5, <2>0, BuildsAssumption DEF Building!TypeOK, Building!BuildAssumption, Building!Lock,
        Building!Goto, Building!MayLock
  <2>4. KeyIsPast(p)'
    BY <1>5, <2>0 DEF Building!TypeOK, KeyIsPast, Keyed, Building!Lock, Building!Goto, Building!MayLock
  <2>5. RunnerOfKey(p)'
    BY <1>5, <2>0 DEF Building!TypeOK, RunnerOfKey, Looking, Given, Building!Lock, Building!Goto, Building!MayLock
  <2>6. HoldsLock(p)'
    BY <1>5, <2>0 DEF Building!TypeOK, KeyIsPast, HoldsLock, Locked, Keyed, Building!Lock, Building!Goto, Building!MayLock
  <2>7. LinkedWhole(p)'
    BY <1>5, <2>0 DEF Building!TypeOK, KeyIsPast, LinkedWhole, Keyed, Building!Lock, Building!Goto, Building!MayLock
  <2>8. Building!MetadataOfWholeBuilds'
    BY <1>5, <2>0 DEF BuildInv, Building!TypeOK, Building!MetadataOfWholeBuilds, KeyIsPast, LinkedWhole,
        Keyed, Building!Lock, Building!Goto, Building!MayLock
  <2> QED
    BY <2>1, <2>2, <2>3, <2>4, <2>5, <2>6, <2>7, <2>8, OthersKeepRunner DEF BuildInv
<1>6. ASSUME NEW p \in Builders, Building!Configure(p) PROVE BuildInv'
  <2>0. Building!TypeOK /\ KeyIsPast(p) /\ RunnerOfKey(p) /\ HoldsLock(p) /\ LinkedWhole(p)
    BY DEF BuildInv
  <2>1. Building!TypeOK'
    <3>1. /\ [by |-> p, from |-> Building!Torn] \in Building!Binaries
          /\ key[p] \in Building!Versions /\ [by |-> p, from |-> key[p]] \in Building!Binaries
      BY <1>6, <2>0 DEF KeyIsPast, Keyed, Building!Binaries, Building!Configure
    <3>2. runner' \in [Building!Versions -> Building!Binaries \cup {Building!Absent}]
      BY <1>6, <2>0, <3>1 DEF Building!TypeOK, Building!Configure
    <3>3. pc'[p] \notin {"digest", "cached", "lock"}
      BY <1>6, <2>0 DEF Building!TypeOK, Building!Configure, Building!Goto
    <3> QED
      BY <1>6, <2>0, <3>2, <3>3 DEF Building!TypeOK, Building!Configure, Building!Goto
  <2>2. /\ UNCHANGED source
        /\ \A q \in Builders \ {p} :
               /\ pc'[q] = pc[q] /\ key'[q] = key[q] /\ expected'[q] = expected[q]
               /\ snapshot'[q] = snapshot[q] /\ library'[q] = library[q]
    BY <1>6, <2>0 DEF Building!TypeOK, Building!Configure, Building!Goto
  <2>3. \A v \in Building!Versions :
            lock[v] \in Builders \ {p} => lock'[v] = lock[v] /\ runner'[v] = runner[v]
    BY <1>6, <2>0 DEF Building!TypeOK, HoldsLock, Locked, Building!Configure, Building!Goto
  <2>4. KeyIsPast(p)'
    BY <1>6, <2>0 DEF Building!TypeOK, KeyIsPast, Keyed, Building!Configure, Building!Goto
  <2>5. RunnerOfKey(p)'
    BY <1>6, <2>0 DEF Building!TypeOK, RunnerOfKey, Looking, Given, Building!Configure, Building!Goto
  <2>6. HoldsLock(p)'
    BY <1>6, <2>0 DEF Building!TypeOK, KeyIsPast, HoldsLock, Locked, Keyed, Building!Configure, Building!Goto
  <2>7. LinkedWhole(p)'
    BY <1>6, <2>0 DEF Building!TypeOK, KeyIsPast, LinkedWhole, Keyed, Building!Configure, Building!Goto
  <2>8. Building!MetadataOfWholeBuilds'
    BY <1>6, <2>0 DEF BuildInv, Building!TypeOK, Building!MetadataOfWholeBuilds, KeyIsPast, LinkedWhole,
        Keyed, Building!Configure, Building!Goto
  <2> QED
    BY <2>1, <2>2, <2>3, <2>4, <2>5, <2>6, <2>7, <2>8, OthersKeepRunner DEF BuildInv
<1>7. ASSUME NEW p \in Builders, Building!Link(p) PROVE BuildInv'
  <2>0. Building!TypeOK /\ KeyIsPast(p) /\ RunnerOfKey(p) /\ HoldsLock(p) /\ LinkedWhole(p)
    BY DEF BuildInv
  <2>1. Building!TypeOK'
    <3>1. /\ [by |-> p, from |-> Building!Torn] \in Building!Binaries
          /\ key[p] \in Building!Versions /\ [by |-> p, from |-> key[p]] \in Building!Binaries
      BY <1>7, <2>0 DEF KeyIsPast, Keyed, Building!Binaries, Building!Link
    <3>2. runner' \in [Building!Versions -> Building!Binaries \cup {Building!Absent}]
      BY <1>7, <2>0, <3>1 DEF Building!TypeOK, Building!Link
    <3>3. pc'[p] \notin {"digest", "cached", "lock"}
      BY <1>7, <2>0 DEF Building!TypeOK, Building!Link, Building!Goto
    <3> QED
      BY <1>7, <2>0, <3>2, <3>3 DEF Building!TypeOK, Building!Link, Building!Goto
  <2>2. /\ UNCHANGED source
        /\ \A q \in Builders \ {p} :
               /\ pc'[q] = pc[q] /\ key'[q] = key[q] /\ expected'[q] = expected[q]
               /\ snapshot'[q] = snapshot[q] /\ library'[q] = library[q]
    BY <1>7, <2>0 DEF Building!TypeOK, Building!Link, Building!Goto
  <2>3. \A v \in Building!Versions :
            lock[v] \in Builders \ {p} => lock'[v] = lock[v] /\ runner'[v] = runner[v]
    BY <1>7, <2>0 DEF Building!TypeOK, HoldsLock, Locked, Building!Link, Building!Goto
  <2>4. KeyIsPast(p)'
    BY <1>7, <2>0 DEF Building!TypeOK, KeyIsPast, Keyed, Building!Link, Building!Goto
  <2>5. RunnerOfKey(p)'
    BY <1>7, <2>0 DEF Building!TypeOK, RunnerOfKey, Looking, Given, Building!Link, Building!Goto
  <2>6. HoldsLock(p)'
    BY <1>7, <2>0 DEF Building!TypeOK, KeyIsPast, HoldsLock, Locked, Keyed, Building!Link, Building!Goto
  <2>7. LinkedWhole(p)'
    BY <1>7, <2>0 DEF Building!TypeOK, KeyIsPast, LinkedWhole, Keyed, Building!Link, Building!Goto
  <2>8. Building!MetadataOfWholeBuilds'
    BY <1>7, <2>0 DEF BuildInv, Building!TypeOK, Building!MetadataOfWholeBuilds, KeyIsPast, LinkedWhole,
        Keyed, Building!Link, Building!Goto
  <2> QED
    BY <2>1, <2>2, <2>3, <2>4, <2>5, <2>6, <2>7, <2>8, OthersKeepRunner DEF BuildInv
<1>8. ASSUME NEW p \in Builders, Building!CheckSource(p) PROVE BuildInv'
  <2>0. Building!TypeOK /\ KeyIsPast(p) /\ RunnerOfKey(p) /\ HoldsLock(p) /\ LinkedWhole(p)
    BY DEF BuildInv
  <2>1. Building!TypeOK'
    BY <1>8, <2>0, BuildsAssumption DEF Building!TypeOK, KeyIsPast, RunnerOfKey, Keyed, Looking, Building!CheckSource, Building!Goto, Building!BuildUnambiguous
  <2>2. /\ UNCHANGED source
        /\ \A q \in Builders \ {p} :
               /\ pc'[q] = pc[q] /\ key'[q] = key[q] /\ expected'[q] = expected[q]
               /\ snapshot'[q] = snapshot[q] /\ library'[q] = library[q]
    BY <1>8, <2>0 DEF Building!TypeOK, Building!CheckSource, Building!Goto, Building!BuildUnambiguous
  <2>3. \A v \in Building!Versions :
            lock[v] \in Builders \ {p} => lock'[v] = lock[v] /\ runner'[v] = runner[v]
    BY <1>8, <2>0 DEF Building!TypeOK, HoldsLock, Locked, Building!CheckSource, Building!Goto, Building!BuildUnambiguous
  <2>4. KeyIsPast(p)'
    BY <1>8, <2>0 DEF Building!TypeOK, KeyIsPast, Keyed, Building!CheckSource, Building!Goto, Building!BuildUnambiguous
  <2>5. RunnerOfKey(p)'
    BY <1>8, <2>0 DEF Building!TypeOK, RunnerOfKey, Looking, Given, Building!CheckSource, Building!Goto, Building!BuildUnambiguous
  <2>6. HoldsLock(p)'
    BY <1>8, <2>0 DEF Building!TypeOK, KeyIsPast, HoldsLock, Locked, Keyed, Building!CheckSource, Building!Goto, Building!BuildUnambiguous
  <2>7. LinkedWhole(p)'
    BY <1>8, <2>0 DEF Building!TypeOK, KeyIsPast, LinkedWhole, Keyed, Building!CheckSource, Building!Goto, Building!BuildUnambiguous
  <2>8. Building!MetadataOfWholeBuilds'
    BY <1>8, <2>0 DEF BuildInv, Building!TypeOK, Building!MetadataOfWholeBuilds, KeyIsPast, LinkedWhole,
        Keyed, Building!CheckSource, Building!Goto, Building!BuildUnambiguous
  <2> QED
    BY <2>1, <2>2, <2>3, <2>4, <2>5, <2>6, <2>7, <2>8, OthersKeepRunner DEF BuildInv
<1>9. ASSUME NEW p \in Builders, Building!Publish(p) PROVE BuildInv'
  <2>0. Building!TypeOK /\ KeyIsPast(p) /\ RunnerOfKey(p) /\ HoldsLock(p) /\ LinkedWhole(p)
    BY DEF BuildInv
  <2>1. Building!TypeOK'
    BY <1>9, <2>0, BuildsAssumption DEF Building!TypeOK, KeyIsPast, RunnerOfKey, Keyed, Looking, Building!Publish, Building!Goto
  <2>2. /\ UNCHANGED source
        /\ \A q \in Builders \ {p} :
               /\ pc'[q] = pc[q] /\ key'[q] = key[q] /\ expected'[q] = expected[q]
               /\ snapshot'[q] = snapshot[q] /\ library'[q] = library[q]
    BY <1>9, <2>0 DEF Building!TypeOK, Building!Publish, Building!Goto
  <2>3. \A v \in Building!Versions :
            lock[v] \in Builders \ {p} => lock'[v] = lock[v] /\ runner'[v] = runner[v]
    BY <1>9, <2>0 DEF Building!TypeOK, HoldsLock, Locked, Building!Publish, Building!Goto
  <2>4. KeyIsPast(p)'
    BY <1>9, <2>0 DEF Building!TypeOK, KeyIsPast, Keyed, Building!Publish, Building!Goto
  <2>5. RunnerOfKey(p)'
    BY <1>9, <2>0 DEF Building!TypeOK, RunnerOfKey, Looking, Given, Building!Publish, Building!Goto
  <2>6. HoldsLock(p)'
    BY <1>9, <2>0 DEF Building!TypeOK, KeyIsPast, HoldsLock, Locked, Keyed, Building!Publish, Building!Goto
  <2>7. LinkedWhole(p)'
    BY <1>9, <2>0 DEF Building!TypeOK, KeyIsPast, LinkedWhole, Keyed, Building!Publish, Building!Goto
  <2>8. Building!MetadataOfWholeBuilds'
    BY <1>9, <2>0 DEF BuildInv, Building!TypeOK, Building!MetadataOfWholeBuilds, KeyIsPast, LinkedWhole,
        Keyed, Building!Publish, Building!Goto
  <2> QED
    BY <2>1, <2>2, <2>3, <2>4, <2>5, <2>6, <2>7, <2>8, OthersKeepRunner DEF BuildInv
<1>10. ASSUME NEW p \in Builders, Building!VerifyBuilt(p) PROVE BuildInv'
  <2>0. Building!TypeOK /\ KeyIsPast(p) /\ RunnerOfKey(p) /\ HoldsLock(p) /\ LinkedWhole(p)
    BY DEF BuildInv
  <2>1. Building!TypeOK'
    BY <1>10, <2>0, BuildsAssumption DEF Building!TypeOK, KeyIsPast, RunnerOfKey, Keyed, Looking, Building!VerifyBuilt, Building!Goto, Building!Valid
  <2>2. /\ UNCHANGED source
        /\ \A q \in Builders \ {p} :
               /\ pc'[q] = pc[q] /\ key'[q] = key[q] /\ expected'[q] = expected[q]
               /\ snapshot'[q] = snapshot[q] /\ library'[q] = library[q]
    BY <1>10, <2>0 DEF Building!TypeOK, Building!VerifyBuilt, Building!Goto, Building!Valid
  <2>3. \A v \in Building!Versions :
            lock[v] \in Builders \ {p} => lock'[v] = lock[v] /\ runner'[v] = runner[v]
    BY <1>10, <2>0 DEF Building!TypeOK, HoldsLock, Locked, Building!VerifyBuilt, Building!Goto, Building!Valid
  <2>4. KeyIsPast(p)'
    BY <1>10, <2>0 DEF Building!TypeOK, KeyIsPast, Keyed, Building!VerifyBuilt, Building!Goto, Building!Valid
  <2>5. RunnerOfKey(p)'
    BY <1>10, <2>0 DEF BuildInv, Building!TypeOK, Building!MetadataOfWholeBuilds, KeyIsPast, Keyed,
        RunnerOfKey, Looking, Given, Building!VerifyBuilt, Building!Goto, Building!Valid
  <2>6. HoldsLock(p)'
    BY <1>10, <2>0 DEF Building!TypeOK, KeyIsPast, HoldsLock, Locked, Keyed, Building!VerifyBuilt, Building!Goto, Building!Valid
  <2>7. LinkedWhole(p)'
    BY <1>10, <2>0 DEF Building!TypeOK, KeyIsPast, LinkedWhole, Keyed, Building!VerifyBuilt, Building!Goto, Building!Valid
  <2>8. Building!MetadataOfWholeBuilds'
    BY <1>10, <2>0 DEF BuildInv, Building!TypeOK, Building!MetadataOfWholeBuilds, KeyIsPast, LinkedWhole,
        Keyed, Building!VerifyBuilt, Building!Goto, Building!Valid
  <2> QED
    BY <2>1, <2>2, <2>3, <2>4, <2>5, <2>6, <2>7, <2>8, OthersKeepRunner DEF BuildInv
<1>11. ASSUME NEW p \in Builders, Building!Unlock(p) PROVE BuildInv'
  <2>0. Building!TypeOK /\ KeyIsPast(p) /\ RunnerOfKey(p) /\ HoldsLock(p) /\ LinkedWhole(p)
    BY DEF BuildInv
  <2>1. Building!TypeOK'
    BY <1>11, <2>0, BuildsAssumption DEF Building!TypeOK, KeyIsPast, RunnerOfKey, Keyed, Looking, Building!Unlock, Building!Goto, Building!Released
  <2>2. /\ UNCHANGED source
        /\ \A q \in Builders \ {p} :
               /\ pc'[q] = pc[q] /\ key'[q] = key[q] /\ expected'[q] = expected[q]
               /\ snapshot'[q] = snapshot[q] /\ library'[q] = library[q]
    BY <1>11, <2>0 DEF Building!TypeOK, Building!Unlock, Building!Goto, Building!Released
  <2>3. \A v \in Building!Versions :
            lock[v] \in Builders \ {p} => lock'[v] = lock[v] /\ runner'[v] = runner[v]
    BY <1>11, <2>0 DEF Building!TypeOK, HoldsLock, Locked, Building!Unlock, Building!Goto, Building!Released
  <2>4. KeyIsPast(p)'
    BY <1>11, <2>0 DEF Building!TypeOK, KeyIsPast, Keyed, Building!Unlock, Building!Goto, Building!Released
  <2>5. RunnerOfKey(p)'
    BY <1>11, <2>0 DEF Building!TypeOK, RunnerOfKey, Looking, Given, Building!Unlock, Building!Goto, Building!Released
  <2>6. HoldsLock(p)'
    BY <1>11, <2>0 DEF Building!TypeOK, KeyIsPast, HoldsLock, Locked, Keyed, Building!Unlock, Building!Goto, Building!Released
  <2>7. LinkedWhole(p)'
    BY <1>11, <2>0 DEF Building!TypeOK, KeyIsPast, LinkedWhole, Keyed, Building!Unlock, Building!Goto, Building!Released
  <2>8. Building!MetadataOfWholeBuilds'
    BY <1>11, <2>0 DEF BuildInv, Building!TypeOK, Building!MetadataOfWholeBuilds, KeyIsPast, LinkedWhole,
        Keyed, Building!Unlock, Building!Goto, Building!Released
  <2> QED
    BY <2>1, <2>2, <2>3, <2>4, <2>5, <2>6, <2>7, <2>8, OthersKeepRunner DEF BuildInv
<1>12. ASSUME NEW p \in Builders, Building!CopyRunner(p) PROVE BuildInv'
  <2>0. Building!TypeOK /\ KeyIsPast(p) /\ RunnerOfKey(p) /\ HoldsLock(p) /\ LinkedWhole(p)
    BY DEF BuildInv
  <2>1. Building!TypeOK'
    BY <1>12, <2>0, BuildsAssumption DEF Building!TypeOK, KeyIsPast, RunnerOfKey, Keyed, Looking, Building!CopyRunner, Building!Goto
  <2>2. /\ UNCHANGED source
        /\ \A q \in Builders \ {p} :
               /\ pc'[q] = pc[q] /\ key'[q] = key[q] /\ expected'[q] = expected[q]
               /\ snapshot'[q] = snapshot[q] /\ library'[q] = library[q]
    BY <1>12, <2>0 DEF Building!TypeOK, Building!CopyRunner, Building!Goto
  <2>3. \A v \in Building!Versions :
            lock[v] \in Builders \ {p} => lock'[v] = lock[v] /\ runner'[v] = runner[v]
    BY <1>12, <2>0 DEF Building!TypeOK, HoldsLock, Locked, Building!CopyRunner, Building!Goto
  <2>4. KeyIsPast(p)'
    BY <1>12, <2>0 DEF Building!TypeOK, KeyIsPast, Keyed, Building!CopyRunner, Building!Goto
  <2>5. RunnerOfKey(p)'
    BY <1>12, <2>0 DEF Building!TypeOK, RunnerOfKey, Looking, Given, Building!CopyRunner, Building!Goto
  <2>6. HoldsLock(p)'
    BY <1>12, <2>0 DEF Building!TypeOK, KeyIsPast, HoldsLock, Locked, Keyed, Building!CopyRunner, Building!Goto
  <2>7. LinkedWhole(p)'
    BY <1>12, <2>0 DEF Building!TypeOK, KeyIsPast, LinkedWhole, Keyed, Building!CopyRunner, Building!Goto
  <2>8. Building!MetadataOfWholeBuilds'
    BY <1>12, <2>0 DEF BuildInv, Building!TypeOK, Building!MetadataOfWholeBuilds, KeyIsPast, LinkedWhole,
        Keyed, Building!CopyRunner, Building!Goto
  <2> QED
    BY <2>1, <2>2, <2>3, <2>4, <2>5, <2>6, <2>7, <2>8, OthersKeepRunner DEF BuildInv
<1>13. ASSUME NEW p \in Builders, Building!HashCopy(p) PROVE BuildInv'
  <2>0. Building!TypeOK /\ KeyIsPast(p) /\ RunnerOfKey(p) /\ HoldsLock(p) /\ LinkedWhole(p)
    BY DEF BuildInv
  <2>1. Building!TypeOK'
    BY <1>13, <2>0, BuildsAssumption DEF Building!TypeOK, KeyIsPast, RunnerOfKey, Keyed, Looking, Building!HashCopy, Building!Goto, Building!Accepts
  <2>2. /\ UNCHANGED source
        /\ \A q \in Builders \ {p} :
               /\ pc'[q] = pc[q] /\ key'[q] = key[q] /\ expected'[q] = expected[q]
               /\ snapshot'[q] = snapshot[q] /\ library'[q] = library[q]
    BY <1>13, <2>0 DEF Building!TypeOK, Building!HashCopy, Building!Goto, Building!Accepts
  <2>3. \A v \in Building!Versions :
            lock[v] \in Builders \ {p} => lock'[v] = lock[v] /\ runner'[v] = runner[v]
    BY <1>13, <2>0 DEF Building!TypeOK, HoldsLock, Locked, Building!HashCopy, Building!Goto, Building!Accepts
  <2>4. KeyIsPast(p)'
    BY <1>13, <2>0 DEF Building!TypeOK, KeyIsPast, Keyed, Building!HashCopy, Building!Goto, Building!Accepts
  <2>5. RunnerOfKey(p)'
    BY <1>13, <2>0 DEF Building!TypeOK, RunnerOfKey, Looking, Given, Building!HashCopy, Building!Goto, Building!Accepts
  <2>6. HoldsLock(p)'
    BY <1>13, <2>0 DEF Building!TypeOK, KeyIsPast, HoldsLock, Locked, Keyed, Building!HashCopy, Building!Goto, Building!Accepts
  <2>7. LinkedWhole(p)'
    BY <1>13, <2>0 DEF Building!TypeOK, KeyIsPast, LinkedWhole, Keyed, Building!HashCopy, Building!Goto, Building!Accepts
  <2>8. Building!MetadataOfWholeBuilds'
    BY <1>13, <2>0 DEF BuildInv, Building!TypeOK, Building!MetadataOfWholeBuilds, KeyIsPast, LinkedWhole,
        Keyed, Building!HashCopy, Building!Goto, Building!Accepts
  <2> QED
    BY <2>1, <2>2, <2>3, <2>4, <2>5, <2>6, <2>7, <2>8, OthersKeepRunner DEF BuildInv
<1>14. ASSUME NEW p \in Builders, Building!CopyLibrary(p) PROVE BuildInv'
  <2>0. Building!TypeOK /\ KeyIsPast(p) /\ RunnerOfKey(p) /\ HoldsLock(p) /\ LinkedWhole(p)
    BY DEF BuildInv
  <2>1. Building!TypeOK'
    <3>1. source.nccl \in 0..MaxUpgrades + 1
      BY <2>0, BuildsAssumption DEF Building!TypeOK, Building!Versions, Building!BuildAssumption
    <3>2. library' \in [Builders -> 0..MaxUpgrades + 1]
      BY <1>14, <2>0, <3>1 DEF Building!TypeOK, Building!CopyLibrary
    <3> QED
      BY <1>14, <2>0, <3>2 DEF Building!TypeOK, Building!CopyLibrary, Building!Goto
  <2>2. /\ UNCHANGED source
        /\ \A q \in Builders \ {p} :
               /\ pc'[q] = pc[q] /\ key'[q] = key[q] /\ expected'[q] = expected[q]
               /\ snapshot'[q] = snapshot[q] /\ library'[q] = library[q]
    BY <1>14, <2>0 DEF Building!TypeOK, Building!CopyLibrary, Building!Goto, Building!LibraryMatches
  <2>3. \A v \in Building!Versions :
            lock[v] \in Builders \ {p} => lock'[v] = lock[v] /\ runner'[v] = runner[v]
    BY <1>14, <2>0 DEF Building!TypeOK, HoldsLock, Locked, Building!CopyLibrary, Building!Goto, Building!LibraryMatches
  <2>4. KeyIsPast(p)'
    BY <1>14, <2>0 DEF Building!TypeOK, KeyIsPast, Keyed, Building!CopyLibrary, Building!Goto, Building!LibraryMatches
  <2>5. RunnerOfKey(p)'
    BY <1>14, <2>0 DEF Building!TypeOK, RunnerOfKey, Looking, Given, Building!CopyLibrary, Building!Goto, Building!LibraryMatches
  <2>6. HoldsLock(p)'
    BY <1>14, <2>0 DEF Building!TypeOK, KeyIsPast, HoldsLock, Locked, Keyed, Building!CopyLibrary, Building!Goto, Building!LibraryMatches
  <2>7. LinkedWhole(p)'
    BY <1>14, <2>0 DEF Building!TypeOK, KeyIsPast, LinkedWhole, Keyed, Building!CopyLibrary, Building!Goto, Building!LibraryMatches
  <2>8. Building!MetadataOfWholeBuilds'
    BY <1>14, <2>0 DEF BuildInv, Building!TypeOK, Building!MetadataOfWholeBuilds, KeyIsPast, LinkedWhole,
        Keyed, Building!CopyLibrary, Building!Goto, Building!LibraryMatches
  <2> QED
    BY <2>1, <2>2, <2>3, <2>4, <2>5, <2>6, <2>7, <2>8, OthersKeepRunner DEF BuildInv
<1>15. ASSUME NEW p \in Builders, Building!Retry(p) PROVE BuildInv'
  <2>0. Building!TypeOK /\ KeyIsPast(p) /\ RunnerOfKey(p) /\ HoldsLock(p) /\ LinkedWhole(p)
    BY DEF BuildInv
  <2>1. Building!TypeOK'
    <3>1. MaxUpgrades + 1 \in 0..MaxUpgrades + 1
      BY BuildsAssumption DEF Building!BuildAssumption
    <3>2. library' \in [Builders -> 0..MaxUpgrades + 1]
      BY <1>15, <2>0, <3>1 DEF Building!TypeOK, Building!Retry
    <3> QED
      BY <1>15, <2>0, <3>2 DEF Building!TypeOK, Building!Retry, Building!Goto, Building!Forgotten
  <2>2. /\ UNCHANGED source
        /\ \A q \in Builders \ {p} :
               /\ pc'[q] = pc[q] /\ key'[q] = key[q] /\ expected'[q] = expected[q]
               /\ snapshot'[q] = snapshot[q] /\ library'[q] = library[q]
    BY <1>15, <2>0 DEF Building!TypeOK, Building!Retry, Building!Goto, Building!Forgotten
  <2>3. \A v \in Building!Versions :
            lock[v] \in Builders \ {p} => lock'[v] = lock[v] /\ runner'[v] = runner[v]
    BY <1>15, <2>0 DEF Building!TypeOK, HoldsLock, Locked, Building!Retry, Building!Goto, Building!Forgotten
  <2>4. KeyIsPast(p)'
    BY <1>15, <2>0 DEF Building!TypeOK, KeyIsPast, Keyed, Building!Retry, Building!Goto, Building!Forgotten
  <2>5. RunnerOfKey(p)'
    BY <1>15, <2>0 DEF Building!TypeOK, RunnerOfKey, Looking, Given, Building!Retry, Building!Goto, Building!Forgotten
  <2>6. HoldsLock(p)'
    BY <1>15, <2>0 DEF Building!TypeOK, KeyIsPast, HoldsLock, Locked, Keyed, Building!Retry, Building!Goto, Building!Forgotten
  <2>7. LinkedWhole(p)'
    BY <1>15, <2>0 DEF Building!TypeOK, KeyIsPast, LinkedWhole, Keyed, Building!Retry, Building!Goto, Building!Forgotten
  <2>8. Building!MetadataOfWholeBuilds'
    BY <1>15, <2>0 DEF BuildInv, Building!TypeOK, Building!MetadataOfWholeBuilds, KeyIsPast, LinkedWhole,
        Keyed, Building!Retry, Building!Goto, Building!Forgotten
  <2> QED
    BY <2>1, <2>2, <2>3, <2>4, <2>5, <2>6, <2>7, <2>8, OthersKeepRunner DEF BuildInv
<1>16. ASSUME NEW p \in Builders, Building!Crash(p) PROVE BuildInv'
  <2>0. Building!TypeOK /\ KeyIsPast(p) /\ RunnerOfKey(p) /\ HoldsLock(p) /\ LinkedWhole(p)
    BY DEF BuildInv
  <2>1. Building!TypeOK'
    BY <1>16, <2>0, BuildsAssumption DEF Building!TypeOK, KeyIsPast, RunnerOfKey, Keyed, Looking, Building!Crash, Building!Goto
  <2>2. /\ UNCHANGED source
        /\ \A q \in Builders \ {p} :
               /\ pc'[q] = pc[q] /\ key'[q] = key[q] /\ expected'[q] = expected[q]
               /\ snapshot'[q] = snapshot[q] /\ library'[q] = library[q]
    BY <1>16, <2>0 DEF Building!TypeOK, Building!Crash, Building!Goto
  <2>3. \A v \in Building!Versions :
            lock[v] \in Builders \ {p} => lock'[v] = lock[v] /\ runner'[v] = runner[v]
    BY <1>16, <2>0 DEF Building!TypeOK, HoldsLock, Locked, Building!Crash, Building!Goto
  <2>4. KeyIsPast(p)'
    BY <1>16, <2>0 DEF Building!TypeOK, KeyIsPast, Keyed, Building!Crash, Building!Goto
  <2>5. RunnerOfKey(p)'
    BY <1>16, <2>0 DEF Building!TypeOK, RunnerOfKey, Looking, Given, Building!Crash, Building!Goto
  <2>6. HoldsLock(p)'
    BY <1>16, <2>0 DEF Building!TypeOK, KeyIsPast, HoldsLock, Locked, Keyed, Building!Crash, Building!Goto
  <2>7. LinkedWhole(p)'
    BY <1>16, <2>0 DEF Building!TypeOK, KeyIsPast, LinkedWhole, Keyed, Building!Crash, Building!Goto
  <2>8. Building!MetadataOfWholeBuilds'
    BY <1>16, <2>0 DEF BuildInv, Building!TypeOK, Building!MetadataOfWholeBuilds, KeyIsPast, LinkedWhole,
        Keyed, Building!Crash, Building!Goto
  <2> QED
    BY <2>1, <2>2, <2>3, <2>4, <2>5, <2>6, <2>7, <2>8, OthersKeepRunner DEF BuildInv
<1>17. ASSUME Building!EditSource \/ Building!UpgradeNccl PROVE BuildInv'
  <2>1. /\ source' \in Building!Versions
        /\ source.source <= source'.source /\ source.nccl <= source'.nccl
        /\ source.source < source'.source \/ source.nccl < source'.nccl
    BY <1>17, BuildsAssumption DEF BuildInv, Building!TypeOK, Building!Versions, Building!EditSource,
        Building!UpgradeNccl, Building!BuildAssumption
  <2>2. UNCHANGED <<runner, meta, lock, pc, key, expected, snapshot, library>>
    BY <1>17 DEF Building!EditSource, Building!UpgradeNccl
  <2>3. Building!TypeOK' /\ Building!MetadataOfWholeBuilds'
    BY <2>1, <2>2 DEF BuildInv, Building!TypeOK, Building!MetadataOfWholeBuilds
  <2>4. ASSUME NEW p \in Builders
        PROVE  KeyIsPast(p)' /\ RunnerOfKey(p)' /\ HoldsLock(p)' /\ LinkedWhole(p)'
    <3>0. KeyIsPast(p) /\ RunnerOfKey(p) /\ HoldsLock(p) /\ LinkedWhole(p) /\ Building!TypeOK
      BY DEF BuildInv
    <3>1. KeyIsPast(p)'
      BY <2>1, <2>2, <3>0 DEF KeyIsPast, Building!TypeOK, Building!Versions
    <3>2. pc[p] = "check" => source' # key[p]
      BY <2>1, <3>0 DEF KeyIsPast, Keyed, Building!TypeOK, Building!Versions
    <3> QED
      BY <2>2, <3>0, <3>1, <3>2 DEF RunnerOfKey, HoldsLock, LinkedWhole
  <2> QED
    BY <2>3, <2>4 DEF BuildInv
<1>18. CASE UNCHANGED Building!vars
  BY <1>18 DEF Building!vars, BuildInv, Building!TypeOK, Building!MetadataOfWholeBuilds, KeyIsPast,
      RunnerOfKey, HoldsLock, LinkedWhole
<1> QED
  BY <1>1, <1>2, <1>3, <1>4, <1>5, <1>6, <1>7, <1>8, <1>9, <1>10, <1>11, <1>12, <1>13, <1>14,
     <1>15, <1>16, <1>17, <1>18 DEF Building!Next, Building!Step

\* A process runs a complete executable of the sources its key names, with the NCCL
\* it was compiled against; one process builds at a time, and the metadata never
\* describes a mixed executable (build.py:243-283, backend.py:59-96).
THEOREM SourcesExecuted == Spec => []ExecutesItsSources
<1> DEFINE Here == part = "build" => BuildInv
<1>1. Init => Here
  BY BuildStart DEF Init
<1>2. Here /\ [Next]_allVars => Here'
  <2> SUFFICES ASSUME Here, [Next]_allVars, part' = "build" PROVE BuildInv'
    OBVIOUS
  <2>1. ASSUME BuildRunner PROVE BuildInv'
    BY <2>1, BuildKeep DEF BuildRunner
  <2>2. ASSUME CallStep \/ RouteStep \/ FetchSources \/ FreezeModel \/ PublishResults \/ FitFrontier
        PROVE  FALSE
    BY <2>2 DEF CallStep, RouteStep, FetchSources, FreezeModel, PublishResults, FitFrontier
  <2>3. CASE UNCHANGED allVars
    <3>1. UNCHANGED Building!vars /\ part = "build"
      BY <2>3 DEF allVars, buildVars, Building!vars
    <3> QED
      BY <3>1, BuildKeep
  <2> QED
    BY <2>1, <2>2, <2>3 DEF Next
<1>3. Here => ExecutesItsSources
  <2> SUFFICES ASSUME BuildInv PROVE ExecutesItsSources
    BY DEF ExecutesItsSources
  <2>1. Building!ExecutesItsSources /\ Building!RunsItsLibrary
    BY DEF BuildInv, RunnerOfKey, Given, Building!ExecutesItsSources, Building!RunsItsLibrary
  <2>2. Building!OneBuilder
    BY DEF BuildInv, HoldsLock, Locked, Building!OneBuilder
  <2> QED
    BY <2>1, <2>2 DEF BuildInv, ExecutesItsSources
<1> QED
  BY <1>1, <1>2, <1>3, PTL DEF Spec

-----------------------------------------------------------------------------
(* Frozen models.                                                           *)

\* What a source held it holds or has held, and nobody rewrites beyond the bound.
PastKept ==
    /\ past \in [Sources -> SUBSET Freezing!Contents]
    /\ origin \in [Sources -> [Freezing!Files -> 0..MaxEdits]]
    /\ \A i \in Freezing!Index : Members[i] \in Live => pin[i] = Freezing!NoContents

\* A directory is hashed and copied, a live module cloned and compared.
Copying == {"hash", "copy", "copied"}
Cloning == {"clone", "schema", "graph", "check", "export"}
RightSource ==
    /\ pc \in Copying =>
         at \in Freezing!Index /\ Freezing!Source \notin Live /\ Freezing!Twins = {}
    /\ pc \in Cloning => at \in Freezing!Index /\ Freezing!Source \in Live
    /\ pc \in {"ensemble", "verify", "launched"} => at = Len(Members) + 1

\* A content that may become a member: of one moment, whole, and as pinned.
Sound(i, c) ==
    /\ c \in past[Members[i]]
    /\ Freezing!Valid(Members[i], c)
    /\ pin[i] \in {Freezing!NoContents, c}

\* Members that are done.
MembersSound ==
    /\ \A i \in Freezing!Index : i < at => Sound(i, recorded[i])
    /\ \A i, j \in Freezing!Index :
         (i < at /\ j < at /\ Members[i] = Members[j] /\ Members[i] \in Shareable)
            => recorded[i] = recorded[j]

\* The first hash reads the manifest before the data; if the source never held
\* both at once, its manifest has been rewritten since, and the copy's will differ.
HashedOnce ==
    /\ pc = "hash" => hash["manifest"] <= origin[Freezing!Source]["manifest"]
    /\ pc \in {"copy", "copied"} =>
         /\ Freezing!Valid(Freezing!Source, hash)
         /\ pin[at] \in {Freezing!NoContents, hash}
    /\ pc = "copy" =>
         \/ hash["manifest"] < origin[Freezing!Source]["manifest"]
         \/ hash \in past[Freezing!Source]
    /\ pc = "copied" /\ staging["manifest"] = hash["manifest"] =>
         hash \in past[Freezing!Source]

\* The tensors of a live module were cloned at one moment.
ClonedOnce ==
    /\ pc \in {"schema", "graph", "check", "export"} => staging \in past[Freezing!Source]
    /\ pc = "export" => staging = hash

FreezeInv ==
    /\ Freezing!TypeOK /\ PastKept /\ RightSource /\ MembersSound /\ HashedOnce /\ ClonedOnce
    /\ Freezing!FrozenRuns

LEMMA FreezeStart == Freezing!Init => FreezeInv
<1> SUFFICES ASSUME Freezing!Init PROVE FreezeInv
  OBVIOUS
<1> USE ModelsAssumption DEF Freezing!ArtifactAssumption
<1>0. Len(Members) \in Nat /\ Freezing!Index = 1..Len(Members)
  BY DEF Freezing!Index
<1>1. [f \in Freezing!Files |-> 0] \in Freezing!Contents
  BY DEF Freezing!Contents
<1>2. Freezing!NoContents \in [Freezing!Files -> 0..MaxEdits + MaxTampers + 1]
  BY DEF Freezing!NoContents
<1>3. Freezing!TypeOK
  <2>1. /\ origin \in [Sources -> Freezing!Contents]
        /\ \A s \in Sources : origin[s] \in past[s] /\ past[s] \subseteq Freezing!Contents
    BY <1>1 DEF Freezing!Init
  <2>2. /\ pin \in [Freezing!Index -> Freezing!Contents \cup {Freezing!NoContents}]
        /\ private \in [Freezing!Index -> Freezing!Contents \cup {Freezing!NoContents}]
        /\ recorded \in [Freezing!Index -> Freezing!Contents \cup {Freezing!NoContents}]
        /\ prepared \in [Freezing!Index -> Freezing!Contents \cup {Freezing!NoContents}]
    BY <1>1 DEF Freezing!Init
  <2>3. /\ at \in 1..Len(Members) + 1 /\ tampers \in 0..MaxTampers
        /\ {hash, staging} \subseteq [Freezing!Files -> 0..MaxEdits + MaxTampers + 1]
    BY <1>0, <1>2 DEF Freezing!Init
  <2> QED
    BY <2>1, <2>2, <2>3 DEF Freezing!Init, Freezing!TypeOK
<1>4. PastKept
  BY <1>1 DEF Freezing!Init, PastKept
<1> QED
  BY <1>0, <1>3, <1>4 DEF Freezing!Init, FreezeInv, RightSource, MembersSound, HashedOnce, ClonedOnce,
      Copying, Cloning, Freezing!FrozenRuns, Freezing!Launched

\* Contents of a source, and what a file of it may be rewritten to.
LEMMA ContentsOfSource ==
    ASSUME FreezeInv, NEW s \in Sources
    PROVE  /\ origin[s] \in past[s] /\ past[s] \subseteq Freezing!Contents
           /\ origin[s] \in Freezing!Contents
           /\ origin[s]["manifest"] \in Nat /\ origin[s]["blob"] \in Nat
<1> USE ModelsAssumption DEF Freezing!ArtifactAssumption
<1>1. origin[s] \in past[s] /\ past[s] \subseteq Freezing!Contents
  BY DEF FreezeInv, Freezing!TypeOK
<1>2. origin[s] \in [Freezing!Files -> 0..MaxEdits]
  BY DEF FreezeInv, PastKept
<1> QED
  BY <1>1, <1>2 DEF Freezing!Files

LEMMA NoContentsApart ==
    /\ Freezing!NoContents \notin Freezing!Contents
    /\ Freezing!NoContents \in [Freezing!Files -> 0..MaxEdits + MaxTampers + 1]
    /\ Freezing!Contents \subseteq [Freezing!Files -> 0..MaxEdits + MaxTampers + 1]
<1> USE ModelsAssumption DEF Freezing!ArtifactAssumption, Freezing!NoContents, Freezing!Contents, Freezing!Files
<1>1. MaxEdits + MaxTampers + 1 \in 0..MaxEdits + MaxTampers + 1
  OBVIOUS
<1>2. MaxEdits + MaxTampers + 1 \notin 0..MaxEdits + MaxTampers
  OBVIOUS
<1> QED
  BY <1>1, <1>2

\* One file of a content read over another.
LEMMA FileRead ==
    ASSUME NEW h \in [Freezing!Files -> 0..MaxEdits + MaxTampers + 1], NEW c \in Freezing!Contents
    PROVE  /\ [h EXCEPT !.manifest = c.manifest] \in [Freezing!Files -> 0..MaxEdits + MaxTampers + 1]
           /\ [h EXCEPT !.manifest = c.manifest]["manifest"] = c["manifest"]
           /\ [h EXCEPT !.blob = c.blob] \in [Freezing!Files -> 0..MaxEdits + MaxTampers + 1]
           /\ [h EXCEPT !.blob = c.blob]["manifest"] = h["manifest"]
           /\ h["manifest"] = c["manifest"] => [h EXCEPT !.blob = c.blob] = c
<1> USE ModelsAssumption DEF Freezing!ArtifactAssumption, Freezing!Files, Freezing!Contents
<1>1. c \in [Freezing!Files -> 0..MaxEdits + MaxTampers + 1]
  BY NoContentsApart
<1> QED
  BY <1>1

\* What the steps have in common as to types.
LEMMA TypeFrame ==
    ASSUME FreezeInv, UNCHANGED <<origin, past, pin, tampers>>,
           pc' \in {"member", "hash", "pin", "copy", "copied", "clone", "schema", "graph",
                    "check", "export", "manifest", "ensemble", "verify", "launched",
                    "unavailable", "refused"},
           pc' \in {"refused", "unavailable", "launched"} => staging' = Freezing!NoContents,
           at' \in 1..Len(Members) + 1,
           hash' \in [Freezing!Files -> 0..MaxEdits + MaxTampers + 1],
           staging' \in [Freezing!Files -> 0..MaxEdits + MaxTampers + 1],
           private' \in [Freezing!Index -> Freezing!Contents \cup {Freezing!NoContents}],
           recorded' \in [Freezing!Index -> Freezing!Contents \cup {Freezing!NoContents}],
           prepared' \in [Freezing!Index -> Freezing!Contents \cup {Freezing!NoContents}]
    PROVE  Freezing!TypeOK'
BY DEF FreezeInv, Freezing!TypeOK

LEMMA SourceOfMember ==
    ASSUME NEW i \in Freezing!Index
    PROVE  Members[i] \in Sources /\ i \in 1..Len(Members)
BY ModelsAssumption DEF Freezing!ArtifactAssumption, Freezing!Index

\* Members that are done stay sound while sources only change.
LEMMA DoneStaysSound ==
    ASSUME FreezeInv, UNCHANGED <<recorded, at, pin>>, \A s \in Sources : past[s] \subseteq past'[s]
    PROVE  MembersSound'
BY SourceOfMember DEF FreezeInv, MembersSound, Sound, Freezing!Valid

\* One more is done.
LEMMA OneMoreSound ==
    ASSUME FreezeInv, UNCHANGED <<past, pin>>, NEW c, at \in Freezing!Index, Sound(at, c),
           recorded' = [recorded EXCEPT ![at] = c], at' = at + 1,
           \A i \in Freezing!Twins : recorded[i] = c
    PROVE  MembersSound'
<1>1. /\ \A i \in Freezing!Index : recorded'[i] = IF i = at THEN c ELSE recorded[i]
      /\ \A i \in Freezing!Index : i < at' => i < at \/ i = at
  BY SourceOfMember DEF FreezeInv, Freezing!TypeOK
<1>2. \A i \in Freezing!Index : i < at' => Sound(i, recorded[i])'
  BY <1>1 DEF FreezeInv, MembersSound, Sound, Freezing!Valid
<1>3. \A i \in Freezing!Index :
          (i < at /\ Members[i] = Members[at] /\ Members[i] \in Shareable) => recorded[i] = c
  BY SourceOfMember DEF Freezing!Twins, Freezing!Source
<1>4. \A i, j \in Freezing!Index :
         (i < at' /\ j < at' /\ Members[i] = Members[j] /\ Members[i] \in Shareable)
            => recorded'[i] = recorded'[j]
  BY <1>1, <1>3 DEF FreezeInv, MembersSound
<1> QED
  BY <1>2, <1>4 DEF MembersSound

\* What the twins of a member were frozen as is one content, sound for it but for its
\* own pin.
LEMMA TwinsSound ==
    ASSUME FreezeInv, at \in Freezing!Index, Freezing!Twins # {}
    PROVE  LET c == recorded[CHOOSE i \in Freezing!Twins : TRUE] IN
             /\ c \in past[Members[at]] /\ Freezing!Valid(Members[at], c)
             /\ \A i \in Freezing!Twins : recorded[i] = c
<1> DEFINE k == CHOOSE i \in Freezing!Twins : TRUE
<1>1. k \in Freezing!Twins
  OBVIOUS
<1>2. \A i \in Freezing!Twins :
          i \in Freezing!Index /\ i < at /\ Members[i] = Members[at] /\ Members[i] \in Shareable
  BY SourceOfMember, ModelsAssumption
     DEF Freezing!Twins, Freezing!Source, Freezing!Index, Freezing!ArtifactAssumption
<1> HIDE DEF k
<1>3. Sound(k, recorded[k])
  BY <1>1, <1>2 DEF FreezeInv, MembersSound
<1>4. \A i \in Freezing!Twins : recorded[i] = recorded[k]
  BY <1>1, <1>2 DEF FreezeInv, MembersSound
<1> QED
  BY <1>1, <1>2, <1>3, <1>4 DEF Sound, k

LEMMA FreezeKeep == FreezeInv /\ [Freezing!Next]_(Freezing!vars) => FreezeInv'
<1> SUFFICES ASSUME FreezeInv, [Freezing!Next]_(Freezing!vars) PROVE FreezeInv'
  OBVIOUS
<1>0. Freezing!TypeOK /\ PastKept /\ RightSource /\ MembersSound /\ HashedOnce /\ ClonedOnce
  BY DEF FreezeInv
<1>1. ASSUME Freezing!Reuse PROVE FreezeInv'
  <2>1. Freezing!TypeOK'
    <3> DEFINE c == recorded[CHOOSE i \in Freezing!Twins : TRUE]
    <3>1. c \in Freezing!Contents
      BY <1>0, <1>1, TwinsSound, SourceOfMember, ContentsOfSource DEF Freezing!Reuse, Sound, Freezing!Source
    <3>2. /\ private' \in [Freezing!Index -> Freezing!Contents \cup {Freezing!NoContents}]
          /\ recorded' \in [Freezing!Index -> Freezing!Contents \cup {Freezing!NoContents}]
      BY <1>0, <1>1, <3>1 DEF Freezing!TypeOK, Freezing!Reuse
    <3>3. at' \in 1..Len(Members) + 1
      BY <1>0, <1>1, SourceOfMember DEF Freezing!TypeOK, Freezing!Reuse, Freezing!Next1
    <3> QED
      BY <1>0, <1>1, <3>2, <3>3, TypeFrame, NoContentsApart DEF Freezing!TypeOK, Freezing!Reuse, Freezing!Next1, Freezing!Stop
  <2>2. PastKept'
    BY <1>0, <1>1 DEF PastKept, Freezing!Reuse, Freezing!Next1, Freezing!Stop, Freezing!PinOfShared, Freezing!PinMatches
  <2>3. RightSource'
    BY <1>0, <1>1, SourceOfMember DEF Freezing!TypeOK, RightSource, Copying, Cloning, Freezing!Source, Freezing!Twins,
        Freezing!Reuse, Freezing!Next1, Freezing!Stop, Freezing!PinOfShared, Freezing!PinMatches
  <2>4. MembersSound'
    <3> DEFINE c == recorded[CHOOSE i \in Freezing!Twins : TRUE]
    <3>1. CASE Freezing!PinOfShared(c)
      <4>1. /\ at \in Freezing!Index /\ Freezing!Twins # {}
            /\ recorded' = [recorded EXCEPT ![at] = c] /\ at' = at + 1 /\ UNCHANGED <<past, pin>>
        BY <1>1, <3>1 DEF Freezing!Reuse, Freezing!Next1
      <4>2. Sound(at, c) /\ \A i \in Freezing!Twins : recorded[i] = c
        BY <4>1, <3>1, TwinsSound DEF Sound, Freezing!PinOfShared, Freezing!PinMatches
      <4> QED
        BY <4>1, <4>2, OneMoreSound
    <3>2. CASE ~Freezing!PinOfShared(c)
      BY <1>1, <3>2, DoneStaysSound DEF Freezing!Reuse
    <3> QED
      BY <3>1, <3>2
  <2>5. HashedOnce'
    BY <1>0, <1>1, SourceOfMember, ContentsOfSource DEF Freezing!TypeOK, RightSource, HashedOnce, Copying, Cloning, Freezing!Source,
        Freezing!Reuse, Freezing!Next1, Freezing!Stop, Freezing!PinOfShared, Freezing!PinMatches
  <2>6. ClonedOnce'
    BY <1>0, <1>1, SourceOfMember, ContentsOfSource DEF RightSource, ClonedOnce, Copying, Cloning, Freezing!Source,
        Freezing!Reuse, Freezing!Next1, Freezing!Stop, Freezing!PinOfShared, Freezing!PinMatches
  <2>7. Freezing!FrozenRuns'
    BY <1>1 DEF FreezeInv, Freezing!FrozenRuns, Freezing!Launched, Freezing!Reuse, Freezing!Next1, Freezing!Stop, Freezing!PinOfShared, Freezing!PinMatches
  <2> QED
    BY <2>1, <2>2, <2>3, <2>4, <2>5, <2>6, <2>7 DEF FreezeInv
<1>2. ASSUME Freezing!HashManifest PROVE FreezeInv'
  <2>1. Freezing!TypeOK'
    <3>0. /\ Freezing!Source \in Sources /\ origin[Freezing!Source] \in Freezing!Contents
          /\ origin[Freezing!Source] \in past[Freezing!Source]
          /\ origin[Freezing!Source]["manifest"] \in Nat /\ hash["manifest"] \in Nat
      BY <1>0, <1>2, SourceOfMember, ContentsOfSource, ModelsAssumption DEF RightSource, Copying, Cloning, Freezing!Source,
          Freezing!HashManifest, Freezing!TypeOK, Freezing!Files, Freezing!ArtifactAssumption
    <3>1. hash' \in [Freezing!Files -> 0..MaxEdits + MaxTampers + 1]
      BY <1>0, <1>2, <3>0, FileRead DEF Freezing!TypeOK, Freezing!HashManifest
    <3> QED
      BY <1>0, <1>2, <3>1, TypeFrame, NoContentsApart DEF Freezing!TypeOK, Freezing!HashManifest
  <2>2. PastKept'
    BY <1>0, <1>2 DEF PastKept, Freezing!HashManifest
  <2>3. RightSource'
    BY <1>0, <1>2, SourceOfMember DEF Freezing!TypeOK, RightSource, Copying, Cloning, Freezing!Source, Freezing!Twins,
        Freezing!HashManifest
  <2>4. MembersSound'
    BY <1>2, DoneStaysSound DEF Freezing!HashManifest
  <2>5. HashedOnce'
    BY <1>0, <1>2, SourceOfMember, ContentsOfSource DEF Freezing!TypeOK, RightSource, HashedOnce, Copying, Cloning, Freezing!Source,
        Freezing!HashManifest
  <2>6. ClonedOnce'
    BY <1>0, <1>2, SourceOfMember, ContentsOfSource DEF RightSource, ClonedOnce, Copying, Cloning, Freezing!Source,
        Freezing!HashManifest
  <2>7. Freezing!FrozenRuns'
    BY <1>2 DEF FreezeInv, Freezing!FrozenRuns, Freezing!Launched, Freezing!HashManifest
  <2> QED
    BY <2>1, <2>2, <2>3, <2>4, <2>5, <2>6, <2>7 DEF FreezeInv
<1>3. ASSUME Freezing!HashData PROVE FreezeInv'
  <2>1. Freezing!TypeOK'
    <3>0. /\ Freezing!Source \in Sources /\ origin[Freezing!Source] \in Freezing!Contents
          /\ origin[Freezing!Source] \in past[Freezing!Source]
          /\ origin[Freezing!Source]["manifest"] \in Nat /\ hash["manifest"] \in Nat
      BY <1>0, <1>3, SourceOfMember, ContentsOfSource, ModelsAssumption DEF RightSource, Copying, Cloning, Freezing!Source,
          Freezing!HashData, Freezing!TypeOK, Freezing!Files, Freezing!ArtifactAssumption
    <3>1. hash' \in [Freezing!Files -> 0..MaxEdits + MaxTampers + 1]
      BY <1>0, <1>3, <3>0, FileRead DEF Freezing!TypeOK, Freezing!HashData
    <3> QED
      BY <1>0, <1>3, <3>1, TypeFrame, NoContentsApart DEF Freezing!TypeOK, Freezing!HashData, Freezing!Stop
  <2>2. PastKept'
    BY <1>0, <1>3 DEF PastKept, Freezing!HashData, Freezing!Stop, Freezing!PinMatches
  <2>3. RightSource'
    BY <1>0, <1>3, SourceOfMember DEF Freezing!TypeOK, RightSource, Copying, Cloning, Freezing!Source, Freezing!Twins,
        Freezing!HashData, Freezing!Stop, Freezing!PinMatches
  <2>4. MembersSound'
    BY <1>3, DoneStaysSound DEF Freezing!HashData, Freezing!Stop, Freezing!PinMatches
  <2>5. HashedOnce'
    <3>0. /\ Freezing!Source \in Sources /\ origin[Freezing!Source] \in Freezing!Contents
          /\ origin[Freezing!Source] \in past[Freezing!Source]
          /\ origin[Freezing!Source]["manifest"] \in Nat /\ hash["manifest"] \in Nat
      BY <1>0, <1>3, SourceOfMember, ContentsOfSource, ModelsAssumption DEF RightSource, Copying, Cloning, Freezing!Source,
          Freezing!HashData, Freezing!TypeOK, Freezing!Files, Freezing!ArtifactAssumption
    <3>1. hash' = [hash EXCEPT !.blob = origin[Freezing!Source].blob]
      BY <1>3 DEF Freezing!HashData
    <3>2. /\ hash'["manifest"] = hash["manifest"]
          /\ hash["manifest"] = origin[Freezing!Source]["manifest"] => hash' = origin[Freezing!Source]
      BY <1>0, <3>0, <3>1, FileRead DEF Freezing!TypeOK
    <3>3. hash["manifest"] <= origin[Freezing!Source]["manifest"]
      BY <1>0, <1>3 DEF HashedOnce, Freezing!HashData
    <3>4. UNCHANGED <<origin, past, at, pin>> /\ pc' \in {"copy", "refused"}
      BY <1>3 DEF Freezing!HashData, Freezing!Stop
    <3>5. pc' = "copy" => Freezing!Valid(Freezing!Source, hash') /\ Freezing!PinMatches(hash')
      BY <1>3, <3>1 DEF Freezing!HashData, Freezing!Stop
    <3>6. hash'["manifest"] < origin[Freezing!Source]["manifest"] \/ hash' \in past[Freezing!Source]
      BY <3>0, <3>2, <3>3
    <3> QED
      BY <3>4, <3>5, <3>6 DEF HashedOnce, Freezing!Source, Freezing!PinMatches, Freezing!Valid
  <2>6. ClonedOnce'
    BY <1>0, <1>3, SourceOfMember, ContentsOfSource DEF RightSource, ClonedOnce, Copying, Cloning, Freezing!Source,
        Freezing!HashData, Freezing!Stop, Freezing!PinMatches
  <2>7. Freezing!FrozenRuns'
    BY <1>3 DEF FreezeInv, Freezing!FrozenRuns, Freezing!Launched, Freezing!HashData, Freezing!Stop, Freezing!PinMatches
  <2> QED
    BY <2>1, <2>2, <2>3, <2>4, <2>5, <2>6, <2>7 DEF FreezeInv
<1>4. ASSUME Freezing!CopyManifest PROVE FreezeInv'
  <2>1. Freezing!TypeOK'
    <3>0. /\ Freezing!Source \in Sources /\ origin[Freezing!Source] \in Freezing!Contents
          /\ origin[Freezing!Source] \in past[Freezing!Source]
          /\ origin[Freezing!Source]["manifest"] \in Nat /\ hash["manifest"] \in Nat
      BY <1>0, <1>4, SourceOfMember, ContentsOfSource, ModelsAssumption DEF RightSource, Copying, Cloning, Freezing!Source,
          Freezing!CopyManifest, Freezing!TypeOK, Freezing!Files, Freezing!ArtifactAssumption
    <3>1. staging' \in [Freezing!Files -> 0..MaxEdits + MaxTampers + 1]
      BY <1>0, <1>4, <3>0, FileRead DEF Freezing!TypeOK, Freezing!CopyManifest
    <3> QED
      BY <1>0, <1>4, <3>1, TypeFrame, NoContentsApart DEF Freezing!TypeOK, Freezing!CopyManifest
  <2>2. PastKept'
    BY <1>0, <1>4 DEF PastKept, Freezing!CopyManifest
  <2>3. RightSource'
    BY <1>0, <1>4, SourceOfMember DEF Freezing!TypeOK, RightSource, Copying, Cloning, Freezing!Source, Freezing!Twins,
        Freezing!CopyManifest
  <2>4. MembersSound'
    BY <1>4, DoneStaysSound DEF Freezing!CopyManifest
  <2>5. HashedOnce'
    BY <1>0, <1>4, SourceOfMember, ContentsOfSource DEF Freezing!TypeOK, RightSource, HashedOnce, Copying, Cloning, Freezing!Source,
        Freezing!CopyManifest
  <2>6. ClonedOnce'
    BY <1>0, <1>4, SourceOfMember, ContentsOfSource DEF RightSource, ClonedOnce, Copying, Cloning, Freezing!Source,
        Freezing!CopyManifest
  <2>7. Freezing!FrozenRuns'
    BY <1>4 DEF FreezeInv, Freezing!FrozenRuns, Freezing!Launched, Freezing!CopyManifest
  <2> QED
    BY <2>1, <2>2, <2>3, <2>4, <2>5, <2>6, <2>7 DEF FreezeInv
<1>5. ASSUME Freezing!CopyData PROVE FreezeInv'
  <2> DEFINE c == [staging EXCEPT !.blob = origin[Freezing!Source].blob]
  <2>a. Freezing!CopyMatches(c) => Sound(at, c) /\ c \in Freezing!Contents
    <3> SUFFICES ASSUME Freezing!CopyMatches(c) PROVE Sound(at, c) /\ c \in Freezing!Contents
      OBVIOUS
    <3>1. Members[at] \in Sources /\ origin[Freezing!Source] \in Freezing!Contents /\ at \in Freezing!Index
      BY <1>0, <1>5, SourceOfMember, ContentsOfSource DEF RightSource, Copying, Freezing!Source, Freezing!CopyData
    <3>2. c = hash /\ c["manifest"] = staging["manifest"]
      BY <1>0, <3>1, FileRead DEF Freezing!TypeOK, Freezing!CopyMatches
    <3>3. c \in past[Members[at]]
      BY <1>0, <1>5, <3>2 DEF HashedOnce, Freezing!CopyData, Freezing!Source
    <3> QED
      BY <1>0, <1>5, <3>1, <3>2, <3>3, ContentsOfSource DEF HashedOnce, Sound, Freezing!CopyData, Freezing!Source
  <2>b. \/ /\ pc' = "refused" /\ staging' = Freezing!NoContents
           /\ UNCHANGED <<at, private, recorded>>
        \/ /\ private' = [private EXCEPT ![at] = c] /\ recorded' = [recorded EXCEPT ![at] = c]
           /\ staging' = Freezing!NoContents /\ at' = at + 1 /\ pc' = "member"
           /\ Sound(at, c) /\ c \in Freezing!Contents
    BY <1>5, <2>a DEF Freezing!CopyData, Freezing!Next1, Freezing!Stop
  <2>c. at \in Freezing!Index /\ at \in 1..Len(Members) /\ UNCHANGED <<origin, past, pin, hash, prepared, tampers>>
    BY <1>0, <1>5, SourceOfMember DEF RightSource, Copying, Cloning, Freezing!CopyData
  <2> HIDE DEF c
  <2>1. Freezing!TypeOK'
    <3>1. /\ private' \in [Freezing!Index -> Freezing!Contents \cup {Freezing!NoContents}]
          /\ recorded' \in [Freezing!Index -> Freezing!Contents \cup {Freezing!NoContents}]
      BY <1>0, <2>b DEF Freezing!TypeOK
    <3>2. at' \in 1..Len(Members) + 1
      BY <1>0, <2>b, <2>c DEF Freezing!TypeOK
    <3> QED
      BY <1>0, <2>b, <2>c, <3>1, <3>2, TypeFrame, NoContentsApart DEF Freezing!TypeOK
  <2>2. PastKept'
    BY <1>0, <1>5 DEF PastKept, Freezing!CopyData, Freezing!Stop, Freezing!Next1, Freezing!CopyMatches
  <2>3. RightSource'
    BY <1>0, <1>5, SourceOfMember DEF Freezing!TypeOK, RightSource, Copying, Cloning, Freezing!Source, Freezing!Twins,
        Freezing!CopyData, Freezing!Stop, Freezing!Next1, Freezing!CopyMatches
  <2>4. MembersSound'
    <3>1. Freezing!Twins = {}
      BY <1>0, <1>5 DEF RightSource, Copying, Freezing!CopyData
    <3>2. CASE UNCHANGED <<at, recorded>>
      BY <2>c, <3>2, DoneStaysSound
    <3>3. CASE ~UNCHANGED <<at, recorded>>
      BY <2>b, <2>c, <3>1, <3>3, OneMoreSound
    <3> QED
      BY <3>2, <3>3
  <2>5. HashedOnce'
    BY <1>0, <1>5, SourceOfMember, ContentsOfSource DEF Freezing!TypeOK, RightSource, HashedOnce, Copying, Cloning, Freezing!Source,
        Freezing!CopyData, Freezing!Stop, Freezing!Next1, Freezing!CopyMatches
  <2>6. ClonedOnce'
    BY <1>0, <1>5, SourceOfMember, ContentsOfSource DEF RightSource, ClonedOnce, Copying, Cloning, Freezing!Source,
        Freezing!CopyData, Freezing!Stop, Freezing!Next1, Freezing!CopyMatches
  <2>7. Freezing!FrozenRuns'
    BY <1>5 DEF FreezeInv, Freezing!FrozenRuns, Freezing!Launched, Freezing!CopyData, Freezing!Stop, Freezing!Next1, Freezing!CopyMatches
  <2> QED
    BY <2>1, <2>2, <2>3, <2>4, <2>5, <2>6, <2>7 DEF FreezeInv
<1>6. ASSUME Freezing!Unwrap PROVE FreezeInv'
  <2>1. Freezing!TypeOK'
    BY <1>0, <1>6, NoContentsApart, ContentsOfSource, SourceOfMember DEF Freezing!TypeOK, RightSource,
        Copying, Cloning, Freezing!Source, Freezing!Unwrap, Freezing!Stop
  <2>2. PastKept'
    BY <1>0, <1>6 DEF PastKept, Freezing!Unwrap, Freezing!Stop
  <2>3. RightSource'
    BY <1>0, <1>6, SourceOfMember DEF Freezing!TypeOK, RightSource, Copying, Cloning, Freezing!Source, Freezing!Twins,
        Freezing!Unwrap, Freezing!Stop
  <2>4. MembersSound'
    BY <1>6, DoneStaysSound DEF Freezing!Unwrap, Freezing!Stop
  <2>5. HashedOnce'
    BY <1>0, <1>6, SourceOfMember, ContentsOfSource DEF Freezing!TypeOK, RightSource, HashedOnce, Copying, Cloning, Freezing!Source,
        Freezing!Unwrap, Freezing!Stop
  <2>6. ClonedOnce'
    BY <1>0, <1>6, SourceOfMember, ContentsOfSource DEF RightSource, ClonedOnce, Copying, Cloning, Freezing!Source,
        Freezing!Unwrap, Freezing!Stop
  <2>7. Freezing!FrozenRuns'
    BY <1>6 DEF FreezeInv, Freezing!FrozenRuns, Freezing!Launched, Freezing!Unwrap, Freezing!Stop
  <2> QED
    BY <2>1, <2>2, <2>3, <2>4, <2>5, <2>6, <2>7 DEF FreezeInv
<1>7. ASSUME Freezing!CloneState PROVE FreezeInv'
  <2>1. Freezing!TypeOK'
    BY <1>0, <1>7, NoContentsApart, ContentsOfSource, SourceOfMember DEF Freezing!TypeOK, RightSource,
        Copying, Cloning, Freezing!Source, Freezing!CloneState, Freezing!Stop
  <2>2. PastKept'
    BY <1>0, <1>7 DEF PastKept, Freezing!CloneState, Freezing!Stop
  <2>3. RightSource'
    BY <1>0, <1>7, SourceOfMember DEF Freezing!TypeOK, RightSource, Copying, Cloning, Freezing!Source, Freezing!Twins,
        Freezing!CloneState, Freezing!Stop
  <2>4. MembersSound'
    BY <1>7, DoneStaysSound DEF Freezing!CloneState, Freezing!Stop
  <2>5. HashedOnce'
    BY <1>0, <1>7, SourceOfMember, ContentsOfSource DEF Freezing!TypeOK, RightSource, HashedOnce, Copying, Cloning, Freezing!Source,
        Freezing!CloneState, Freezing!Stop
  <2>6. ClonedOnce'
    BY <1>0, <1>7, SourceOfMember, ContentsOfSource DEF RightSource, ClonedOnce, Copying, Cloning, Freezing!Source,
        Freezing!CloneState, Freezing!Stop
  <2>7. Freezing!FrozenRuns'
    BY <1>7 DEF FreezeInv, Freezing!FrozenRuns, Freezing!Launched, Freezing!CloneState, Freezing!Stop
  <2> QED
    BY <2>1, <2>2, <2>3, <2>4, <2>5, <2>6, <2>7 DEF FreezeInv
<1>8. ASSUME Freezing!CheckSchema PROVE FreezeInv'
  <2>1. Freezing!TypeOK'
    BY <1>0, <1>8, NoContentsApart, ContentsOfSource, SourceOfMember DEF Freezing!TypeOK, RightSource,
        Copying, Cloning, Freezing!Source, Freezing!CheckSchema, Freezing!Stop
  <2>2. PastKept'
    BY <1>0, <1>8 DEF PastKept, Freezing!CheckSchema, Freezing!Stop
  <2>3. RightSource'
    BY <1>0, <1>8, SourceOfMember DEF Freezing!TypeOK, RightSource, Copying, Cloning, Freezing!Source, Freezing!Twins,
        Freezing!CheckSchema, Freezing!Stop
  <2>4. MembersSound'
    BY <1>8, DoneStaysSound DEF Freezing!CheckSchema, Freezing!Stop
  <2>5. HashedOnce'
    BY <1>0, <1>8, SourceOfMember, ContentsOfSource DEF Freezing!TypeOK, RightSource, HashedOnce, Copying, Cloning, Freezing!Source,
        Freezing!CheckSchema, Freezing!Stop
  <2>6. ClonedOnce'
    BY <1>0, <1>8, SourceOfMember, ContentsOfSource DEF RightSource, ClonedOnce, Copying, Cloning, Freezing!Source,
        Freezing!CheckSchema, Freezing!Stop
  <2>7. Freezing!FrozenRuns'
    BY <1>8 DEF FreezeInv, Freezing!FrozenRuns, Freezing!Launched, Freezing!CheckSchema, Freezing!Stop
  <2> QED
    BY <2>1, <2>2, <2>3, <2>4, <2>5, <2>6, <2>7 DEF FreezeInv
<1>9. ASSUME Freezing!CheckGraph PROVE FreezeInv'
  <2>1. Freezing!TypeOK'
    BY <1>0, <1>9, NoContentsApart, ContentsOfSource, SourceOfMember DEF Freezing!TypeOK, RightSource,
        Copying, Cloning, Freezing!Source, Freezing!CheckGraph, Freezing!Stop
  <2>2. PastKept'
    BY <1>0, <1>9 DEF PastKept, Freezing!CheckGraph, Freezing!Stop
  <2>3. RightSource'
    BY <1>0, <1>9, SourceOfMember DEF Freezing!TypeOK, RightSource, Copying, Cloning, Freezing!Source, Freezing!Twins,
        Freezing!CheckGraph, Freezing!Stop
  <2>4. MembersSound'
    BY <1>9, DoneStaysSound DEF Freezing!CheckGraph, Freezing!Stop
  <2>5. HashedOnce'
    BY <1>0, <1>9, SourceOfMember, ContentsOfSource DEF Freezing!TypeOK, RightSource, HashedOnce, Copying, Cloning, Freezing!Source,
        Freezing!CheckGraph, Freezing!Stop
  <2>6. ClonedOnce'
    BY <1>0, <1>9, SourceOfMember, ContentsOfSource DEF RightSource, ClonedOnce, Copying, Cloning, Freezing!Source,
        Freezing!CheckGraph, Freezing!Stop
  <2>7. Freezing!FrozenRuns'
    BY <1>9 DEF FreezeInv, Freezing!FrozenRuns, Freezing!Launched, Freezing!CheckGraph, Freezing!Stop
  <2> QED
    BY <2>1, <2>2, <2>3, <2>4, <2>5, <2>6, <2>7 DEF FreezeInv
<1>10. ASSUME Freezing!CheckForward PROVE FreezeInv'
  <2>1. Freezing!TypeOK'
    BY <1>0, <1>10, NoContentsApart, ContentsOfSource, SourceOfMember DEF Freezing!TypeOK, RightSource,
        Copying, Cloning, Freezing!Source, Freezing!CheckForward, Freezing!Stop, Freezing!SameForward
  <2>2. PastKept'
    BY <1>0, <1>10 DEF PastKept, Freezing!CheckForward, Freezing!Stop, Freezing!SameForward
  <2>3. RightSource'
    BY <1>0, <1>10, SourceOfMember DEF Freezing!TypeOK, RightSource, Copying, Cloning, Freezing!Source, Freezing!Twins,
        Freezing!CheckForward, Freezing!Stop, Freezing!SameForward
  <2>4. MembersSound'
    BY <1>10, DoneStaysSound DEF Freezing!CheckForward, Freezing!Stop, Freezing!SameForward
  <2>5. HashedOnce'
    BY <1>0, <1>10, SourceOfMember, ContentsOfSource DEF Freezing!TypeOK, RightSource, HashedOnce, Copying, Cloning, Freezing!Source,
        Freezing!CheckForward, Freezing!Stop, Freezing!SameForward
  <2>6. ClonedOnce'
    BY <1>0, <1>10, SourceOfMember, ContentsOfSource DEF RightSource, ClonedOnce, Copying, Cloning, Freezing!Source,
        Freezing!CheckForward, Freezing!Stop, Freezing!SameForward
  <2>7. Freezing!FrozenRuns'
    BY <1>10 DEF FreezeInv, Freezing!FrozenRuns, Freezing!Launched, Freezing!CheckForward, Freezing!Stop, Freezing!SameForward
  <2> QED
    BY <2>1, <2>2, <2>3, <2>4, <2>5, <2>6, <2>7 DEF FreezeInv
<1>11. ASSUME Freezing!Export PROVE FreezeInv'
  <2> DEFINE c == staging
  <2>a. Sound(at, c) /\ c \in Freezing!Contents
    <3>1. Members[at] \in Sources /\ Members[at] \in Live /\ at \in Freezing!Index
      BY <1>0, <1>11, SourceOfMember DEF RightSource, Cloning, Freezing!Source, Freezing!Export
    <3>2. c \in past[Members[at]]
      BY <1>0, <1>11 DEF ClonedOnce, Freezing!Export, Freezing!Source
    <3> QED
      BY <1>0, <3>1, <3>2, ContentsOfSource, ModelsAssumption DEF Sound, PastKept, Freezing!Valid,
          Freezing!ArtifactAssumption
  <2>b. \/ /\ pc' = "refused" /\ staging' = Freezing!NoContents
           /\ UNCHANGED <<at, private, recorded>>
        \/ /\ private' = [private EXCEPT ![at] = c] /\ recorded' = [recorded EXCEPT ![at] = c]
           /\ staging' = Freezing!NoContents /\ at' = at + 1 /\ pc' = "member"
           /\ Sound(at, c) /\ c \in Freezing!Contents
    BY <1>11, <2>a DEF Freezing!Export, Freezing!Next1, Freezing!Stop
  <2>c. at \in Freezing!Index /\ at \in 1..Len(Members) /\ UNCHANGED <<origin, past, pin, hash, prepared, tampers>>
    BY <1>0, <1>11, SourceOfMember DEF RightSource, Copying, Cloning, Freezing!Export
  <2> HIDE DEF c
  <2>1. Freezing!TypeOK'
    <3>1. /\ private' \in [Freezing!Index -> Freezing!Contents \cup {Freezing!NoContents}]
          /\ recorded' \in [Freezing!Index -> Freezing!Contents \cup {Freezing!NoContents}]
      BY <1>0, <2>b DEF Freezing!TypeOK
    <3>2. at' \in 1..Len(Members) + 1
      BY <1>0, <2>b, <2>c DEF Freezing!TypeOK
    <3> QED
      BY <1>0, <2>b, <2>c, <3>1, <3>2, TypeFrame, NoContentsApart DEF Freezing!TypeOK
  <2>2. PastKept'
    BY <1>0, <1>11 DEF PastKept, Freezing!Export, Freezing!Stop, Freezing!Next1
  <2>3. RightSource'
    BY <1>0, <1>11, SourceOfMember DEF Freezing!TypeOK, RightSource, Copying, Cloning, Freezing!Source, Freezing!Twins,
        Freezing!Export, Freezing!Stop, Freezing!Next1
  <2>4. MembersSound'
    <3>1. Freezing!Twins = {}
      BY <1>0, <1>11, ModelsAssumption DEF RightSource, Cloning, Freezing!Export, Freezing!Twins,
          Freezing!ArtifactAssumption
    <3>2. CASE UNCHANGED <<at, recorded>>
      BY <2>c, <3>2, DoneStaysSound
    <3>3. CASE ~UNCHANGED <<at, recorded>>
      BY <2>b, <2>c, <3>1, <3>3, OneMoreSound
    <3> QED
      BY <3>2, <3>3
  <2>5. HashedOnce'
    BY <1>0, <1>11, SourceOfMember, ContentsOfSource DEF Freezing!TypeOK, RightSource, HashedOnce, Copying, Cloning, Freezing!Source,
        Freezing!Export, Freezing!Stop, Freezing!Next1
  <2>6. ClonedOnce'
    BY <1>0, <1>11, SourceOfMember, ContentsOfSource DEF RightSource, ClonedOnce, Copying, Cloning, Freezing!Source,
        Freezing!Export, Freezing!Stop, Freezing!Next1
  <2>7. Freezing!FrozenRuns'
    BY <1>11 DEF FreezeInv, Freezing!FrozenRuns, Freezing!Launched, Freezing!Export, Freezing!Stop, Freezing!Next1
  <2> QED
    BY <2>1, <2>2, <2>3, <2>4, <2>5, <2>6, <2>7 DEF FreezeInv
<1>12. ASSUME Freezing!WriteManifest PROVE FreezeInv'
  <2>1. Freezing!TypeOK'
    BY <1>0, <1>12, NoContentsApart, ContentsOfSource, SourceOfMember DEF Freezing!TypeOK, RightSource,
        Copying, Cloning, Freezing!Source, Freezing!WriteManifest
  <2>2. PastKept'
    BY <1>0, <1>12 DEF PastKept, Freezing!WriteManifest
  <2>3. RightSource'
    <3>1. at = Len(Members) + 1
      BY <1>0, <1>12, ModelsAssumption DEF Freezing!TypeOK, Freezing!WriteManifest, Freezing!Index,
          Freezing!ArtifactAssumption
    <3> QED
      BY <1>12, <3>1 DEF RightSource, Copying, Cloning, Freezing!WriteManifest
  <2>4. MembersSound'
    BY <1>12, DoneStaysSound DEF Freezing!WriteManifest
  <2>5. HashedOnce'
    BY <1>0, <1>12, SourceOfMember, ContentsOfSource DEF Freezing!TypeOK, RightSource, HashedOnce, Copying, Cloning, Freezing!Source,
        Freezing!WriteManifest
  <2>6. ClonedOnce'
    BY <1>0, <1>12, SourceOfMember, ContentsOfSource DEF RightSource, ClonedOnce, Copying, Cloning, Freezing!Source,
        Freezing!WriteManifest
  <2>7. Freezing!FrozenRuns'
    BY <1>12 DEF FreezeInv, Freezing!FrozenRuns, Freezing!Launched, Freezing!WriteManifest
  <2> QED
    BY <2>1, <2>2, <2>3, <2>4, <2>5, <2>6, <2>7 DEF FreezeInv
<1>13. ASSUME Freezing!ValidateEnsemble PROVE FreezeInv'
  <2>1. Freezing!TypeOK'
    BY <1>0, <1>13, NoContentsApart, ContentsOfSource, SourceOfMember DEF Freezing!TypeOK, RightSource,
        Copying, Cloning, Freezing!Source, Freezing!ValidateEnsemble, Freezing!Stop
  <2>2. PastKept'
    BY <1>0, <1>13 DEF PastKept, Freezing!ValidateEnsemble, Freezing!Stop
  <2>3. RightSource'
    BY <1>0, <1>13, SourceOfMember DEF Freezing!TypeOK, RightSource, Copying, Cloning, Freezing!Source, Freezing!Twins,
        Freezing!ValidateEnsemble, Freezing!Stop
  <2>4. MembersSound'
    BY <1>13, DoneStaysSound DEF Freezing!ValidateEnsemble, Freezing!Stop
  <2>5. HashedOnce'
    BY <1>0, <1>13, SourceOfMember, ContentsOfSource DEF Freezing!TypeOK, RightSource, HashedOnce, Copying, Cloning, Freezing!Source,
        Freezing!ValidateEnsemble, Freezing!Stop
  <2>6. ClonedOnce'
    BY <1>0, <1>13, SourceOfMember, ContentsOfSource DEF RightSource, ClonedOnce, Copying, Cloning, Freezing!Source,
        Freezing!ValidateEnsemble, Freezing!Stop
  <2>7. Freezing!FrozenRuns'
    BY <1>13 DEF FreezeInv, Freezing!FrozenRuns, Freezing!Launched, Freezing!ValidateEnsemble, Freezing!Stop
  <2> QED
    BY <2>1, <2>2, <2>3, <2>4, <2>5, <2>6, <2>7 DEF FreezeInv
<1>14. ASSUME Freezing!VerifyAndLaunch PROVE FreezeInv'
  <2>1. Freezing!TypeOK'
    BY <1>0, <1>14, NoContentsApart, ContentsOfSource, SourceOfMember DEF Freezing!TypeOK, RightSource,
        Copying, Cloning, Freezing!Source, Freezing!VerifyAndLaunch, Freezing!Stop, Freezing!Verified, Freezing!MembersMatch
  <2>2. PastKept'
    BY <1>0, <1>14 DEF PastKept, Freezing!VerifyAndLaunch, Freezing!Stop, Freezing!Verified, Freezing!MembersMatch
  <2>3. RightSource'
    BY <1>0, <1>14, SourceOfMember DEF Freezing!TypeOK, RightSource, Copying, Cloning, Freezing!Source, Freezing!Twins,
        Freezing!VerifyAndLaunch, Freezing!Stop, Freezing!Verified, Freezing!MembersMatch
  <2>4. MembersSound'
    BY <1>14, DoneStaysSound DEF Freezing!VerifyAndLaunch, Freezing!Stop, Freezing!Verified, Freezing!MembersMatch
  <2>5. HashedOnce'
    BY <1>0, <1>14, SourceOfMember, ContentsOfSource DEF Freezing!TypeOK, RightSource, HashedOnce, Copying, Cloning, Freezing!Source,
        Freezing!VerifyAndLaunch, Freezing!Stop, Freezing!Verified, Freezing!MembersMatch
  <2>6. ClonedOnce'
    BY <1>0, <1>14, SourceOfMember, ContentsOfSource DEF RightSource, ClonedOnce, Copying, Cloning, Freezing!Source,
        Freezing!VerifyAndLaunch, Freezing!Stop, Freezing!Verified, Freezing!MembersMatch
  <2>7. Freezing!FrozenRuns'
    BY <1>14 DEF FreezeInv, Freezing!FrozenRuns, Freezing!Launched, Freezing!VerifyAndLaunch, Freezing!Stop, Freezing!Verified, Freezing!MembersMatch
  <2> QED
    BY <2>1, <2>2, <2>3, <2>4, <2>5, <2>6, <2>7 DEF FreezeInv
<1>15. ASSUME NEW s \in Sources, NEW f \in Freezing!Files, Freezing!Rewrite(s, f) PROVE FreezeInv'
  <2>1. Freezing!TypeOK'
    <3> USE ModelsAssumption DEF Freezing!ArtifactAssumption
    <3>1. origin[s][f] + 1 \in 0..MaxEdits /\ [origin[s] EXCEPT ![f] = @ + 1] \in [Freezing!Files -> 0..MaxEdits]
      BY <1>0, <1>15 DEF PastKept, Freezing!Rewrite
    <3>2. origin' \in [Sources -> [Freezing!Files -> 0..MaxEdits]]
      BY <1>0, <1>15, <3>1 DEF PastKept, Freezing!Rewrite
    <3>3. \A r \in Sources : origin'[r] \in Freezing!Contents
      BY <3>2 DEF Freezing!Contents
    <3>4. \A r \in Sources : origin'[r] \in past'[r] /\ past'[r] \subseteq Freezing!Contents
      BY <1>0, <1>15, <3>3 DEF PastKept, Freezing!TypeOK, Freezing!Rewrite
    <3>5. origin' \in [Sources -> Freezing!Contents]
      BY <3>2, <3>3
    <3> QED
      BY <1>0, <1>15, <3>4, <3>5 DEF Freezing!TypeOK, Freezing!Rewrite
  <2>2. PastKept'
    <3> USE ModelsAssumption DEF Freezing!ArtifactAssumption
    <3>1. origin[s][f] + 1 \in 0..MaxEdits /\ [origin[s] EXCEPT ![f] = @ + 1] \in [Freezing!Files -> 0..MaxEdits]
      BY <1>0, <1>15 DEF PastKept, Freezing!Rewrite
    <3>2. origin' \in [Sources -> [Freezing!Files -> 0..MaxEdits]]
      BY <1>0, <1>15, <3>1 DEF PastKept, Freezing!Rewrite
    <3>3. origin'[s] \in Freezing!Contents
      BY <3>2 DEF Freezing!Contents
    <3>4. past[s] \cup {origin'[s]} \in SUBSET Freezing!Contents
      BY <1>0, <3>3 DEF PastKept
    <3>5. past' \in [Sources -> SUBSET Freezing!Contents]
      BY <1>0, <1>15, <3>4 DEF PastKept, Freezing!Rewrite
    <3> QED
      BY <1>0, <1>15, <3>2, <3>5 DEF PastKept, Freezing!Rewrite
  <2>3. RightSource'
    BY <1>0, <1>15, SourceOfMember DEF Freezing!TypeOK, RightSource, Copying, Cloning, Freezing!Source, Freezing!Twins,
        Freezing!Rewrite
  <2>4. MembersSound'
    BY <1>15, DoneStaysSound DEF Freezing!Rewrite
  <2>5. HashedOnce'
    BY <1>0, <1>15, SourceOfMember, ContentsOfSource DEF Freezing!TypeOK, RightSource, HashedOnce, Copying, Cloning, Freezing!Source,
        Freezing!Rewrite
  <2>6. ClonedOnce'
    BY <1>0, <1>15, SourceOfMember, ContentsOfSource DEF RightSource, ClonedOnce, Copying, Cloning, Freezing!Source,
        Freezing!Rewrite
  <2>7. Freezing!FrozenRuns'
    BY <1>15 DEF FreezeInv, Freezing!FrozenRuns, Freezing!Launched, Freezing!Rewrite
  <2> QED
    BY <2>1, <2>2, <2>3, <2>4, <2>5, <2>6, <2>7 DEF FreezeInv
<1>16. ASSUME NEW k \in Freezing!Index, Freezing!Tamper(k) PROVE FreezeInv'
  <2>1. Freezing!TypeOK'
    <3> USE ModelsAssumption DEF Freezing!ArtifactAssumption
    <3>1. MaxEdits + tampers + 1 \in 0..MaxEdits + MaxTampers /\ tampers + 1 \in 0..MaxTampers
      BY <1>0, <1>16 DEF Freezing!TypeOK, Freezing!Tamper
    <3>2. \A j \in Freezing!Index : private[j] # Freezing!NoContents =>
             [private[j] EXCEPT !.blob = MaxEdits + tampers + 1] \in Freezing!Contents
      BY <1>0, <3>1 DEF Freezing!TypeOK, Freezing!Contents, Freezing!Files
    <3>3. private' \in [Freezing!Index -> Freezing!Contents \cup {Freezing!NoContents}]
      BY <1>0, <1>16, <3>2 DEF Freezing!TypeOK, Freezing!Tamper
    <3> QED
      BY <1>0, <1>16, <3>1, <3>3 DEF Freezing!TypeOK, Freezing!Tamper
  <2>2. PastKept'
    BY <1>0, <1>16 DEF PastKept, Freezing!Tamper
  <2>3. RightSource'
    BY <1>0, <1>16, SourceOfMember DEF Freezing!TypeOK, RightSource, Copying, Cloning, Freezing!Source, Freezing!Twins,
        Freezing!Tamper
  <2>4. MembersSound'
    BY <1>16, DoneStaysSound DEF Freezing!Tamper
  <2>5. HashedOnce'
    BY <1>0, <1>16, SourceOfMember, ContentsOfSource DEF Freezing!TypeOK, RightSource, HashedOnce, Copying, Cloning, Freezing!Source,
        Freezing!Tamper
  <2>6. ClonedOnce'
    BY <1>0, <1>16, SourceOfMember, ContentsOfSource DEF RightSource, ClonedOnce, Copying, Cloning, Freezing!Source,
        Freezing!Tamper
  <2>7. Freezing!FrozenRuns'
    BY <1>16 DEF FreezeInv, Freezing!FrozenRuns, Freezing!Launched, Freezing!Tamper
  <2> QED
    BY <2>1, <2>2, <2>3, <2>4, <2>5, <2>6, <2>7 DEF FreezeInv
<1>17. CASE UNCHANGED Freezing!vars
  <2>1. Freezing!TypeOK' /\ PastKept' /\ RightSource' /\ HashedOnce' /\ ClonedOnce' /\ Freezing!FrozenRuns'
    BY <1>0, <1>17 DEF Freezing!vars, FreezeInv, Freezing!TypeOK, PastKept, RightSource, HashedOnce,
        ClonedOnce, Freezing!FrozenRuns, Freezing!Launched, Freezing!Source, Freezing!Twins
  <2>2. MembersSound'
    BY <1>17, DoneStaysSound DEF Freezing!vars
  <2> QED
    BY <2>1, <2>2 DEF FreezeInv
<1> QED
  BY <1>1, <1>2, <1>3, <1>4, <1>5, <1>6, <1>7, <1>8, <1>9, <1>10, <1>11, <1>12, <1>13, <1>14, <1>15, <1>16, <1>17 DEF Freezing!Next

\* Every member of a launched ensemble is what its source held at one moment, whole,
\* as pinned and as frozen, and heads of one bundle run one copy
\* (models.py:147, 323, 736-760).
THEOREM FrozenModelsRun == Spec => []FrozenRuns
<1> DEFINE Here == part = "model" => FreezeInv
<1>1. Init => Here
  BY FreezeStart DEF Init
<1>2. Here /\ [Next]_allVars => Here'
  <2> SUFFICES ASSUME Here, [Next]_allVars, part' = "model" PROVE FreezeInv'
    OBVIOUS
  <2>1. ASSUME FreezeModel PROVE FreezeInv'
    BY <2>1, FreezeKeep DEF FreezeModel
  <2>2. ASSUME CallStep \/ RouteStep \/ FetchSources \/ BuildRunner \/ PublishResults \/ FitFrontier
        PROVE  FALSE
    BY <2>2 DEF CallStep, RouteStep, FetchSources, BuildRunner, PublishResults, FitFrontier
  <2>3. CASE UNCHANGED allVars
    <3>1. UNCHANGED Freezing!vars /\ part = "model"
      BY <2>3 DEF allVars, modelVars, Freezing!vars
    <3> QED
      BY <3>1, FreezeKeep
  <2> QED
    BY <2>1, <2>2, <2>3 DEF Next
<1>3. Here => FrozenRuns
  <2> SUFFICES ASSUME FreezeInv PROVE FrozenRuns
    BY DEF FrozenRuns
  <2>1. ASSUME Freezing!Launched
        PROVE  /\ \A i \in Freezing!Index : Sound(i, private[i])
               /\ \A i, j \in Freezing!Index :
                     (Members[i] = Members[j] /\ Members[i] \in Shareable) => private[i] = private[j]
    <3>1. private = recorded /\ \A i \in Freezing!Index : i < at
      BY <2>1, SourceOfMember, ModelsAssumption
         DEF FreezeInv, Freezing!FrozenRuns, RightSource, Freezing!Launched, Freezing!ArtifactAssumption
    <3> QED
      BY <3>1 DEF FreezeInv, MembersSound
  <2>2. Freezing!OneMoment /\ Freezing!WholeBundles /\ Freezing!PinsHold /\ Freezing!OneCopy
    BY <2>1 DEF Sound, Freezing!OneMoment, Freezing!WholeBundles, Freezing!PinsHold, Freezing!OneCopy,
        Freezing!Valid, Freezing!BoundFiles
  <2>3. Freezing!ExportedWasChecked
    BY DEF FreezeInv, ClonedOnce, Freezing!ExportedWasChecked
  <2> QED
    BY <2>2, <2>3 DEF FreezeInv, FrozenRuns
<1> QED
  BY <1>1, <1>2, <1>3, PTL DEF Spec

-----------------------------------------------------------------------------
(* Published results.                                                       *)

Sending == {"submit", "wait", "combine", "poll", "sync"}

\* The parts are sent in order, and only what replays.
SentInOrder ==
    /\ submitting \in Nat \ {0}
    /\ submitted \subseteq 1..submitting
    /\ pc = "prepare" => submitting = 1 /\ submitted = {}
    /\ pc = "wait" => submitting \in Parts /\ submitted = 1..submitting
    /\ pc \in {"combine", "poll", "sync"} => \A i \in Parts : i < submitting
    /\ pc \in Sending => replays = "all"
    /\ \A i \in Parts : service[i] # "absent" =>
         i \in submitted /\ replays = "all" /\ origin[i] \in Origins

\* The parts that were accepted so far are at the endpoint they were compared with.
AtEndpoint ==
    pc \in Sending => \A i \in Parts : i < submitting => endpoint # "none" /\ origin[i] = endpoint

\* What the receipts say is what the service said; before they are synchronised
\* the parts' own receipts say at most that they are queued.
ReceiptsTrue ==
    /\ \A i \in Parts :
         manifest[i] # "absent" \/ combined[i] # "absent" => service[i] # "absent"
    /\ pc # "done" => \A i \in Parts : manifest[i] \in {"absent", "queued"}
    /\ \A i \in Parts : combined[i] \in Publishing!Settled => service[i] = combined[i]

Verdict ==
    /\ pc # "done" => result = Publishing!NoResult
    /\ result.status = "published" => Publishing!AllSettledWell
    /\ Publishing!ManifestsCurrent /\ Publishing!ReceiptsNamed

PublicationInv ==
    /\ Publishing!TypeOK /\ SentInOrder /\ AtEndpoint /\ ReceiptsTrue /\ Verdict

LEMMA PublicationStart == Publishing!Init => PublicationInv
<1> SUFFICES ASSUME Publishing!Init PROVE PublicationInv
  OBVIOUS
<1>1. submitted = 1..(submitting - 1)
  BY DEF Publishing!Init
<1>2. Publishing!TypeOK
  BY <1>1 DEF Publishing!Init, Publishing!NoResult, Publishing!TypeOK, Publishing!Known
<1>3. SentInOrder /\ AtEndpoint
  BY DEF Publishing!Init, SentInOrder, Sending, AtEndpoint
<1>4. ReceiptsTrue
  BY DEF Publishing!Init, ReceiptsTrue, Publishing!Settled
<1>5. Verdict
  BY DEF Publishing!Init, Verdict, Publishing!NoResult, Publishing!ManifestsCurrent,
      Publishing!ReceiptsNamed
<1> QED
  BY <1>2, <1>3, <1>4, <1>5 DEF PublicationInv

\* A part that is there comes after parts that are there, and when there is none at a
\* number, there is none beyond it.
LEMMA PartsInOrder ==
    /\ Parts \subseteq Nat \ {0}
    /\ \A i \in Parts : 1..i \subseteq Parts
    /\ \A n \in Nat \ {0} : n \notin Parts => \A i \in Parts : i < n
    /\ "none" \notin Origins
  BY PartsAssumption DEF Publishing!PublicationAssumption

LEMMA PublicationKeep ==
  ASSUME PublicationInv, Publishing!Next \/ UNCHANGED Publishing!vars
  PROVE  PublicationInv'
<1>0. Publishing!TypeOK /\ SentInOrder /\ AtEndpoint /\ ReceiptsTrue /\ Verdict
  BY DEF PublicationInv
<1> USE PartsInOrder DEF Publishing!Known, Publishing!Settled, Sending
<1>1. ASSUME Publishing!Prepare PROVE PublicationInv'
  <2>1. Publishing!TypeOK'
    BY <1>0, <1>1 DEF Publishing!TypeOK, Publishing!Prepare, Publishing!Finish,
        Publishing!Replayed
  <2>2. SentInOrder'
    BY <1>0, <1>1 DEF Publishing!TypeOK, SentInOrder, Publishing!Prepare, Publishing!Finish,
        Publishing!Replayed
  <2>3. AtEndpoint'
    <3>1. submitting' = 1
      BY <1>0, <1>1 DEF SentInOrder, Publishing!Prepare
    <3>2. \A i \in Parts : ~(i < 1)
      OBVIOUS
    <3> QED
      BY <3>1, <3>2 DEF AtEndpoint
  <2>4. ReceiptsTrue'
    BY <1>0, <1>1 DEF Publishing!TypeOK, ReceiptsTrue, Publishing!Prepare, Publishing!Finish,
        Publishing!Replayed, SentInOrder
  <2>5. Verdict'
    <3>1. pc' # "done" => result' = Publishing!NoResult
      BY <1>0, <1>1 DEF Verdict, Publishing!Prepare, Publishing!Finish
    <3>2. result'.status \in {"none", "nothing", "raised"}
      BY <1>0, <1>1 DEF Verdict, Publishing!Prepare, Publishing!Finish, Publishing!NoResult
    <3>3. \A i \in Parts : service'[i] = "absent"
      BY <1>0, <1>1 DEF SentInOrder, Publishing!Prepare
    <3> QED
      BY <3>1, <3>2, <3>3 DEF Verdict, Publishing!ManifestsCurrent, Publishing!ReceiptsNamed
  <2> QED
    BY <2>1, <2>2, <2>3, <2>4, <2>5 DEF PublicationInv
<1>2. ASSUME Publishing!NextPart PROVE PublicationInv'
  <2>1. Publishing!TypeOK'
    BY <1>0, <1>2 DEF Publishing!TypeOK, Publishing!NextPart, Publishing!Finish
  <2>2. SentInOrder'
    <3>1. pc = "submit" /\ UNCHANGED <<replays, submitting, service, origin>>
      BY <1>2 DEF Publishing!NextPart
    <3>2. submitting \in Nat \ {0} /\ submitted = 1..(submitting - 1)
      BY <1>0, <3>1 DEF Publishing!TypeOK, SentInOrder
    <3>3. 1..submitting = 1..(submitting - 1) \cup {submitting}
      BY <3>2
    <3>4. /\ submitted' \in {submitted, 1..submitting} /\ submitted \subseteq submitted'
          /\ pc' = "wait" => submitting \in Parts /\ submitted' = 1..submitting
      BY <1>2, <3>2, <3>3 DEF Publishing!NextPart, Publishing!Finish
    <3>5. pc' # "prepare" /\ (pc' \in {"combine", "poll", "sync"} => submitting \notin Parts)
      BY <1>2 DEF Publishing!NextPart, Publishing!Finish
    <3> QED
      BY <1>0, <3>1, <3>2, <3>3, <3>4, <3>5 DEF SentInOrder
  <2>3. AtEndpoint'
    BY <1>0, <1>2 DEF Publishing!TypeOK, AtEndpoint, Publishing!NextPart, Publishing!Finish
  <2>4. ReceiptsTrue'
    BY <1>0, <1>2 DEF Publishing!TypeOK, ReceiptsTrue, Publishing!NextPart, Publishing!Finish,
        SentInOrder
  <2>5. Verdict'
    <3>1. pc = "submit" /\ result = Publishing!NoResult /\ UNCHANGED <<submitting, service>>
      BY <1>0, <1>2 DEF Verdict, Publishing!NextPart
    <3>2. \/ pc' # "done" /\ result' = result
          \/ /\ pc' = "done" /\ result'.status = "pending_or_failed"
             /\ result'.receipts = 1..submitting
      BY <1>2 DEF Publishing!NextPart, Publishing!Finish
    <3>3. {i \in Parts : service[i] # "absent"} \subseteq 1..submitting
      BY <1>0 DEF SentInOrder
    <3>4. /\ pc' # "done" => result' = Publishing!NoResult
          /\ result'.status # "published"
      BY <3>1, <3>2 DEF Publishing!NoResult
    <3>5. Publishing!ReceiptsNamed'
      BY <3>1, <3>2, <3>3 DEF Publishing!ReceiptsNamed
    <3> QED
      BY <3>4, <3>5 DEF Verdict, Publishing!ManifestsCurrent
  <2> QED
    BY <2>1, <2>2, <2>3, <2>4, <2>5 DEF PublicationInv
<1>3. ASSUME Publishing!ClientReturns PROVE PublicationInv'
  <2>1. Publishing!TypeOK'
    <3>1. pc = "wait" /\ submitting \in Parts /\ submitted = 1..submitting
      BY <1>0, <1>3 DEF SentInOrder, Publishing!ClientReturns
    <3>2. 1..submitting \subseteq Parts /\ submitting + 1 \in Nat /\ (submitting + 1) - 1 = submitting
      BY <3>1
    <3>3. \/ pc' = "done" /\ UNCHANGED <<submitting, endpoint>>
          \/ /\ pc' = "submit" /\ submitting' = submitting + 1
             /\ manifest[submitting] # "absent" /\ endpoint' = origin[submitting]
             /\ UNCHANGED result
      BY <1>3 DEF Publishing!ClientReturns, Publishing!Finish, Publishing!FollowingPart
    <3>4. UNCHANGED result \/ (/\ result'.status \in {"pending_or_failed", "raised"}
                              /\ result'.receipts \in {{}, 1..submitting})
      BY <1>3 DEF Publishing!ClientReturns, Publishing!Finish, Publishing!NamedReceipts
    <3>5. result'.receipts \subseteq Parts
           /\ result'.status \in {"none", "nothing", "raised", "pending_or_failed", "published"}
      BY <1>0, <3>2, <3>4 DEF Publishing!TypeOK
    <3>6. UNCHANGED <<replays, submitted, late, service, origin, manifest, combined>>
      BY <1>3 DEF Publishing!ClientReturns
    <3>7. manifest[submitting] # "absent" => origin[submitting] \in Origins
      BY <1>0, <3>1 DEF SentInOrder, ReceiptsTrue
    <3>8. submitting' \in Nat /\ endpoint' \in Origins \cup {"none"}
      BY <1>0, <3>2, <3>3, <3>7 DEF Publishing!TypeOK
    <3>9. pc' \in {"submit", "done"} /\ (pc' = "submit" => submitted' = 1..(submitting' - 1))
      BY <3>1, <3>2, <3>3, <3>6
    <3> QED
      BY <1>0, <3>5, <3>6, <3>8, <3>9 DEF Publishing!TypeOK
  <2>2. SentInOrder'
    BY <1>0, <1>3 DEF Publishing!TypeOK, SentInOrder, Publishing!ClientReturns,
        Publishing!Finish, Publishing!SameOrigin, Publishing!NamedReceipts,
        Publishing!FollowingPart
  <2>3. AtEndpoint'
    <3>1. pc = "wait" /\ submitting \in Parts /\ UNCHANGED origin
      BY <1>0, <1>3 DEF SentInOrder, Publishing!ClientReturns
    <3>2. \/ pc' = "done"
          \/ /\ submitting' = submitting + 1 /\ endpoint' = origin[submitting]
             /\ manifest[submitting] # "absent"
             /\ endpoint = "none" \/ origin[submitting] = endpoint
      BY <1>3 DEF Publishing!ClientReturns, Publishing!Finish, Publishing!SameOrigin,
          Publishing!FollowingPart
    <3>3. manifest[submitting] # "absent" => origin[submitting] # "none"
      BY <1>0, <3>1 DEF SentInOrder, ReceiptsTrue
    <3>4. \A i \in Parts : i < submitting + 1 => i < submitting \/ i = submitting
      BY <3>1
    <3> QED
      BY <1>0, <3>1, <3>2, <3>3, <3>4 DEF AtEndpoint
  <2>4. ReceiptsTrue'
    BY <1>0, <1>3 DEF Publishing!TypeOK, ReceiptsTrue, Publishing!ClientReturns,
        Publishing!Finish, Publishing!SameOrigin, Publishing!NamedReceipts,
        Publishing!FollowingPart, SentInOrder
  <2>5. Verdict'
    <3>1. pc = "wait" /\ submitted = 1..submitting /\ result = Publishing!NoResult
           /\ UNCHANGED service
      BY <1>0, <1>3 DEF SentInOrder, Verdict, Publishing!ClientReturns
    <3>2. \/ pc' # "done" /\ result' = result
          \/ /\ pc' = "done" /\ result'.status = "pending_or_failed"
             /\ result'.receipts = 1..submitting
          \/ pc' = "done" /\ result'.status = "raised"
      BY <1>3 DEF Publishing!ClientReturns, Publishing!Finish, Publishing!NamedReceipts
    <3>3. {i \in Parts : service[i] # "absent"} \subseteq 1..submitting
      BY <1>0 DEF SentInOrder
    <3>4. /\ pc' # "done" => result' = Publishing!NoResult
          /\ result'.status # "published"
      BY <3>1, <3>2 DEF Publishing!NoResult
    <3>5. Publishing!ReceiptsNamed'
      BY <3>1, <3>2, <3>3 DEF Publishing!ReceiptsNamed
    <3> QED
      BY <3>4, <3>5 DEF Verdict, Publishing!ManifestsCurrent
  <2> QED
    BY <2>1, <2>2, <2>3, <2>4, <2>5 DEF PublicationInv
<1>4. ASSUME Publishing!Combine PROVE PublicationInv'
  <2>1. Publishing!TypeOK'
    BY <1>0, <1>4 DEF Publishing!TypeOK, Publishing!Combine, Publishing!Finish
  <2>2. SentInOrder'
    BY <1>0, <1>4 DEF Publishing!TypeOK, SentInOrder, Publishing!Combine, Publishing!Finish
  <2>3. AtEndpoint'
    BY <1>0, <1>4 DEF Publishing!TypeOK, AtEndpoint, Publishing!Combine, Publishing!Finish
  <2>4. ReceiptsTrue'
    BY <1>0, <1>4 DEF Publishing!TypeOK, ReceiptsTrue, Publishing!Combine, Publishing!Finish,
        SentInOrder
  <2>5. Verdict'
    BY <1>0, <1>4 DEF Publishing!TypeOK, Verdict, Publishing!NoResult,
        Publishing!AllSettledWell, Publishing!ManifestsCurrent, Publishing!ReceiptsNamed,
        Publishing!Combine, Publishing!Finish, SentInOrder
  <2> QED
    BY <2>1, <2>2, <2>3, <2>4, <2>5 DEF PublicationInv
<1>5. ASSUME Publishing!PollReturns PROVE PublicationInv'
  <2>1. Publishing!TypeOK'
    BY <1>0, <1>5 DEF Publishing!TypeOK, Publishing!PollReturns, Publishing!Finish
  <2>2. SentInOrder'
    BY <1>0, <1>5 DEF Publishing!TypeOK, SentInOrder, Publishing!PollReturns, Publishing!Finish
  <2>3. AtEndpoint'
    BY <1>0, <1>5 DEF Publishing!TypeOK, AtEndpoint, Publishing!PollReturns, Publishing!Finish
  <2>4. ReceiptsTrue'
    BY <1>0, <1>5 DEF Publishing!TypeOK, ReceiptsTrue, Publishing!PollReturns,
        Publishing!Finish, SentInOrder
  <2>5. Verdict'
    BY <1>0, <1>5 DEF Publishing!TypeOK, Verdict, Publishing!NoResult,
        Publishing!AllSettledWell, Publishing!ManifestsCurrent, Publishing!ReceiptsNamed,
        Publishing!PollReturns, Publishing!Finish, SentInOrder
  <2> QED
    BY <2>1, <2>2, <2>3, <2>4, <2>5 DEF PublicationInv
<1>6. ASSUME Publishing!Sync PROVE PublicationInv'
  <2>1. Publishing!TypeOK'
    BY <1>0, <1>6 DEF Publishing!TypeOK, Publishing!Sync, Publishing!Finish, Publishing!Synced,
        Publishing!AllSettledWell
  <2>2. SentInOrder'
    BY <1>0, <1>6 DEF Publishing!TypeOK, SentInOrder, Publishing!Sync, Publishing!Finish,
        Publishing!Synced, Publishing!AllSettledWell
  <2>3. AtEndpoint'
    BY <1>0, <1>6 DEF Publishing!TypeOK, AtEndpoint, Publishing!Sync, Publishing!Finish,
        Publishing!Synced, Publishing!AllSettledWell
  <2>4. ReceiptsTrue'
    BY <1>0, <1>6 DEF Publishing!TypeOK, ReceiptsTrue, Publishing!Sync, Publishing!Finish,
        Publishing!Synced, Publishing!AllSettledWell, SentInOrder
  <2>5. Verdict'
    BY <1>0, <1>6 DEF Publishing!TypeOK, Verdict, Publishing!NoResult,
        Publishing!AllSettledWell, Publishing!ManifestsCurrent, Publishing!ReceiptsNamed,
        Publishing!Sync, Publishing!Finish, Publishing!Synced, SentInOrder, ReceiptsTrue
  <2> QED
    BY <2>1, <2>2, <2>3, <2>4, <2>5 DEF PublicationInv
<1>7. ASSUME Publishing!Elapse PROVE PublicationInv'
  <2>1. Publishing!TypeOK'
    BY <1>0, <1>7 DEF Publishing!TypeOK, Publishing!Elapse
  <2>2. SentInOrder'
    BY <1>0, <1>7 DEF Publishing!TypeOK, SentInOrder, Publishing!Elapse
  <2>3. AtEndpoint'
    BY <1>0, <1>7 DEF Publishing!TypeOK, AtEndpoint, Publishing!Elapse
  <2>4. ReceiptsTrue'
    BY <1>0, <1>7 DEF Publishing!TypeOK, ReceiptsTrue, Publishing!Elapse, SentInOrder
  <2>5. Verdict'
    BY <1>0, <1>7 DEF Publishing!TypeOK, Verdict, Publishing!NoResult,
        Publishing!AllSettledWell, Publishing!ManifestsCurrent, Publishing!ReceiptsNamed,
        Publishing!Elapse, SentInOrder
  <2> QED
    BY <2>1, <2>2, <2>3, <2>4, <2>5 DEF PublicationInv
<1>8. ASSUME Publishing!ClientSends PROVE PublicationInv'
  <2>1. Publishing!TypeOK'
    <3>1. PICK o \in Origins : /\ origin' = [origin EXCEPT ![submitting] = o]
                              /\ service' = [service EXCEPT ![submitting] = "queued"]
      BY <1>8 DEF Publishing!ClientSends
    <3>2. origin' \in [Parts -> Origins \cup {"none"}]
      BY <1>0, <3>1 DEF Publishing!TypeOK
    <3>3. service' \in [Parts -> Publishing!Known \cup {"absent"}]
      BY <1>0, <3>1 DEF Publishing!TypeOK
    <3> QED
      BY <1>0, <1>8, <3>2, <3>3 DEF Publishing!TypeOK, Publishing!ClientSends
  <2>2. SentInOrder'
    BY <1>0, <1>8 DEF Publishing!TypeOK, SentInOrder, Publishing!ClientSends
  <2>3. AtEndpoint'
    BY <1>0, <1>8 DEF Publishing!TypeOK, AtEndpoint, Publishing!ClientSends
  <2>4. ReceiptsTrue'
    BY <1>0, <1>8 DEF Publishing!TypeOK, ReceiptsTrue, Publishing!ClientSends, SentInOrder
  <2>5. Verdict'
    BY <1>0, <1>8 DEF Publishing!TypeOK, Verdict, Publishing!NoResult,
        Publishing!AllSettledWell, Publishing!ManifestsCurrent, Publishing!ReceiptsNamed,
        Publishing!ClientSends, SentInOrder
  <2> QED
    BY <2>1, <2>2, <2>3, <2>4, <2>5 DEF PublicationInv
<1>9. ASSUME Publishing!ReceiptSaved PROVE PublicationInv'
  <2>1. Publishing!TypeOK'
    BY <1>0, <1>9 DEF Publishing!TypeOK, Publishing!ReceiptSaved
  <2>2. SentInOrder'
    BY <1>0, <1>9 DEF Publishing!TypeOK, SentInOrder, Publishing!ReceiptSaved
  <2>3. AtEndpoint'
    BY <1>0, <1>9 DEF Publishing!TypeOK, AtEndpoint, Publishing!ReceiptSaved
  <2>4. ReceiptsTrue'
    BY <1>0, <1>9 DEF Publishing!TypeOK, ReceiptsTrue, Publishing!ReceiptSaved, SentInOrder
  <2>5. Verdict'
    BY <1>0, <1>9 DEF Publishing!TypeOK, Verdict, Publishing!NoResult,
        Publishing!AllSettledWell, Publishing!ManifestsCurrent, Publishing!ReceiptsNamed,
        Publishing!ReceiptSaved, SentInOrder
  <2> QED
    BY <2>1, <2>2, <2>3, <2>4, <2>5 DEF PublicationInv
<1>10. ASSUME Publishing!PollFails PROVE PublicationInv'
  <2>1. Publishing!TypeOK'
    BY <1>0, <1>10 DEF Publishing!TypeOK, Publishing!PollFails
  <2>2. SentInOrder'
    BY <1>0, <1>10 DEF Publishing!TypeOK, SentInOrder, Publishing!PollFails
  <2>3. AtEndpoint'
    BY <1>0, <1>10 DEF Publishing!TypeOK, AtEndpoint, Publishing!PollFails
  <2>4. ReceiptsTrue'
    BY <1>0, <1>10 DEF Publishing!TypeOK, ReceiptsTrue, Publishing!PollFails, SentInOrder
  <2>5. Verdict'
    BY <1>0, <1>10 DEF Publishing!TypeOK, Verdict, Publishing!NoResult,
        Publishing!AllSettledWell, Publishing!ManifestsCurrent, Publishing!ReceiptsNamed,
        Publishing!PollFails, SentInOrder
  <2> QED
    BY <2>1, <2>2, <2>3, <2>4, <2>5 DEF PublicationInv
<1>11. ASSUME NEW i \in Parts, Publishing!ServiceSettles(i) PROVE PublicationInv'
  <2>1. Publishing!TypeOK'
    BY <1>0, <1>11 DEF Publishing!TypeOK, Publishing!ServiceSettles
  <2>2. SentInOrder'
    BY <1>0, <1>11 DEF Publishing!TypeOK, SentInOrder, Publishing!ServiceSettles
  <2>3. AtEndpoint'
    BY <1>0, <1>11 DEF Publishing!TypeOK, AtEndpoint, Publishing!ServiceSettles
  <2>4. ReceiptsTrue'
    BY <1>0, <1>11 DEF Publishing!TypeOK, ReceiptsTrue, Publishing!ServiceSettles, SentInOrder
  <2>5. Verdict'
    BY <1>0, <1>11 DEF Publishing!TypeOK, Verdict, Publishing!NoResult,
        Publishing!AllSettledWell, Publishing!ManifestsCurrent, Publishing!ReceiptsNamed,
        Publishing!ServiceSettles, SentInOrder
  <2> QED
    BY <2>1, <2>2, <2>3, <2>4, <2>5 DEF PublicationInv
<1>12. ASSUME NEW i \in Parts, Publishing!Observe(i) PROVE PublicationInv'
  <2>1. Publishing!TypeOK'
    BY <1>0, <1>12 DEF Publishing!TypeOK, Publishing!Observe
  <2>2. SentInOrder'
    BY <1>0, <1>12 DEF Publishing!TypeOK, SentInOrder, Publishing!Observe
  <2>3. AtEndpoint'
    BY <1>0, <1>12 DEF Publishing!TypeOK, AtEndpoint, Publishing!Observe
  <2>4. ReceiptsTrue'
    BY <1>0, <1>12 DEF Publishing!TypeOK, ReceiptsTrue, Publishing!Observe, SentInOrder
  <2>5. Verdict'
    BY <1>0, <1>12 DEF Publishing!TypeOK, Verdict, Publishing!NoResult,
        Publishing!AllSettledWell, Publishing!ManifestsCurrent, Publishing!ReceiptsNamed,
        Publishing!Observe, SentInOrder
  <2> QED
    BY <2>1, <2>2, <2>3, <2>4, <2>5 DEF PublicationInv
<1>13. CASE UNCHANGED Publishing!vars
  <2>1. Publishing!TypeOK'
    BY <1>0, <1>13 DEF Publishing!TypeOK, Publishing!vars
  <2>2. SentInOrder'
    BY <1>0, <1>13 DEF Publishing!TypeOK, SentInOrder, Publishing!vars
  <2>3. AtEndpoint'
    BY <1>0, <1>13 DEF Publishing!TypeOK, AtEndpoint, Publishing!vars
  <2>4. ReceiptsTrue'
    BY <1>0, <1>13 DEF Publishing!TypeOK, ReceiptsTrue, Publishing!vars, SentInOrder
  <2>5. Verdict'
    BY <1>0, <1>13 DEF Publishing!TypeOK, Verdict, Publishing!NoResult,
        Publishing!AllSettledWell, Publishing!ManifestsCurrent, Publishing!ReceiptsNamed,
        Publishing!vars, SentInOrder
  <2> QED
    BY <2>1, <2>2, <2>3, <2>4, <2>5 DEF PublicationInv
<1> QED
  BY <1>1, <1>2, <1>3, <1>4, <1>5, <1>6, <1>7, <1>8, <1>9, <1>10, <1>11, <1>12, <1>13 DEF Publishing!Next, Publishing!Step

\* "published" is said only when the service has every part, and whatever it took is
\* in receipts the caller knows, of one service; only what replays was sent
\* (publication.py:60, 166-221).
THEOREM PublishedWasTaken == Spec => []PublishedIsTrue
<1> DEFINE Here == part = "publication" => PublicationInv
<1>1. Init => Here
  BY PublicationStart DEF Init
<1>2. Here /\ [Next]_allVars => Here'
  <2> SUFFICES ASSUME Here, [Next]_allVars, part' = "publication" PROVE PublicationInv'
    OBVIOUS
  <2>1. ASSUME PublishResults PROVE PublicationInv'
    BY <2>1, PublicationKeep DEF PublishResults
  <2>2. ASSUME CallStep \/ RouteStep \/ FetchSources \/ BuildRunner \/ FreezeModel \/ FitFrontier
        PROVE  FALSE
    BY <2>2 DEF CallStep, RouteStep, FetchSources, BuildRunner, FreezeModel, FitFrontier
  <2>3. CASE UNCHANGED allVars
    <3>1. UNCHANGED Publishing!vars /\ part = "publication"
      BY <2>3 DEF allVars, publicationVars, Publishing!vars
    <3> QED
      BY <3>1, PublicationKeep
  <2> QED
    BY <2>1, <2>2, <2>3 DEF Next
<1>3. Here => PublishedIsTrue
  <2> SUFFICES ASSUME PublicationInv PROVE PublishedIsTrue
    BY DEF PublishedIsTrue
  <2>1. Publishing!PublishedIsTrue
    BY DEF PublicationInv, Verdict, ReceiptsTrue, Publishing!PublishedIsTrue, Publishing!AllSettledWell,
        Publishing!Settled
  <2>2. Publishing!OneEndpoint /\ Publishing!OnlyReplayed
    BY DEF PublicationInv, AtEndpoint, SentInOrder, Sending, Publishing!OneEndpoint,
        Publishing!OnlyReplayed
  <2> QED
    BY <2>1, <2>2 DEF PublicationInv, Verdict, PublishedIsTrue
<1> QED
  BY <1>1, <1>2, <1>3, PTL DEF Spec

----------------------------------------------------------------------------
(* The layers of a tree.                                                    *)

LEMMA LeastNatural ==
    ASSUME NEW A \in SUBSET Nat, A # {}
    PROVE  \E m \in A : \A n \in A : m <= n
<1> DEFINE Below == {0..n : n \in A}
<1>1. Below \subseteq FiniteSubsetsOf(Nat) /\ Below # {}
  <2>1. \A n \in A : IsFiniteSet(0..n) /\ 0..n \subseteq Nat
    BY FS_Interval
  <2> QED
    BY <2>1 DEF FiniteSubsetsOf
<1>2. PICK T \in Below : \A U \in Below : <<U, T>> \notin StrictSubsetOrdering(Nat)
  <2> HIDE DEF Below
  <2> QED
    BY <1>1, FS_StrictSubsetOrderingWellFounded, WFMin
<1>3. PICK m \in A : T = 0..m
  OBVIOUS
<1>4. ASSUME NEW n \in A, n < m PROVE FALSE
  <2>1. 0..n \subseteq 0..m /\ 0..n # 0..m
    <3>1. m \in 0..m /\ m \notin 0..n /\ \A k \in 0..n : k \in 0..m
      BY <1>4
    <3> QED
      BY <3>1
  <2>2. 0..n \in Below /\ 0..n \in SUBSET Nat /\ 0..m \in SUBSET Nat
    OBVIOUS
  <2> QED
    BY <1>2, <1>3, <2>1, <2>2 DEF StrictSubsetOrdering
<1> QED
  BY <1>3, <1>4

LEMMA Quotient ==
  ASSUME NEW a \in Nat, NEW b \in Nat \ {0}
  PROVE  /\ a \div b \in Nat
         /\ b * (a \div b) <= a
         /\ a < b * (a \div b) + b
  BY Z3

LEMMA Multiples ==
  ASSUME NEW k \in Nat \ {0}, NEW x \in Nat, NEW y \in Nat
  PROVE  /\ x <= y => x * k <= k * y
         /\ x * k = k * x /\ k * x \in Nat
         /\ k * (x + 1) = k * x + k
  BY Z3

\* f has first value a and each other value from the one before.
Follows(f, M, a, step) == \A n \in 0..M : f[n] = IF n = 0 THEN a ELSE step[<<n, f[n - 1]>>]

\* There is such a function.
LEMMA StepByStep ==
  ASSUME NEW M \in Nat, NEW S, NEW a \in S, NEW step \in [(0..M) \X S -> S]
  PROVE  \E f \in [0..M -> S] : Follows(f, M, a, step)
<1> DEFINE Begins(k, f) ==
      \A n \in 0..k : f[n] = IF n = 0 THEN a ELSE step[<<n, f[n - 1]>>]
    Bad == {k \in 0..M : \A f \in [0..k -> S] : ~Begins(k, f)}
<1>1. ASSUME Bad # {} PROVE FALSE
  <2>1. PICK k \in Bad : \A n \in Bad : k <= n
    <3>1. Bad \in SUBSET Nat
      OBVIOUS
    <3> HIDE DEF Bad
    <3> QED
      BY <1>1, <3>1, LeastNatural
  <2>2. CASE k = 0
    <3> DEFINE g == [n \in 0..0 |-> a]
    <3>1. g \in [0..k -> S] /\ Begins(k, g)
      BY <2>2
    <3> QED
      BY <2>1, <3>1
  <2>3. CASE k # 0
    <3>1. k - 1 \in 0..M /\ k - 1 \notin Bad
      <4>1. k \in 0..M
        OBVIOUS
      <4> HIDE DEF Bad
      <4> QED
        BY <2>1, <2>3, <4>1
    <3>2. PICK f \in [0..(k - 1) -> S] : Begins(k - 1, f)
      BY <3>1
    <3> DEFINE g == [n \in 0..k |-> IF n = k THEN step[<<k, f[k - 1]>>] ELSE f[n]]
    <3>3. f[k - 1] \in S /\ step[<<k, f[k - 1]>>] \in S
      BY <2>3
    <3>4. g \in [0..k -> S]
      BY <3>3
    <3>5. ASSUME NEW n \in 0..k PROVE g[n] = IF n = 0 THEN a ELSE step[<<n, g[n - 1]>>]
      <4>1. CASE n = k
        <5>1. n - 1 \in 0..k /\ n - 1 # k /\ n # 0
          BY <2>3, <4>1
        <5>2. g[n - 1] = f[n - 1] /\ g[n] = step[<<k, f[k - 1]>>]
          BY <4>1, <5>1
        <5> QED
          BY <4>1, <5>1, <5>2
      <4>2. CASE n # k
        <5>1. n \in 0..(k - 1) /\ g[n] = f[n]
          BY <4>2
        <5>2. n # 0 => n - 1 \in 0..k /\ n - 1 # k /\ g[n - 1] = f[n - 1]
          BY <5>1
        <5> QED
          BY <3>2, <5>1, <5>2
      <4> QED
        BY <4>1, <4>2
    <3>6. Begins(k, g)
      BY <3>5
    <3> QED
      BY <2>1, <3>4, <3>6
  <2> QED
    BY <2>2, <2>3
<1>2. M \notin Bad
  BY <1>1
<1>3. PICK f \in [0..M -> S] : Begins(M, f)
  BY <1>2
<1> QED
  BY <1>3 DEF Follows

LEMMA LayerUnfolds ==
  \A n \in 0..MaxRadius : Calling!Layer[n] = IF n = 0 THEN 1 ELSE Calling!Layer[n - 1] * Moves
<1> DEFINE step == [t \in (0..MaxRadius) \X Int |-> t[2] * Moves]
<1>1. MaxRadius \in Nat /\ Moves \in Int
  BY CallsAssumption DEF Calling!CallAssumption
<1>2. step \in [(0..MaxRadius) \X Int -> Int]
  <2>1. \A t \in (0..MaxRadius) \X Int : t[2] * Moves \in Int
    BY <1>1
  <2> QED
    BY <2>1
<1>3. \E f \in [0..MaxRadius -> Int] : Follows(f, MaxRadius, 1, step)
  <2>1. 1 \in Int
    OBVIOUS
  <2> HIDE DEF step
  <2> QED
    BY <1>1, <1>2, <2>1, StepByStep
<1>4. PICK f \in [0..MaxRadius -> Int] : Follows(f, MaxRadius, 1, step)
  BY <1>3
<1>5. f = [n \in 0..MaxRadius |-> IF n = 0 THEN 1 ELSE f[n - 1] * Moves]
  <2>1. \A n \in 0..MaxRadius : n # 0 => n - 1 \in 0..MaxRadius
    BY <1>1
  <2>2. \A n \in 0..MaxRadius : n # 0 => step[<<n, f[n - 1]>>] = f[n - 1] * Moves
    BY <2>1
  <2> HIDE DEF step
  <2> QED
    BY <1>4, <2>2 DEF Follows
<1>6. Calling!Layer = [n \in 0..MaxRadius |-> IF n = 0 THEN 1 ELSE Calling!Layer[n - 1] * Moves]
  BY <1>5 DEF Calling!Layer
<1> QED
  BY <1>6

LEMMA BallUnfolds ==
  \A n \in 0..MaxRadius : Calling!Ball[n] = IF n = 0 THEN 1 ELSE 1 + Moves * Calling!Ball[n - 1]
<1> DEFINE step == [t \in (0..MaxRadius) \X Int |-> 1 + Moves * t[2]]
<1>1. MaxRadius \in Nat /\ Moves \in Int
  BY CallsAssumption DEF Calling!CallAssumption
<1>2. step \in [(0..MaxRadius) \X Int -> Int]
  <2>1. \A t \in (0..MaxRadius) \X Int : 1 + Moves * t[2] \in Int
    BY <1>1
  <2> QED
    BY <2>1
<1>3. \E f \in [0..MaxRadius -> Int] : Follows(f, MaxRadius, 1, step)
  <2>1. 1 \in Int
    OBVIOUS
  <2> HIDE DEF step
  <2> QED
    BY <1>1, <1>2, <2>1, StepByStep
<1>4. PICK f \in [0..MaxRadius -> Int] : Follows(f, MaxRadius, 1, step)
  BY <1>3
<1>5. f = [n \in 0..MaxRadius |-> IF n = 0 THEN 1 ELSE 1 + Moves * f[n - 1]]
  <2>1. \A n \in 0..MaxRadius : n # 0 => n - 1 \in 0..MaxRadius
    BY <1>1
  <2>2. \A n \in 0..MaxRadius : n # 0 => step[<<n, f[n - 1]>>] = 1 + Moves * f[n - 1]
    BY <2>1
  <2> HIDE DEF step
  <2> QED
    BY <1>4, <2>2 DEF Follows
<1>6. Calling!Ball = [n \in 0..MaxRadius |-> IF n = 0 THEN 1 ELSE 1 + Moves * Calling!Ball[n - 1]]
  BY <1>5 DEF Calling!Ball
<1> QED
  BY <1>6

LEMMA LayersAreNumbers == \A n \in 0..MaxRadius : Calling!Layer[n] \in Nat
<1> DEFINE Bad == {n \in 0..MaxRadius : Calling!Layer[n] \notin Nat}
<1>1. MaxRadius \in Nat /\ Moves \in Nat
  BY CallsAssumption DEF Calling!CallAssumption
<1>2. ASSUME Bad # {} PROVE FALSE
  <2>1. PICK k \in Bad : \A n \in Bad : k <= n
    <3>1. Bad \in SUBSET Nat
      OBVIOUS
    <3> HIDE DEF Bad
    <3> QED
      BY <1>2, <3>1, LeastNatural
  <2>2. k \in 0..MaxRadius /\ Calling!Layer[k] \notin Nat
    OBVIOUS
  <2>3. k # 0 /\ Calling!Layer[k] = Calling!Layer[k - 1] * Moves
    BY <2>2, LayerUnfolds
  <2>4. k - 1 \in 0..MaxRadius /\ k - 1 \notin Bad
    <3> HIDE DEF Bad
    <3> QED
      BY <1>1, <2>1, <2>2, <2>3
  <2>5. Calling!Layer[k - 1] \in Nat
    BY <2>4
  <2> QED
    BY <1>1, <2>2, <2>3, <2>5
<1> QED
  BY <1>2

LEMMA TotalUnfolds ==
  \A n \in 0..MaxRadius : Calling!Total[n] = IF n = 0 THEN 1
                             ELSE Calling!Total[n - 1] + Calling!Layer[n]
<1> DEFINE step == [t \in (0..MaxRadius) \X Int |-> t[2] + Calling!Layer[t[1]]]
<1>1. MaxRadius \in Nat /\ Moves \in Int
  BY CallsAssumption DEF Calling!CallAssumption
<1>2. step \in [(0..MaxRadius) \X Int -> Int]
  <2>1. \A t \in (0..MaxRadius) \X Int : t[2] + Calling!Layer[t[1]] \in Int
    BY <1>1, LayersAreNumbers
  <2> QED
    BY <2>1
<1>3. \E f \in [0..MaxRadius -> Int] : Follows(f, MaxRadius, 1, step)
  <2>1. 1 \in Int
    OBVIOUS
  <2> HIDE DEF step
  <2> QED
    BY <1>1, <1>2, <2>1, StepByStep
<1>4. PICK f \in [0..MaxRadius -> Int] : Follows(f, MaxRadius, 1, step)
  BY <1>3
<1>5. f = [n \in 0..MaxRadius |-> IF n = 0 THEN 1 ELSE f[n - 1] + Calling!Layer[n]]
  <2>1. \A n \in 0..MaxRadius : n # 0 => n - 1 \in 0..MaxRadius
    BY <1>1
  <2>2. \A n \in 0..MaxRadius : n # 0 => step[<<n, f[n - 1]>>] = f[n - 1] + Calling!Layer[n]
    BY <2>1
  <2> HIDE DEF step
  <2> QED
    BY <1>4, <2>2 DEF Follows
<1>6. Calling!Total = [n \in 0..MaxRadius |-> IF n = 0 THEN 1
                             ELSE Calling!Total[n - 1] + Calling!Layer[n]]
  BY <1>5 DEF Calling!Total
<1> QED
  BY <1>6

\* The sum of the layers of a tree is the tree counted from its root.
LEMMA TotalIsBall ==
  \A n \in 0..MaxRadius :
      /\ Calling!Total[n] \in Nat /\ Calling!Ball[n] = Calling!Total[n]
      /\ 1 + Moves * Calling!Total[n] = Calling!Total[n] + Moves * Calling!Layer[n]
<1> DEFINE L == Calling!Layer
           T == Calling!Total
           B == Calling!Ball
           Good(n) == T[n] \in Nat /\ B[n] = T[n] /\ 1 + Moves * T[n] = T[n] + Moves * L[n]
           Bad == {n \in 0..MaxRadius : ~Good(n)}
<1>1. MaxRadius \in Nat /\ Moves \in Nat
  BY CallsAssumption DEF Calling!CallAssumption
<1>2. ASSUME Bad # {} PROVE FALSE
  <2>1. PICK k \in Bad : \A n \in Bad : k <= n
    <3>1. Bad \in SUBSET Nat
      OBVIOUS
    <3> HIDE DEF Bad
    <3> QED
      BY <1>2, <3>1, LeastNatural
  <2>2. k \in 0..MaxRadius /\ ~Good(k)
    OBVIOUS
  <2>3. CASE k = 0
    <3>1. L[k] = 1 /\ T[k] = 1 /\ B[k] = 1
      BY <2>2, <2>3, LayerUnfolds, TotalUnfolds, BallUnfolds
    <3> QED
      BY <1>1, <2>2, <3>1
  <2>4. CASE k # 0
    <3>1. k - 1 \in 0..MaxRadius /\ k - 1 \notin Bad
      <4> HIDE DEF Bad
      <4> QED
        BY <1>1, <2>1, <2>2, <2>4
    <3>2. Good(k - 1)
      BY <3>1
    <3>3. /\ L[k] = L[k - 1] * Moves /\ T[k] = T[k - 1] + L[k] /\ B[k] = 1 + Moves * B[k - 1]
          /\ L[k] \in Nat /\ L[k - 1] \in Nat
      BY <2>2, <2>4, <3>1, LayerUnfolds, TotalUnfolds, BallUnfolds, LayersAreNumbers
    <3> HIDE DEF L, T, B
    <3>4. Moves * L[k - 1] = L[k]
      BY <1>1, <3>3
    <3>5. T[k] \in Nat /\ B[k] = T[k]
      BY <1>1, <3>2, <3>3, <3>4
    <3>6. Moves * T[k] = Moves * T[k - 1] + Moves * L[k]
      BY <1>1, <3>2, <3>3
    <3>7. 1 + Moves * T[k] = T[k] + Moves * L[k]
      <4>1. Moves * T[k - 1] \in Int /\ Moves * L[k] \in Int
        BY <1>1, <3>2, <3>3
      <4> QED
        BY <3>2, <3>3, <3>4, <3>6, <4>1
    <3> QED
      BY <2>2, <3>5, <3>7
  <2> QED
    BY <2>3, <2>4
<1> QED
  BY <1>2

\* The loop of touch_bfs_worst_case_entries lets a ball through only if it fits.
LEMMA RoomHoldsTheBall ==
  ASSUME NEW radius \in 0..MaxRadius, Calling!Room(radius)
  PROVE  Calling!Ball[radius] <= MaxEntries
<1>1. MaxRadius \in Nat /\ Moves \in Nat \ {0} /\ MaxEntries \in Nat \ {0}
  BY CallsAssumption DEF Calling!CallAssumption
<1>2. CASE radius = 0
  <2>1. Calling!Ball[radius] = 1
    BY <1>2, BallUnfolds
  <2> QED
    BY <1>1, <2>1
<1>3. CASE radius # 0
  <2> DEFINE m == radius - 1
             t == Calling!Total[m]
             l == Calling!Layer[m]
  <2>1. m \in 0..radius - 1 /\ m \in 0..MaxRadius
    BY <1>1, <1>3
  <2>2. t <= MaxEntries /\ l <= (MaxEntries - t) \div Moves
    BY <2>1 DEF Calling!Room
  <2>3. Calling!Ball[radius] = t + l * Moves /\ t \in Nat /\ l \in Nat
    BY <1>3, <2>1, TotalIsBall, TotalUnfolds, LayerUnfolds, LayersAreNumbers
  <2> HIDE DEF t, l
  <2>4. MaxEntries - t \in Nat
    BY <1>1, <2>2, <2>3
  <2>5. /\ Moves * ((MaxEntries - t) \div Moves) <= MaxEntries - t
        /\ (MaxEntries - t) \div Moves \in Nat
    BY <1>1, <2>4, Quotient
  <2>6. l * Moves <= Moves * ((MaxEntries - t) \div Moves)
    BY <1>1, <2>2, <2>3, <2>5, Multiples
  <2> QED
    BY <1>1, <2>3, <2>4, <2>5, <2>6
<1> QED
  BY <1>2, <1>3

----------------------------------------------------------------------------
(* Around a call.                                                           *)

\* Nothing native has begun.
Opening == {"called", "parameters", "devices", "sources", "model", "runtime", "unavailable",
            "torch"}
Tuning == {"infer", "discover", "maximum", "admit", "downstream", "launch"}
Ranking == {"ranks", "parse"}

OwnRadius == Calling!Radius(req.steps, req.radius)
Fits == ~Calling!Trivial /\ Calling!Room(OwnRadius)
Selected == devices \in Seq(Int) /\ Calling!Available(devices)
Suited == Selected /\ executor = Calling!Executor(devices) /\ Calling!Runs(devices, executor)

SameRecord(e) == e = [rows |-> e.rows, micro |-> e.micro, bucket |-> e.bucket,
                      radius |-> e.radius, width |-> e.width, gpus |-> e.gpus]

\* What an environment e owes to the request and the devices.
Owed(e) ==
    /\ SameRecord(e)
    /\ e.radius = OwnRadius /\ e.gpus = Calling!WorkerGpus(devices)
    /\ req.beam # Calling!MaxBeam => e.width = req.beam
\* ... and when the ranks start with it.
Owing(e) ==
    /\ Owed(e) /\ recorded = Calling!Record(e)
    /\ ~req.tunable => (e.rows \div Calling!RowsPerParent) * Moves
                          <= Calling!Storage(e.width, Len(devices))

CallTypes ==
    /\ req \in Calling!Requests /\ dir \in {"none", "made", "gone"}
    /\ files \subseteq {"result", "error"} /\ (files # {} => dir = "made")
    /\ session \in BOOLEAN /\ probed \subseteq {FALSE}
    /\ executor \in {"none", "cutlass", "libtorch"}
    /\ length \in 0..MaxSteps

NothingBegun ==
    /\ pc \in Opening => files = {} /\ env = Calling!NoEnv /\ probed = {}
    /\ pc = "called" => dir = "none"
    /\ pc \in {"model", "runtime"} => dir = "made"
    /\ pc \notin {"called", "raised"} => (req.controls => req.mode = "native")
    /\ pc = "torch" => req.mode # "native" /\ ~req.bare /\ dir # "made"

Readied ==
    /\ pc \in {"devices", "sources", "model", "runtime"} \cup Tuning \cup Ranking => Fits
    /\ pc = "run" => Calling!Trivial \/ (Fits /\ Suited)
    /\ pc \in {"sources", "model", "runtime"} => Selected
    /\ pc \in Tuning \cup Ranking => Suited

Environment ==
    /\ pc \in Tuning => Owed(env) /\ env.bucket = FALSE
    /\ pc \in Tuning \ {"launch"} => req.tunable
    /\ pc = "maximum" => req.beam = Calling!MaxBeam
    /\ pc = "launch" => Owing(env)
    /\ pc \in Ranking => env.radius = OwnRadius

Started ==
    launched # Calling!NoEnv =>
        /\ pc \in Ranking \cup {"answered", "raised"}
        /\ Fits /\ Suited /\ Owing(launched) /\ launched.bucket = req.collect

CallInv ==
    /\ CallTypes /\ NothingBegun /\ Readied /\ Environment /\ Started
    /\ session => pc = "downstream"
    /\ pc = "parse" => length <= req.steps

LEMMA SameCall ==
  ASSUME req' = req
  PROVE  /\ OwnRadius' = OwnRadius /\ (Fits' <=> Fits)
         /\ Calling!RowsPerParent' = Calling!RowsPerParent
         /\ Calling!Trivial' <=> Calling!Trivial
<1>1. OwnRadius' = OwnRadius
  BY DEF OwnRadius, Calling!Radius
<1>2. Calling!Trivial' <=> Calling!Trivial
  BY DEF Calling!Trivial
<1>3. Calling!Room(OwnRadius)' <=> Calling!Room(OwnRadius)
  BY <1>1 DEF Calling!Room
<1> QED
  BY <1>1, <1>2, <1>3 DEF Fits, Calling!RowsPerParent

LEMMA SameDevices ==
  ASSUME req' = req, devices' = devices, executor' = executor
  PROVE  /\ (Selected' <=> Selected) /\ (Suited' <=> Suited)
         /\ Calling!WorkerGpus(devices)' = Calling!WorkerGpus(devices)
<1>1. /\ Selected' <=> Selected
      /\ Calling!WorkerGpus(devices)' = Calling!WorkerGpus(devices)
  BY DEF Selected, Calling!Available, Calling!WorkerGpus
<1>2. Calling!Executor(devices)' = Calling!Executor(devices)
  BY DEF Calling!Executor, Calling!KindsOf, Calling!Kind
<1>3. Calling!Runs(devices, executor)' <=> Calling!Runs(devices, executor)
  BY DEF Calling!Runs, Calling!KindsOf, Calling!Kind
<1> QED
  BY <1>1, <1>2, <1>3 DEF Suited


LEMMA ChosenIsList ==
  ASSUME req \in Calling!Requests
  PROVE  Calling!Chosen(req.select) \in Seq(Int)
<1>1. req.select \in [by : {"devices", "number", "graph"}, list : Seq(Int), number : Nat]
  BY CallsAssumption DEF Calling!CallAssumption, Calling!Requests
<1>2. Len(Visible) \in Nat
  BY CallsAssumption DEF Calling!CallAssumption
<1>3. /\ [i \in 1..req.select.number |-> i] \in Seq(Int)
      /\ [i \in 1..Len(Visible) |-> i] \in Seq(Int)
  BY <1>1, <1>2
<1> QED
  BY <1>1, <1>3 DEF Calling!Chosen

LEMMA RadiusInBounds ==
  ASSUME req \in Calling!Requests, Fits
  PROVE  OwnRadius \in 0..MaxRadius
<1>1. req.steps \in Nat /\ req.radius \in 0..MaxRadius /\ MaxRadius \in Nat
  BY CallsAssumption DEF Calling!Requests, Calling!CallAssumption
<1> QED
  BY <1>1 DEF OwnRadius, Calling!Radius

\* The forward depth and the neighbourhood's radius make up max_steps.
LEMMA PathIsShort ==
  ASSUME req \in Calling!Requests, Fits, env.radius = OwnRadius
  PROVE  /\ Calling!Forward(req) + env.radius = req.steps /\ Calling!Forward(req) >= 1
<1>1. req.steps \in Nat /\ req.radius \in 0..MaxRadius /\ MaxRadius \in Nat
  BY CallsAssumption DEF Calling!Requests, Calling!CallAssumption
<1>2. req.steps # 0
  BY DEF Fits, Calling!Trivial
<1> QED
  BY <1>1, <1>2 DEF Calling!Forward, OwnRadius, Calling!Radius

LEMMA SmallerOfTwo ==
  ASSUME NEW a \in Int, NEW b \in Int
  PROVE  /\ Calling!Min({a, b}) \in {a, b}
         /\ Calling!Min({a, b}) <= a /\ Calling!Min({a, b}) <= b
<1>1. \E x \in {a, b} : \A y \in {a, b} : x <= y
  OBVIOUS
<1> QED
  BY <1>1 DEF Calling!Min

LEMMA Exactly ==
  ASSUME NEW a \in Nat, NEW b \in Nat \ {0}
  PROVE  (a * b) \div b = a
  BY Z3

\* The children of the first slot fit the storage of a shard.
LEMMA DefaultSlotFits ==
  ASSUME CallTypes, Suited, req.beam # Calling!MaxBeam
  PROVE  (Calling!Rows(req.beam, Len(devices), RowLimit[executor]) \div Calling!RowsPerParent) * Moves
           <= Calling!Storage(req.beam, Len(devices))
<1> DEFINE s == Calling!Storage(req.beam, Len(devices))
           u == Calling!RowsPerParent
           l == RowLimit[executor]
           p == Calling!Min({l \div u, s \div Moves})
           slotRows == Calling!Rows(req.beam, Len(devices), RowLimit[executor])
<1>1. Moves \in Nat \ {0} /\ Alignment \in Nat \ {0} /\ Widths \subseteq Nat \ {0}
  BY CallsAssumption DEF Calling!CallAssumption
<1>2. u \in Nat \ {0}
  BY <1>1 DEF Calling!RowsPerParent
<1>3. l \in Nat \ {0}
  <2>1. executor \in {"cutlass", "libtorch"}
    BY DEF CallTypes, Suited, Calling!Executor, Calling!Requests
  <2> QED
    BY <2>1, CallsAssumption DEF Calling!CallAssumption
<1>4. req.beam \in Nat \ {0} /\ Len(devices) \in Nat \ {0}
  <2>1. req.beam \in Nat \ {0}
    BY <1>1 DEF CallTypes, Calling!Requests
  <2>2. devices \in Seq(Int) /\ Len(devices) > 0
    BY DEF Suited, Selected, Calling!Available
  <2> QED
    BY <2>1, <2>2
<1>5. s \in Nat
  <2> DEFINE d == Len(devices) * 4 * Alignment
             shard == Calling!LogicalShard(req.beam, Len(devices))
  <2>1. d \in Nat \ {0}
    BY <1>1, <1>4
  <2>2. (req.beam + d - 1) \div d \in Nat
    <3> HIDE DEF d
    <3> QED
      BY <1>4, <2>1, Quotient
  <2>3. shard \in Nat
    <3>1. shard = ((req.beam + d - 1) \div d) * Alignment
      BY DEF Calling!LogicalShard
    <3> HIDE DEF d, shard
    <3> QED
      BY <1>1, <2>2, <3>1
  <2>4. (shard * 5 + 3) \div 4 \in Nat
    <3> HIDE DEF shard
    <3> QED
      BY <2>3, Quotient
  <2>5. s = (((shard * 5 + 3) \div 4 + Alignment - 1) \div Alignment) * Alignment
    BY DEF Calling!Storage, Calling!RoundUp
  <2>6. ((shard * 5 + 3) \div 4 + Alignment - 1) \div Alignment \in Nat
    <3> DEFINE q == (shard * 5 + 3) \div 4
    <3>1. q \in Nat
      BY <2>4
    <3> HIDE DEF q
    <3>2. q + Alignment - 1 \in Nat
      BY <1>1, <3>1
    <3>3. (q + Alignment - 1) \div Alignment \in Nat
      BY <1>1, <3>2, Quotient
    <3> QED
      BY <3>3 DEF q
  <2> HIDE DEF s, shard
  <2> QED
    BY <1>1, <2>5, <2>6
<1> HIDE DEF s, u, l
<1>6. l \div u \in Nat /\ s \div Moves \in Nat /\ Moves * (s \div Moves) <= s
  BY <1>1, <1>2, <1>3, <1>5, Quotient
<1>7. p \in Nat /\ p <= s \div Moves
  <2>1. l \div u \in Int /\ s \div Moves \in Int
    BY <1>6
  <2>2. p \in {l \div u, s \div Moves} /\ p <= s \div Moves
    BY <2>1, SmallerOfTwo
  <2> QED
    BY <1>6, <2>2
<1>8. slotRows \div u = p
  <2>1. slotRows = IF p = l \div u THEN l ELSE p * u
    BY DEF Calling!Rows, s, u, l
  <2> HIDE DEF p, slotRows
  <2> QED
    BY <1>2, <1>7, <2>1, Exactly
<1>9. p * Moves <= Moves * (s \div Moves)
  <2> HIDE DEF p
  <2> QED
    BY <1>1, <1>6, <1>7, Multiples
<1>10. p * Moves <= s
  <2> HIDE DEF p
  <2> QED
    BY <1>1, <1>5, <1>6, <1>7, <1>9
<1> QED
  BY <1>8, <1>10 DEF s, u

LEMMA CallStutters ==
  ASSUME CallInv, UNCHANGED Calling!vars
  PROVE  CallInv'
<1>0. /\ CallTypes /\ NothingBegun /\ Readied /\ Environment /\ Started
      /\ (session => pc = "downstream") /\ (pc = "parse" => length <= req.steps)
  BY DEF CallInv
<1>1. /\ req' = req /\ OwnRadius' = OwnRadius
        /\ (Fits' <=> Fits) /\ (Calling!Trivial' <=> Calling!Trivial)
  BY SameCall DEF Calling!vars, Calling!native
<1>2. CallTypes'
  BY <1>0, <1>1, SameDevices DEF CallTypes, Calling!vars, Calling!native
<1>3. NothingBegun'
  BY <1>0, <1>1, SameDevices DEF CallTypes, NothingBegun, Opening, Calling!vars, Calling!native
<1>4. Readied'
  BY <1>0, <1>1, SameDevices DEF CallTypes, Readied, Tuning, Ranking, Calling!vars, Calling!native
<1>5. Environment'
  <2>1. UNCHANGED <<pc, req, devices, executor, env, recorded>>
    BY DEF Calling!vars, Calling!native
  <2>2. Owed(env)' <=> Owed(env)
    BY <1>1, <2>1, SameDevices DEF Owed, SameRecord
  <2>3. Calling!Storage(env.width, Len(devices))' = Calling!Storage(env.width, Len(devices))
    BY <2>1 DEF Calling!Storage, Calling!RoundUp, Calling!LogicalShard
  <2>4. Owing(env)' <=> Owing(env)
    BY <2>1, <2>2, <2>3, SameCall DEF Owing, Calling!Record
  <2> QED
    BY <1>0, <1>1, <2>1, <2>2, <2>4 DEF Environment, Tuning, Ranking
<1>6. Started'
  BY <1>0, <1>1, SameDevices DEF CallTypes, Started, Ranking, Owing, Owed, SameRecord,
      Calling!RowsPerParent, Calling!Record, Calling!vars, Calling!native
<1>7. (session => pc = "downstream")' /\ (pc = "parse" => length <= req.steps)'
  BY <1>0, <1>1 DEF CallTypes, Calling!vars, Calling!native
<1> QED
  BY <1>2, <1>3, <1>4, <1>5, <1>6, <1>7 DEF CallInv

LEMMA CallKeeps ==
  ASSUME CallInv, Calling!Next
  PROVE  CallInv'
<1>0. /\ CallTypes /\ NothingBegun /\ Readied /\ Environment /\ Started
      /\ (session => pc = "downstream") /\ (pc = "parse" => length <= req.steps)
  BY DEF CallInv
<1>1. ASSUME Calling!Begin PROVE CallInv'
  <2>1. /\ req' = req /\ OwnRadius' = OwnRadius
        /\ (Fits' <=> Fits) /\ (Calling!Trivial' <=> Calling!Trivial)
    BY <1>1, SameCall DEF Calling!Begin, Calling!Raise, Calling!Strict, Calling!native
  <2>2. CallTypes'
    BY <1>0, <1>1, <2>1, SameDevices DEF CallTypes, Calling!Begin, Calling!Raise,
        Calling!Strict, Calling!native
  <2>3. NothingBegun'
    BY <1>0, <1>1, <2>1, SameDevices DEF CallTypes, NothingBegun, Opening, Calling!Begin,
        Calling!Raise, Calling!Strict, Calling!native
  <2>4. Readied'
    BY <1>0, <1>1, <2>1, SameDevices DEF CallTypes, Readied, Tuning, Ranking, Calling!Begin,
        Calling!Raise, Calling!Strict, Calling!native
  <2>5. Environment'
    BY <1>0, <1>1, <2>1, SameDevices DEF CallTypes, Environment, Tuning, Ranking, Owed,
        SameRecord, Owing, Calling!RowsPerParent, Calling!Begin, Calling!Raise,
        Calling!Strict, Calling!native
  <2>6. Started'
    BY <1>0, <1>1, <2>1, SameDevices DEF CallTypes, Started, Ranking, Owing, Owed,
        SameRecord, Calling!RowsPerParent, Calling!Record, Calling!Begin, Calling!Raise,
        Calling!Strict, Calling!native
  <2>7. (session => pc = "downstream")' /\ (pc = "parse" => length <= req.steps)'
    BY <1>0, <1>1, <2>1 DEF CallTypes, Calling!Begin, Calling!Raise, Calling!Strict,
        Calling!native
  <2> QED
    BY <2>2, <2>3, <2>4, <2>5, <2>6, <2>7 DEF CallInv
<1>2. ASSUME Calling!Parameters PROVE CallInv'
  <2>1. /\ req' = req /\ OwnRadius' = OwnRadius
        /\ (Fits' <=> Fits) /\ (Calling!Trivial' <=> Calling!Trivial)
    BY <1>2, SameCall DEF Calling!Parameters, Calling!Raise, Calling!Unavailable, Calling!native
  <2>2. CallTypes'
    BY <1>0, <1>2, <2>1, SameDevices DEF CallTypes, Calling!Parameters, Calling!Raise,
        Calling!Unavailable, Calling!native
  <2>3. NothingBegun'
    BY <1>0, <1>2, <2>1, SameDevices DEF CallTypes, NothingBegun, Opening,
        Calling!Parameters, Calling!Raise, Calling!Unavailable, Calling!native
  <2>4. Readied'
    <3>1. pc = "parameters" /\ UNCHANGED <<devices, executor>>
      BY <1>2 DEF Calling!Parameters, Calling!native
    <3>2. pc' \in {"unavailable", "raised"} \/ (pc' = "run" /\ Calling!Trivial)
          \/ (pc' = "devices" /\ Fits)
      BY <1>2 DEF Calling!Parameters, Calling!Raise, Calling!Unavailable, Fits, OwnRadius
    <3> QED
      BY <2>1, <3>1, <3>2 DEF Readied, Tuning, Ranking
  <2>5. Environment'
    BY <1>0, <1>2, <2>1, SameDevices DEF CallTypes, Environment, Tuning, Ranking, Owed,
        SameRecord, Owing, Calling!RowsPerParent, Calling!Parameters, Calling!Raise,
        Calling!Unavailable, Calling!native
  <2>6. Started'
    BY <1>0, <1>2, <2>1, SameDevices DEF CallTypes, Started, Ranking, Owing, Owed,
        SameRecord, Calling!RowsPerParent, Calling!Record, Calling!Parameters,
        Calling!Raise, Calling!Unavailable, Calling!native
  <2>7. (session => pc = "downstream")' /\ (pc = "parse" => length <= req.steps)'
    BY <1>0, <1>2, <2>1 DEF CallTypes, Calling!Parameters, Calling!Raise,
        Calling!Unavailable, Calling!native
  <2> QED
    BY <2>2, <2>3, <2>4, <2>5, <2>6, <2>7 DEF CallInv
<1>3. ASSUME Calling!RuntimeDevices PROVE CallInv'
  <2>1. /\ req' = req /\ OwnRadius' = OwnRadius
        /\ (Fits' <=> Fits) /\ (Calling!Trivial' <=> Calling!Trivial)
    BY <1>3, SameCall DEF Calling!RuntimeDevices, Calling!Unavailable, Calling!native
  <2>2. CallTypes'
    BY <1>0, <1>3, <2>1, SameDevices DEF CallTypes, Calling!RuntimeDevices,
        Calling!Unavailable, Calling!native
  <2>3. NothingBegun'
    BY <1>0, <1>3, <2>1, SameDevices DEF CallTypes, NothingBegun, Opening,
        Calling!RuntimeDevices, Calling!Unavailable, Calling!native
  <2>4. Readied'
    <3>1. pc = "devices" /\ Fits /\ executor' = executor
      BY <1>0, <1>3 DEF Readied, Calling!RuntimeDevices
    <3>2. pc' = "unavailable"
          \/ (/\ pc' = "sources" /\ devices' = Calling!Chosen(req.select)
              /\ Calling!Available(Calling!Chosen(req.select)))
      BY <1>3 DEF Calling!RuntimeDevices, Calling!Unavailable
    <3>3. Calling!Chosen(req.select) \in Seq(Int)
      BY <1>0, ChosenIsList DEF CallTypes
    <3>4. pc' = "sources" => Selected'
      BY <3>2, <3>3 DEF Selected, Calling!Available
    <3> QED
      BY <2>1, <3>1, <3>2, <3>4 DEF Readied, Tuning, Ranking
  <2>5. Environment'
    BY <1>0, <1>3, <2>1, SameDevices DEF CallTypes, Environment, Tuning, Ranking, Owed,
        SameRecord, Owing, Calling!RowsPerParent, Calling!RuntimeDevices,
        Calling!Unavailable, Calling!native
  <2>6. Started'
    BY <1>0, <1>3, <2>1, SameDevices DEF CallTypes, Started, Ranking, Owing, Owed,
        SameRecord, Calling!RowsPerParent, Calling!Record, Calling!RuntimeDevices,
        Calling!Unavailable, Calling!native
  <2>7. (session => pc = "downstream")' /\ (pc = "parse" => length <= req.steps)'
    BY <1>0, <1>3, <2>1 DEF CallTypes, Calling!RuntimeDevices, Calling!Unavailable, Calling!native
  <2> QED
    BY <2>2, <2>3, <2>4, <2>5, <2>6, <2>7 DEF CallInv
<1>4. ASSUME Calling!PrepareSources PROVE CallInv'
  <2>1. /\ req' = req /\ OwnRadius' = OwnRadius
        /\ (Fits' <=> Fits) /\ (Calling!Trivial' <=> Calling!Trivial)
    BY <1>4, SameCall DEF Calling!PrepareSources, Calling!Raise, Calling!Unavailable,
        Calling!native
  <2>2. CallTypes'
    BY <1>0, <1>4, <2>1, SameDevices DEF CallTypes, Calling!PrepareSources, Calling!Raise,
        Calling!Unavailable, Calling!native
  <2>3. NothingBegun'
    BY <1>0, <1>4, <2>1, SameDevices DEF CallTypes, NothingBegun, Opening,
        Calling!PrepareSources, Calling!Raise, Calling!Unavailable, Calling!native
  <2>4. Readied'
    BY <1>0, <1>4, <2>1, SameDevices DEF CallTypes, Readied, Tuning, Ranking,
        Calling!PrepareSources, Calling!Raise, Calling!Unavailable, Calling!native
  <2>5. Environment'
    BY <1>0, <1>4, <2>1, SameDevices DEF CallTypes, Environment, Tuning, Ranking, Owed,
        SameRecord, Owing, Calling!RowsPerParent, Calling!PrepareSources, Calling!Raise,
        Calling!Unavailable, Calling!native
  <2>6. Started'
    BY <1>0, <1>4, <2>1, SameDevices DEF CallTypes, Started, Ranking, Owing, Owed,
        SameRecord, Calling!RowsPerParent, Calling!Record, Calling!PrepareSources,
        Calling!Raise, Calling!Unavailable, Calling!native
  <2>7. (session => pc = "downstream")' /\ (pc = "parse" => length <= req.steps)'
    BY <1>0, <1>4, <2>1 DEF CallTypes, Calling!PrepareSources, Calling!Raise,
        Calling!Unavailable, Calling!native
  <2> QED
    BY <2>2, <2>3, <2>4, <2>5, <2>6, <2>7 DEF CallInv
<1>5. ASSUME Calling!PrepareModel PROVE CallInv'
  <2>1. /\ req' = req /\ OwnRadius' = OwnRadius
        /\ (Fits' <=> Fits) /\ (Calling!Trivial' <=> Calling!Trivial)
    BY <1>5, SameCall DEF Calling!PrepareModel, Calling!native
  <2>2. CallTypes'
    BY <1>0, <1>5, <2>1, SameDevices DEF CallTypes, Calling!PrepareModel, Calling!native
  <2>3. NothingBegun'
    BY <1>0, <1>5, <2>1, SameDevices DEF CallTypes, NothingBegun, Opening,
        Calling!PrepareModel, Calling!native
  <2>4. Readied'
    BY <1>0, <1>5, <2>1, SameDevices DEF CallTypes, Readied, Tuning, Ranking,
        Calling!PrepareModel, Calling!native
  <2>5. Environment'
    BY <1>0, <1>5, <2>1, SameDevices DEF CallTypes, Environment, Tuning, Ranking, Owed,
        SameRecord, Owing, Calling!RowsPerParent, Calling!PrepareModel, Calling!native
  <2>6. Started'
    BY <1>0, <1>5, <2>1, SameDevices DEF CallTypes, Started, Ranking, Owing, Owed,
        SameRecord, Calling!RowsPerParent, Calling!Record, Calling!PrepareModel,
        Calling!native
  <2>7. (session => pc = "downstream")' /\ (pc = "parse" => length <= req.steps)'
    BY <1>0, <1>5, <2>1 DEF CallTypes, Calling!PrepareModel, Calling!native
  <2> QED
    BY <2>2, <2>3, <2>4, <2>5, <2>6, <2>7 DEF CallInv
<1>6. ASSUME Calling!PrepareRuntime PROVE CallInv'
  <2>1. /\ req' = req /\ OwnRadius' = OwnRadius
        /\ (Fits' <=> Fits) /\ (Calling!Trivial' <=> Calling!Trivial)
    BY <1>6, SameCall DEF Calling!PrepareRuntime, Calling!Unavailable, Calling!native
  <2>2. CallTypes'
    <3>1. req.backend \in {"auto", "cutlass", "libtorch"}
      BY <1>0 DEF CallTypes, Calling!Requests
    <3>2. executor' \in {executor, Calling!Executor(devices)}
      BY <1>6 DEF Calling!PrepareRuntime
    <3>3. executor' \in {"none", "cutlass", "libtorch"}
      BY <1>0, <3>1, <3>2 DEF CallTypes, Calling!Executor
    <3>4. UNCHANGED <<req, dir, files, session, probed, length>>
      BY <1>6 DEF Calling!PrepareRuntime
    <3> QED
      BY <1>0, <3>3, <3>4 DEF CallTypes
  <2>3. NothingBegun'
    BY <1>0, <1>6, <2>1, SameDevices DEF CallTypes, NothingBegun, Opening,
        Calling!PrepareRuntime, Calling!Unavailable, Calling!native
  <2>4. Readied'
    <3>1. pc = "runtime" /\ Fits /\ Selected /\ devices' = devices
      BY <1>0, <1>6 DEF Readied, Calling!PrepareRuntime
    <3>2. pc' \in {"unavailable", "raised"}
          \/ (/\ pc' = "run" /\ executor' = Calling!Executor(devices)
              /\ Calling!Runs(devices, Calling!Executor(devices)))
      BY <1>6 DEF Calling!PrepareRuntime, Calling!Unavailable
    <3>3. Calling!Executor(devices)' = Calling!Executor(devices)
      BY <2>1, <3>1 DEF Calling!Executor, Calling!KindsOf, Calling!Kind
    <3>4. ASSUME executor' = Calling!Executor(devices),
                 Calling!Runs(devices, Calling!Executor(devices))
          PROVE  Calling!Runs(devices, executor)'
      BY <2>1, <3>1, <3>4 DEF Calling!Runs, Calling!KindsOf, Calling!Kind
    <3>5. Selected'
      BY <3>1 DEF Selected, Calling!Available
    <3>6. pc' = "run" => Suited'
      BY <3>2, <3>3, <3>4, <3>5 DEF Suited
    <3> QED
      BY <2>1, <3>1, <3>2, <3>6 DEF Readied, Tuning, Ranking
  <2>5. Environment'
    BY <1>0, <1>6, <2>1, SameDevices DEF CallTypes, Environment, Tuning, Ranking, Owed,
        SameRecord, Owing, Calling!RowsPerParent, Calling!PrepareRuntime,
        Calling!Unavailable, Calling!native
  <2>6. Started'
    BY <1>0, <1>6, <2>1, SameDevices DEF CallTypes, Started, Ranking, Owing, Owed,
        SameRecord, Calling!RowsPerParent, Calling!Record, Calling!PrepareRuntime,
        Calling!Unavailable, Calling!native
  <2>7. (session => pc = "downstream")' /\ (pc = "parse" => length <= req.steps)'
    BY <1>0, <1>6, <2>1 DEF CallTypes, Calling!PrepareRuntime, Calling!Unavailable, Calling!native
  <2> QED
    BY <2>2, <2>3, <2>4, <2>5, <2>6, <2>7 DEF CallInv
<1>7. ASSUME Calling!FallBack PROVE CallInv'
  <2>1. /\ req' = req /\ OwnRadius' = OwnRadius
        /\ (Fits' <=> Fits) /\ (Calling!Trivial' <=> Calling!Trivial)
    BY <1>7, SameCall DEF Calling!FallBack, Calling!Raise, Calling!DiscardDir, Calling!native
  <2>2. CallTypes'
    BY <1>0, <1>7, <2>1 DEF CallTypes, NothingBegun, Opening, Calling!FallBack, Calling!Raise,
        Calling!DiscardDir, Calling!native
  <2>3. NothingBegun'
    BY <1>0, <1>7, <2>1, SameDevices DEF CallTypes, NothingBegun, Opening, Calling!FallBack,
        Calling!Raise, Calling!DiscardDir, Calling!native
  <2>4. Readied'
    BY <1>0, <1>7, <2>1, SameDevices DEF CallTypes, Readied, Tuning, Ranking,
        Calling!FallBack, Calling!Raise, Calling!DiscardDir, Calling!native
  <2>5. Environment'
    BY <1>0, <1>7, <2>1, SameDevices DEF CallTypes, Environment, Tuning, Ranking, Owed,
        SameRecord, Owing, Calling!RowsPerParent, Calling!FallBack, Calling!Raise,
        Calling!DiscardDir, Calling!native
  <2>6. Started'
    BY <1>0, <1>7, <2>1, SameDevices DEF CallTypes, Started, Ranking, Owing, Owed,
        SameRecord, Calling!RowsPerParent, Calling!Record, Calling!FallBack, Calling!Raise,
        Calling!DiscardDir, Calling!native
  <2>7. (session => pc = "downstream")' /\ (pc = "parse" => length <= req.steps)'
    BY <1>0, <1>7, <2>1 DEF CallTypes, Calling!FallBack, Calling!Raise, Calling!DiscardDir,
        Calling!native
  <2> QED
    BY <2>2, <2>3, <2>4, <2>5, <2>6, <2>7 DEF CallInv
<1>8. ASSUME Calling!Run PROVE CallInv'
  <2>1. /\ req' = req /\ OwnRadius' = OwnRadius
        /\ (Fits' <=> Fits) /\ (Calling!Trivial' <=> Calling!Trivial)
    BY <1>8, SameCall DEF Calling!Run, Calling!Answer, Calling!Fail, Calling!native
  <2>2. CallTypes'
    BY <1>0, <1>8, <2>1, SameDevices DEF CallTypes, Calling!Run, Calling!Answer,
        Calling!Fail, Calling!native
  <2>3. NothingBegun'
    BY <1>0, <1>8, <2>1, SameDevices DEF CallTypes, NothingBegun, Opening, Calling!Run,
        Calling!Answer, Calling!Fail, Calling!native
  <2>4. Readied'
    BY <1>0, <1>8, <2>1, SameDevices DEF CallTypes, Readied, Tuning, Ranking, Calling!Run,
        Calling!Answer, Calling!Fail, Calling!native
  <2>5. Environment'
    <3>1. CASE pc' \notin Tuning \cup Ranking
      BY <3>1 DEF Environment, Tuning, Ranking
    <3>2. CASE pc' \in Tuning \cup Ranking
      <4>1. pc = "run" /\ ~Calling!Trivial /\ UNCHANGED <<devices, executor>>
            /\ (req.tunable \/ req.beam # Calling!MaxBeam)
        BY <1>8, <3>2 DEF Calling!Run, Calling!Answer, Calling!Fail, Tuning, Ranking
      <4> DEFINE width == IF req.beam = Calling!MaxBeam THEN Calling!Max(Widths) ELSE req.beam
                 slotRows == Calling!Rows(width, Len(devices), RowLimit[executor])
      <4>2. /\ env' = [rows |-> slotRows, micro |-> Calling!None, bucket |-> FALSE,
                       radius |-> OwnRadius, width |-> width,
                       gpus |-> Calling!WorkerGpus(devices)]
            /\ recorded' = [rows |-> slotRows, parents |-> slotRows \div Calling!RowsPerParent,
                            micro |-> Calling!None]
            /\ pc' = IF req.tunable THEN "infer" ELSE "launch"
        BY <1>8, <3>2, <4>1 DEF Calling!Run, Calling!Fail, Tuning, Ranking, OwnRadius
      <4>3. req.tunable \/ (slotRows \div Calling!RowsPerParent) * Moves
                              <= Calling!Storage(width, Len(devices))
        <5>1. Fits /\ Suited
          BY <1>0, <4>1 DEF Readied
        <5>2. CASE req.beam # Calling!MaxBeam
          BY <1>0, <4>1, <5>1, <5>2, DefaultSlotFits
        <5> QED
          BY <4>1, <5>2
      <4>4. Calling!Storage(width, Len(devices))' = Calling!Storage(width, Len(devices))
        BY <2>1, <4>1 DEF Calling!Storage, Calling!RoundUp, Calling!LogicalShard
      <4> HIDE DEF slotRows
      <4>5. Owed(env)' /\ (env.bucket = FALSE)'
        BY <2>1, <4>1, <4>2, SameDevices DEF Owed, SameRecord
      <4>6. pc' = "launch" => Owing(env)'
        <5>1. ~req.tunable => (slotRows \div Calling!RowsPerParent) * Moves
                                <= Calling!Storage(width, Len(devices))
          BY <4>3
        <5> QED
          BY <2>1, <4>1, <4>2, <4>5, <5>1, SameCall DEF Owing, Calling!Record
      <4> QED
        BY <2>1, <4>2, <4>5, <4>6 DEF Environment, Tuning, Ranking
    <3> QED
      BY <3>1, <3>2
  <2>6. Started'
    BY <1>0, <1>8, <2>1, SameDevices DEF CallTypes, Started, Ranking, Owing, Owed,
        SameRecord, Calling!RowsPerParent, Calling!Record, Calling!Run, Calling!Answer,
        Calling!Fail, Calling!native
  <2>7. (session => pc = "downstream")' /\ (pc = "parse" => length <= req.steps)'
    BY <1>0, <1>8, <2>1 DEF CallTypes, Calling!Run, Calling!Answer, Calling!Fail, Calling!native
  <2> QED
    BY <2>2, <2>3, <2>4, <2>5, <2>6, <2>7 DEF CallInv
<1>9. ASSUME Calling!TuneInference PROVE CallInv'
  <2>1. /\ req' = req /\ OwnRadius' = OwnRadius
        /\ (Fits' <=> Fits) /\ (Calling!Trivial' <=> Calling!Trivial)
    BY <1>9, SameCall DEF Calling!TuneInference, Calling!Fail, Calling!Probe, Calling!Batch,
        Calling!Calibrated, Calling!Record, Calling!native
  <2>2. CallTypes'
    <3>1. env.bucket = FALSE /\ probed' = probed \cup {env.bucket}
      BY <1>0, <1>9 DEF Environment, Tuning, Calling!TuneInference, Calling!Probe
    <3>2. /\ files' \in {files, IF dir = "made" THEN files \cup {"error"} ELSE files}
          /\ session' \in BOOLEAN
      BY <1>0, <1>9 DEF CallTypes, Calling!TuneInference, Calling!Fail
    <3>3. UNCHANGED <<req, dir, executor, length>>
      BY <1>9 DEF Calling!TuneInference
    <3> QED
      BY <1>0, <3>1, <3>2, <3>3 DEF CallTypes
  <2>3. NothingBegun'
    BY <1>0, <1>9, <2>1, SameDevices DEF CallTypes, NothingBegun, Opening,
        Calling!TuneInference, Calling!Fail, Calling!Probe, Calling!Batch,
        Calling!Calibrated, Calling!Record, Calling!native
  <2>4. Readied'
    BY <1>0, <1>9, <2>1, SameDevices DEF CallTypes, Readied, Tuning, Ranking,
        Calling!TuneInference, Calling!Fail, Calling!Probe, Calling!Batch,
        Calling!Calibrated, Calling!Record, Calling!native
  <2>5. Environment'
    BY <1>0, <1>9, <2>1, SameDevices DEF CallTypes, Environment, Tuning, Ranking, Owed,
        SameRecord, Owing, Calling!RowsPerParent, Calling!TuneInference, Calling!Fail,
        Calling!Probe, Calling!Batch, Calling!Calibrated, Calling!Record, Calling!native
  <2>6. Started'
    BY <1>0, <1>9, <2>1, SameDevices DEF CallTypes, Started, Ranking, Owing, Owed,
        SameRecord, Calling!RowsPerParent, Calling!Record, Calling!TuneInference,
        Calling!Fail, Calling!Probe, Calling!Batch, Calling!Calibrated, Calling!Record,
        Calling!native
  <2>7. (session => pc = "downstream")' /\ (pc = "parse" => length <= req.steps)'
    <3>1. pc = "infer" /\ ~session'
      BY <1>0, <1>9 DEF CallTypes, Calling!TuneInference, Calling!Fail
    <3>2. pc' \in {"discover", "maximum", "admit", "raised"}
      BY <1>9 DEF Calling!TuneInference, Calling!Fail, Calling!Calibrated
    <3> QED
      BY <1>0, <3>1, <3>2
  <2> QED
    BY <2>2, <2>3, <2>4, <2>5, <2>6, <2>7 DEF CallInv
<1>10. ASSUME Calling!DiscoverCapacity PROVE CallInv'
  <2>1. /\ req' = req /\ OwnRadius' = OwnRadius
        /\ (Fits' <=> Fits) /\ (Calling!Trivial' <=> Calling!Trivial)
    BY <1>10, SameCall DEF Calling!DiscoverCapacity, Calling!Fail, Calling!Probe,
        Calling!Calibrated, Calling!native
  <2>2. CallTypes'
    <3>1. env.bucket = FALSE /\ probed' = probed \cup {env.bucket}
      BY <1>0, <1>10 DEF Environment, Tuning, Calling!DiscoverCapacity, Calling!Probe
    <3>2. /\ files' \in {files, IF dir = "made" THEN files \cup {"error"} ELSE files}
          /\ session' \in BOOLEAN
      BY <1>0, <1>10 DEF CallTypes, Calling!DiscoverCapacity, Calling!Fail
    <3>3. UNCHANGED <<req, dir, executor, length>>
      BY <1>10 DEF Calling!DiscoverCapacity
    <3> QED
      BY <1>0, <3>1, <3>2, <3>3 DEF CallTypes
  <2>3. NothingBegun'
    BY <1>0, <1>10, <2>1, SameDevices DEF CallTypes, NothingBegun, Opening,
        Calling!DiscoverCapacity, Calling!Fail, Calling!Probe, Calling!Calibrated,
        Calling!native
  <2>4. Readied'
    BY <1>0, <1>10, <2>1, SameDevices DEF CallTypes, Readied, Tuning, Ranking,
        Calling!DiscoverCapacity, Calling!Fail, Calling!Probe, Calling!Calibrated,
        Calling!native
  <2>5. Environment'
    BY <1>0, <1>10, <2>1, SameDevices DEF CallTypes, Environment, Tuning, Ranking, Owed,
        SameRecord, Owing, Calling!RowsPerParent, Calling!DiscoverCapacity, Calling!Fail,
        Calling!Probe, Calling!Calibrated, Calling!native
  <2>6. Started'
    BY <1>0, <1>10, <2>1, SameDevices DEF CallTypes, Started, Ranking, Owing, Owed,
        SameRecord, Calling!RowsPerParent, Calling!Record, Calling!DiscoverCapacity,
        Calling!Fail, Calling!Probe, Calling!Calibrated, Calling!native
  <2>7. (session => pc = "downstream")' /\ (pc = "parse" => length <= req.steps)'
    BY <1>0, <1>10, <2>1 DEF CallTypes, Calling!DiscoverCapacity, Calling!Fail,
        Calling!Probe, Calling!Calibrated, Calling!native
  <2> QED
    BY <2>2, <2>3, <2>4, <2>5, <2>6, <2>7 DEF CallInv
<1>11. ASSUME Calling!Maximum PROVE CallInv'
  <2>1. /\ req' = req /\ OwnRadius' = OwnRadius
        /\ (Fits' <=> Fits) /\ (Calling!Trivial' <=> Calling!Trivial)
    BY <1>11, SameCall DEF Calling!Maximum, Calling!Fail, Calling!Probe, Calling!Batch,
        Calling!native
  <2>2. CallTypes'
    <3>1. env.bucket = FALSE /\ probed' = probed \cup {env.bucket}
      BY <1>0, <1>11 DEF Environment, Tuning, Calling!Maximum, Calling!Probe
    <3>2. /\ files' \in {files, IF dir = "made" THEN files \cup {"error"} ELSE files}
          /\ session' \in BOOLEAN
      BY <1>0, <1>11 DEF CallTypes, Calling!Maximum, Calling!Fail
    <3>3. UNCHANGED <<req, dir, executor, length>>
      BY <1>11 DEF Calling!Maximum
    <3> QED
      BY <1>0, <3>1, <3>2, <3>3 DEF CallTypes
  <2>3. NothingBegun'
    BY <1>0, <1>11, <2>1, SameDevices DEF CallTypes, NothingBegun, Opening, Calling!Maximum,
        Calling!Fail, Calling!Probe, Calling!Batch, Calling!native
  <2>4. Readied'
    BY <1>0, <1>11, <2>1, SameDevices DEF CallTypes, Readied, Tuning, Ranking,
        Calling!Maximum, Calling!Fail, Calling!Probe, Calling!Batch, Calling!native
  <2>5. Environment'
    BY <1>0, <1>11, <2>1, SameDevices DEF CallTypes, Environment, Tuning, Ranking, Owed,
        SameRecord, Owing, Calling!RowsPerParent, Calling!Maximum, Calling!Fail,
        Calling!Probe, Calling!Batch, Calling!native
  <2>6. Started'
    BY <1>0, <1>11, <2>1, SameDevices DEF CallTypes, Started, Ranking, Owing, Owed,
        SameRecord, Calling!RowsPerParent, Calling!Record, Calling!Maximum, Calling!Fail,
        Calling!Probe, Calling!Batch, Calling!native
  <2>7. (session => pc = "downstream")' /\ (pc = "parse" => length <= req.steps)'
    BY <1>0, <1>11, <2>1 DEF CallTypes, Calling!Maximum, Calling!Fail, Calling!Probe,
        Calling!Batch, Calling!native
  <2> QED
    BY <2>2, <2>3, <2>4, <2>5, <2>6, <2>7 DEF CallInv
<1>12. ASSUME Calling!Admit PROVE CallInv'
  <2>1. /\ req' = req /\ OwnRadius' = OwnRadius
        /\ (Fits' <=> Fits) /\ (Calling!Trivial' <=> Calling!Trivial)
    BY <1>12, SameCall DEF Calling!Admit, Calling!Fail, Calling!Probe, Calling!Batch,
        Calling!native
  <2>2. CallTypes'
    <3>1. env.bucket = FALSE /\ probed' = probed \cup {env.bucket}
      BY <1>0, <1>12 DEF Environment, Tuning, Calling!Admit, Calling!Probe
    <3>2. /\ files' \in {files, IF dir = "made" THEN files \cup {"error"} ELSE files}
          /\ session' \in BOOLEAN
      BY <1>0, <1>12 DEF CallTypes, Calling!Admit, Calling!Fail
    <3>3. UNCHANGED <<req, dir, executor, length>>
      BY <1>12 DEF Calling!Admit
    <3> QED
      BY <1>0, <3>1, <3>2, <3>3 DEF CallTypes
  <2>3. NothingBegun'
    BY <1>0, <1>12, <2>1, SameDevices DEF CallTypes, NothingBegun, Opening, Calling!Admit,
        Calling!Fail, Calling!Probe, Calling!Batch, Calling!native
  <2>4. Readied'
    BY <1>0, <1>12, <2>1, SameDevices DEF CallTypes, Readied, Tuning, Ranking,
        Calling!Admit, Calling!Fail, Calling!Probe, Calling!Batch, Calling!native
  <2>5. Environment'
    BY <1>0, <1>12, <2>1, SameDevices DEF CallTypes, Environment, Tuning, Ranking, Owed,
        SameRecord, Owing, Calling!RowsPerParent, Calling!Admit, Calling!Fail,
        Calling!Probe, Calling!Batch, Calling!native
  <2>6. Started'
    BY <1>0, <1>12, <2>1, SameDevices DEF CallTypes, Started, Ranking, Owing, Owed,
        SameRecord, Calling!RowsPerParent, Calling!Record, Calling!Admit, Calling!Fail,
        Calling!Probe, Calling!Batch, Calling!native
  <2>7. (session => pc = "downstream")' /\ (pc = "parse" => length <= req.steps)'
    BY <1>0, <1>12, <2>1 DEF CallTypes, Calling!Admit, Calling!Fail, Calling!Probe,
        Calling!Batch, Calling!native
  <2> QED
    BY <2>2, <2>3, <2>4, <2>5, <2>6, <2>7 DEF CallInv
<1>13. ASSUME Calling!TuneDownstream PROVE CallInv'
  <2>1. /\ req' = req /\ OwnRadius' = OwnRadius
        /\ (Fits' <=> Fits) /\ (Calling!Trivial' <=> Calling!Trivial)
    BY <1>13, SameCall DEF Calling!TuneDownstream, Calling!Fail, Calling!Probe,
        Calling!SecondRecord, Calling!Record, Calling!native
  <2>2. CallTypes'
    <3>1. env.bucket = FALSE /\ probed' = probed \cup {env.bucket}
      BY <1>0, <1>13 DEF Environment, Tuning, Calling!TuneDownstream, Calling!Probe
    <3>2. /\ files' \in {files, IF dir = "made" THEN files \cup {"error"} ELSE files}
          /\ session' \in BOOLEAN
      BY <1>0, <1>13 DEF CallTypes, Calling!TuneDownstream, Calling!Fail
    <3>3. UNCHANGED <<req, dir, executor, length>>
      BY <1>13 DEF Calling!TuneDownstream
    <3> QED
      BY <1>0, <3>1, <3>2, <3>3 DEF CallTypes
  <2>3. NothingBegun'
    BY <1>0, <1>13, <2>1, SameDevices DEF CallTypes, NothingBegun, Opening,
        Calling!TuneDownstream, Calling!Fail, Calling!Probe, Calling!SecondRecord,
        Calling!Record, Calling!native
  <2>4. Readied'
    BY <1>0, <1>13, <2>1, SameDevices DEF CallTypes, Readied, Tuning, Ranking,
        Calling!TuneDownstream, Calling!Fail, Calling!Probe, Calling!SecondRecord,
        Calling!Record, Calling!native
  <2>5. Environment'
    <3>1. pc' = "raised" \/ pc' = "launch"
      BY <1>13 DEF Calling!TuneDownstream, Calling!Fail
    <3>2. CASE pc' = "raised"
      BY <3>2 DEF Environment, Tuning, Ranking
    <3>3. CASE pc' = "launch"
      <4>1. /\ Owed(env) /\ env.bucket = FALSE /\ req.tunable
            /\ UNCHANGED <<devices, executor>>
        BY <1>0, <1>13 DEF Environment, Tuning, Calling!TuneDownstream
      <4>2. CASE env' = env /\ recorded' = Calling!Record(env)
        <5>1. Owed(env)' /\ env'.bucket = FALSE
          BY <2>1, <4>1, <4>2, SameDevices DEF Owed, SameRecord
        <5> QED
          BY <2>1, <3>3, <4>1, <4>2, <5>1, SameCall
             DEF Environment, Tuning, Ranking, Owing, Calling!Record
      <4>3. CASE \E k \in {1, 2}, w \in Calling!WorkingWidths(env.width) :
                    /\ env' = [env EXCEPT !.rows = k * env.rows, !.width = w]
                    /\ recorded' = Calling!Record([env EXCEPT !.rows = k * env.rows, !.width = w])
        <5>1. PICK k \in {1, 2}, w \in Calling!WorkingWidths(env.width) :
                    /\ env' = [env EXCEPT !.rows = k * env.rows, !.width = w]
                    /\ recorded' = Calling!Record([env EXCEPT !.rows = k * env.rows, !.width = w])
          BY <4>3
        <5>2. req.beam # Calling!MaxBeam => w = env.width
          BY DEF Calling!WorkingWidths
        <5>3. env' = [rows |-> k * env.rows, micro |-> env.micro, bucket |-> env.bucket,
                      radius |-> env.radius, width |-> w, gpus |-> env.gpus]
          BY <4>1, <5>1 DEF Owed, SameRecord
        <5>4. Owed(env)' /\ env'.bucket = FALSE
          BY <2>1, <4>1, <5>2, <5>3, SameDevices DEF Owed, SameRecord
        <5>5. recorded' = Calling!Record(env')
          BY <5>1
        <5> QED
          BY <2>1, <3>3, <4>1, <5>4, <5>5, SameCall
             DEF Environment, Tuning, Ranking, Owing, Calling!Record
      <4> QED
        BY <1>13, <3>3, <4>2, <4>3 DEF Calling!TuneDownstream, Calling!SecondRecord, Calling!Fail
    <3> QED
      BY <3>1, <3>2, <3>3
  <2>6. Started'
    BY <1>0, <1>13, <2>1, SameDevices DEF CallTypes, Started, Ranking, Owing, Owed,
        SameRecord, Calling!RowsPerParent, Calling!Record, Calling!TuneDownstream,
        Calling!Fail, Calling!Probe, Calling!SecondRecord, Calling!Record, Calling!native
  <2>7. (session => pc = "downstream")' /\ (pc = "parse" => length <= req.steps)'
    BY <1>0, <1>13, <2>1 DEF CallTypes, Calling!TuneDownstream, Calling!Fail, Calling!Probe,
        Calling!SecondRecord, Calling!Record, Calling!native
  <2> QED
    BY <2>2, <2>3, <2>4, <2>5, <2>6, <2>7 DEF CallInv
<1>14. ASSUME Calling!Launch PROVE CallInv'
  <2>1. /\ req' = req /\ OwnRadius' = OwnRadius
        /\ (Fits' <=> Fits) /\ (Calling!Trivial' <=> Calling!Trivial)
    BY <1>14, SameCall DEF Calling!Launch, Calling!Fail, Calling!Policy, Calling!native
  <2>2. CallTypes'
    BY <1>0, <1>14, <2>1, SameDevices DEF CallTypes, Calling!Launch, Calling!Fail,
        Calling!Policy, Calling!native
  <2>3. NothingBegun'
    BY <1>0, <1>14, <2>1, SameDevices DEF CallTypes, NothingBegun, Opening, Calling!Launch,
        Calling!Fail, Calling!Policy, Calling!native
  <2>4. Readied'
    BY <1>0, <1>14, <2>1, SameDevices DEF CallTypes, Readied, Tuning, Ranking,
        Calling!Launch, Calling!Fail, Calling!Policy, Calling!native
  <2>5. Environment'
    BY <1>0, <1>14, <2>1, SameDevices DEF CallTypes, Environment, Tuning, Ranking, Owed,
        SameRecord, Owing, Calling!RowsPerParent, Calling!Launch, Calling!Fail,
        Calling!Policy, Calling!native
  <2>6. Started'
    <3>1. /\ pc = "launch" /\ Owing(env) /\ Fits /\ Suited /\ launched = Calling!NoEnv
          /\ UNCHANGED <<devices, executor, recorded>>
      BY <1>0, <1>14 DEF Environment, Tuning, Readied, Started, Ranking, Calling!Launch
    <3>2. CASE launched' = launched
      BY <3>1, <3>2 DEF Started
    <3>3. CASE launched' = Calling!Policy(env) /\ pc' = "ranks"
      <4>1. launched' = [rows |-> env.rows, micro |-> env.micro, bucket |-> req.collect,
                         radius |-> env.radius, width |-> env.width, gpus |-> env.gpus]
        BY <3>1, <3>3 DEF Calling!Policy, Owing, Owed, SameRecord
      <4>2. Owed(launched)' /\ launched'.bucket = req.collect
        BY <2>1, <3>1, <4>1, SameDevices DEF Owing, Owed, SameRecord
      <4>3. recorded' = Calling!Record(launched)'
        BY <2>1, <3>1, <4>1, SameCall DEF Owing, Calling!Record
      <4>4. Calling!Storage(env.width, Len(devices)) = Calling!Storage(launched.width, Len(devices))'
        BY <3>1, <4>1 DEF Calling!Storage, Calling!RoundUp, Calling!LogicalShard
      <4>5. Owing(launched)'
        BY <2>1, <3>1, <4>1, <4>2, <4>3, <4>4, SameCall DEF Owing
      <4> QED
        BY <2>1, <3>1, <3>3, <4>2, <4>5, SameDevices DEF Started, Ranking
    <3> QED
      BY <1>14, <3>2, <3>3 DEF Calling!Launch
  <2>7. (session => pc = "downstream")' /\ (pc = "parse" => length <= req.steps)'
    BY <1>0, <1>14, <2>1 DEF CallTypes, Calling!Launch, Calling!Fail, Calling!Policy,
        Calling!native
  <2> QED
    BY <2>2, <2>3, <2>4, <2>5, <2>6, <2>7 DEF CallInv
<1>15. ASSUME Calling!Ranks PROVE CallInv'
  <2>1. /\ req' = req /\ OwnRadius' = OwnRadius
        /\ (Fits' <=> Fits) /\ (Calling!Trivial' <=> Calling!Trivial)
    BY <1>15, SameCall DEF Calling!Ranks, Calling!Fail, Calling!native
  <2>2. CallTypes'
    <3>1. /\ files' \in {files, IF dir = "made" THEN files \cup {"error"} ELSE files}
          /\ session' \in BOOLEAN
      BY <1>0, <1>15 DEF CallTypes, Calling!Ranks, Calling!Fail
    <3>2. length' \in 0..MaxSteps
      <4>1. req.steps \in 0..MaxSteps /\ MaxSteps \in Nat
        BY <1>0, CallsAssumption DEF CallTypes, Calling!Requests, Calling!CallAssumption
      <4>2. length' = length \/ length' \in 0..req.steps
        BY <1>0, <1>15, PathIsShort DEF Readied, Environment, Ranking, Calling!Ranks,
            CallTypes, Fits
      <4> QED
        BY <1>0, <4>1, <4>2 DEF CallTypes
    <3>3. UNCHANGED <<req, dir, executor, probed>>
      BY <1>15 DEF Calling!Ranks
    <3> QED
      BY <1>0, <3>1, <3>2, <3>3 DEF CallTypes
  <2>3. NothingBegun'
    BY <1>0, <1>15, <2>1, SameDevices DEF CallTypes, NothingBegun, Opening, Calling!Ranks,
        Calling!Fail, Calling!native
  <2>4. Readied'
    BY <1>0, <1>15, <2>1, SameDevices DEF CallTypes, Readied, Tuning, Ranking,
        Calling!Ranks, Calling!Fail, Calling!native
  <2>5. Environment'
    BY <1>0, <1>15, <2>1, SameDevices DEF CallTypes, Environment, Tuning, Ranking, Owed,
        SameRecord, Owing, Calling!RowsPerParent, Calling!Ranks, Calling!Fail,
        Calling!native
  <2>6. Started'
    BY <1>0, <1>15, <2>1, SameDevices DEF CallTypes, Started, Ranking, Owing, Owed,
        SameRecord, Calling!RowsPerParent, Calling!Record, Calling!Ranks, Calling!Fail,
        Calling!native
  <2>7. (session => pc = "downstream")' /\ (pc = "parse" => length <= req.steps)'
    <3>1. req.steps \in Int
      BY <1>0 DEF CallTypes, Calling!Requests
    <3>2. pc' = "raised" \/ length' \in 0..req.steps
      BY <1>0, <1>15, PathIsShort DEF Readied, Environment, Ranking, Calling!Ranks,
          CallTypes, Fits, Calling!Fail
    <3>3. ~session' /\ pc' \in {"raised", "parse"}
      BY <1>0, <1>15 DEF CallTypes, Calling!Ranks, Calling!Fail
    <3> QED
      BY <1>0, <2>1, <3>1, <3>2, <3>3
  <2> QED
    BY <2>2, <2>3, <2>4, <2>5, <2>6, <2>7 DEF CallInv
<1>16. ASSUME Calling!Parse PROVE CallInv'
  <2>1. /\ req' = req /\ OwnRadius' = OwnRadius
        /\ (Fits' <=> Fits) /\ (Calling!Trivial' <=> Calling!Trivial)
    BY <1>16, SameCall DEF Calling!Parse, Calling!Answer, Calling!Fail, Calling!native
  <2>2. CallTypes'
    BY <1>0, <1>16, <2>1, SameDevices DEF CallTypes, Calling!Parse, Calling!Answer,
        Calling!Fail, Calling!native
  <2>3. NothingBegun'
    BY <1>0, <1>16, <2>1, SameDevices DEF CallTypes, NothingBegun, Opening, Calling!Parse,
        Calling!Answer, Calling!Fail, Calling!native
  <2>4. Readied'
    BY <1>0, <1>16, <2>1, SameDevices DEF CallTypes, Readied, Tuning, Ranking,
        Calling!Parse, Calling!Answer, Calling!Fail, Calling!native
  <2>5. Environment'
    BY <1>0, <1>16, <2>1, SameDevices DEF CallTypes, Environment, Tuning, Ranking, Owed,
        SameRecord, Owing, Calling!RowsPerParent, Calling!Parse, Calling!Answer,
        Calling!Fail, Calling!native
  <2>6. Started'
    BY <1>0, <1>16, <2>1, SameDevices DEF CallTypes, Started, Ranking, Owing, Owed,
        SameRecord, Calling!RowsPerParent, Calling!Record, Calling!Parse, Calling!Answer,
        Calling!Fail, Calling!native
  <2>7. (session => pc = "downstream")' /\ (pc = "parse" => length <= req.steps)'
    BY <1>0, <1>16, <2>1 DEF CallTypes, Calling!Parse, Calling!Answer, Calling!Fail,
        Calling!native
  <2> QED
    BY <2>2, <2>3, <2>4, <2>5, <2>6, <2>7 DEF CallInv
<1> QED
  BY <1>1, <1>2, <1>3, <1>4, <1>5, <1>6, <1>7, <1>8, <1>9, <1>10, <1>11, <1>12, <1>13, <1>14,
      <1>15, <1>16, CallStutters
     DEF Calling!Next, Calling!Finished

LEMMA CallStarts ==
  ASSUME Calling!Init
  PROVE  CallInv
<1>1. req \in Calling!Requests /\ MaxSteps \in Nat
  BY CallsAssumption DEF Calling!AskedAssumption, Calling!CallAssumption, Calling!Init
<1>2. CallTypes
  <2>1. length = 0 /\ files = {} /\ probed = {} /\ session = FALSE
        /\ dir = "none" /\ executor = "none"
    BY DEF Calling!Init, Calling!None
  <2>2. length \in 0..MaxSteps
    BY <1>1, <2>1
  <2>3. session \in BOOLEAN /\ probed \subseteq {FALSE} /\ files \subseteq {"result", "error"}
    BY <2>1
  <2> QED
    BY <1>1, <2>1, <2>2, <2>3 DEF CallTypes
<1> QED
  BY <1>2 DEF CallInv, NothingBegun, Opening, Readied, Environment, Started, Tuning, Ranking,
      Calling!Init

\* The workers see the selected GPUs in order, none that the runner does not suit.
LEMMA SuitedRuns ==
  ASSUME CallTypes, Suited, launched.gpus = Calling!WorkerGpus(devices)
  PROVE  Calling!RunnerSuits
<1> DEFINE seen == launched.gpus
<1>1. devices \in Seq(Int) /\ \A i \in DOMAIN devices : devices[i] \in 1..Len(Visible)
  BY DEF Suited, Selected, Calling!Available
<1>2. DOMAIN seen = DOMAIN devices /\ \A i \in DOMAIN seen : seen[i] = Visible[devices[i]]
  BY DEF Calling!WorkerGpus
<1>3. \A i \in DOMAIN seen : Gpus[seen[i]] = Calling!Kind(devices[i])
  BY <1>2 DEF Calling!Kind
<1>4. ASSUME NEW i \in DOMAIN seen
      PROVE  /\ Gpus[seen[i]] \in Calling!Kinds
             /\ Gpus[seen[i]] \in Calling!KindsOf(devices)
  <2>1. Visible \in Seq(DOMAIN Gpus) /\ Gpus \in Seq(Calling!Kinds)
    BY CallsAssumption DEF Calling!CallAssumption
  <2>2. Visible[devices[i]] \in DOMAIN Gpus
    <3>1. devices[i] \in 1..Len(Visible)
      BY <1>1, <1>2
    <3> QED
      BY <2>1, <3>1
  <2>3. Gpus[Visible[devices[i]]] \in Calling!Kinds
    BY <2>1, <2>2
  <2> QED
    BY <1>2, <1>3, <2>3 DEF Calling!KindsOf
<1>5. ASSUME NEW i \in DOMAIN seen, executor = "cutlass", Gpus[seen[i]] = "t4"
      PROVE  req.backend = "cutlass"
  BY <1>4, <1>5 DEF Suited, Calling!Executor
<1>6. ASSUME NEW i \in DOMAIN seen, executor = "cutlass", req.ensemble
      PROVE  Gpus[seen[i]] = "ampere"
  BY <1>4, <1>6 DEF Suited, Calling!Runs, Calling!Before80, Calling!Kinds
<1> QED
  BY <1>3, <1>5, <1>6 DEF Calling!RunnerSuits

LEMMA CallWord ==
  ASSUME CallInv
  PROVE  /\ Calling!TypeOK
         /\ Calling!NeverSilently /\ Calling!RecordedIsRun
         /\ Calling!PolicyAfterProbes /\ Calling!PlannerReleased
         /\ Calling!WidthKept
         /\ Calling!BudgetFits /\ Calling!NeighbourhoodFits
         /\ Calling!SlotFits /\ Calling!RunnerSuits
<1>0. /\ CallTypes /\ NothingBegun /\ Readied /\ Environment /\ Started
      /\ (session => pc = "downstream") /\ (pc = "parse" => length <= req.steps)
  BY DEF CallInv
<1>1. Calling!TypeOK
  BY <1>0 DEF CallTypes, NothingBegun, Calling!TypeOK
<1>2. Calling!NeverSilently
  BY <1>0 DEF NothingBegun, Opening, Started, Ranking, Calling!NeverSilently
<1>3. Calling!PolicyAfterProbes
  BY <1>0 DEF CallTypes, Started, Calling!PolicyAfterProbes
<1>4. Calling!PlannerReleased
  BY <1>0 DEF Calling!PlannerReleased, Calling!Over
<1>5. Calling!BudgetFits
  BY <1>0, PathIsShort DEF CallTypes, Readied, Environment, Ranking, Calling!BudgetFits
<1>6. ASSUME launched # Calling!NoEnv
      PROVE  Fits /\ Suited /\ Owing(launched)
  BY <1>0, <1>6 DEF Started
<1>7. Calling!RecordedIsRun
  BY <1>6 DEF Owing, Calling!Record, Calling!RecordedIsRun
<1>8. Calling!WidthKept
  BY <1>6 DEF Owing, Owed, Calling!WidthKept
<1>9. Calling!SlotFits
  BY <1>6 DEF Owing, Calling!SlotFits
<1>10. Calling!RunnerSuits
  <2>1. CASE launched = Calling!NoEnv
    BY <2>1 DEF Calling!RunnerSuits
  <2>2. CASE launched # Calling!NoEnv
    BY <1>0, <1>6, <2>2, SuitedRuns DEF Owing, Owed
  <2> QED
    BY <2>1, <2>2
<1>11. Calling!NeighbourhoodFits
  <2> SUFFICES ASSUME launched # Calling!NoEnv
               PROVE  Calling!Ball[launched.radius] <= MaxEntries
    BY DEF Calling!NeighbourhoodFits
  <2>1. launched.radius = OwnRadius /\ Calling!Room(OwnRadius)
    BY <1>6 DEF Owing, Owed, Fits
  <2>2. OwnRadius \in 0..MaxRadius
    BY <1>0, <1>6, RadiusInBounds DEF CallTypes
  <2> QED
    BY <2>1, <2>2, RoomHoldsTheBall
<1> QED
  BY <1>1, <1>2, <1>3, <1>4, <1>5, <1>7, <1>8, <1>9, <1>10, <1>11

\* Torch answers only when nothing native has begun; what ran is what is recorded, at
\* the width asked for; its path fits max_steps, its neighbourhood the entries allowed,
\* its first slot the shard, its runner the GPUs (dispatch.py, backend.py:586-735).
THEOREM CallsKeepTheirWord == Spec => []CallKeepsItsWord
<1> DEFINE Here == part = "call" => CallInv
<1>1. Init => Here
  BY CallStarts DEF Init
<1>2. Here /\ [Next]_allVars => Here'
  <2> SUFFICES ASSUME Here, [Next]_allVars, part' = "call" PROVE CallInv'
    OBVIOUS
  <2>1. ASSUME CallStep PROVE CallInv'
    BY <2>1, CallKeeps DEF CallStep
  <2>2. ASSUME RouteStep \/ FetchSources \/ BuildRunner \/ FreezeModel \/ PublishResults \/ FitFrontier
        PROVE  FALSE
    BY <2>2 DEF RouteStep, FetchSources, BuildRunner, FreezeModel, PublishResults, FitFrontier
  <2>3. CASE UNCHANGED allVars
    <3>1. UNCHANGED Calling!vars /\ part = "call"
      BY <2>3 DEF allVars, callVars, Calling!vars
    <3> QED
      BY <3>1, CallStutters
  <2> QED
    BY <2>1, <2>2, <2>3 DEF Next
<1>3. Here => CallKeepsItsWord
  BY CallWord DEF CallKeepsItsWord
<1> QED
  BY <1>1, <1>2, <1>3, PTL DEF Spec

----------------------------------------------------------------------------
(* Routes into CayleyPy with the public hook.                               *)

Hooks == {"native", "auto"}
Enlisting == {"register", "default", "undo"}

HookTypes ==
    /\ original = Hooked!NoFunction /\ method = <<>>
    /\ owner \in [Hooks -> Hooked!Ours \cup {Hooked!Free, Hooked!Foreign}]
    /\ default \in Hooked!Modes /\ sessions \in 0..MaxInstalls
    /\ config \in [Hooked!Ours -> [options : Configs \cup {Hooked!None}, default : Hooked!Modes]]
    /\ request \in [options : Configs \cup {Hooked!None}, default : Hooked!Modes]
    /\ pc \in {"idle", "enable", "disable", "unregister"} \cup Enlisting
    /\ foreign \in 0..MaxForeign
    /\ pc = "enable" => Hooked!Registered \/ sessions < MaxInstalls

\* A session that is registered, or on the way, is the last one.
OneRegistered ==
    /\ Hooked!Registered =>
         /\ pc \notin Enlisting
         /\ sessions # 0
         /\ registration = [session |-> sessions, previous |-> registration.previous,
                            default |-> registration.default]
         /\ registration.previous \in Hooked!Modes /\ registration.default \in Hooked!Modes
    /\ pc \in Enlisting => sessions # 0
    /\ pc \in {"disable", "unregister"} => Hooked!Registered

\* A name of ours is of that session.
NamesOfOurs ==
    /\ \A n \in Hooks : owner[n] \in Hooked!Ours =>
           owner[n] = sessions /\ (Hooked!Registered \/ pc \in Enlisting)
    /\ pc = "register" => \E n \in Hooks : owner[n] # sessions
    /\ pc \in {"default", "disable", "unregister"} => \A n \in Hooks : owner[n] = sessions
    /\ pc = "disable" => default = registration.default

WithoutOurs == [n \in Hooks |-> IF owner[n] \in Hooked!Ours THEN Hooked!Free ELSE owner[n]]
Earlier == IF Hooked!Registered /\ pc # "unregister" THEN registration.previous ELSE default

\* What enable_native found is what there is without us, if nobody else acted.
FoundIsKept ==
    /\ before[1] = <<>> /\ before[4] \in Nat /\ before[4] <= foreign
    /\ before[4] = foreign => before[2] = WithoutOurs /\ before[3] = Earlier

HookInv == HookTypes /\ OneRegistered /\ NamesOfOurs /\ FoundIsKept


LEMMA HookNumbers ==
  /\ MaxInstalls \in Nat \ {0} /\ MaxForeign \in Nat
  /\ Hooked!Ours = 1..MaxInstalls /\ Hooked!Free = 0 /\ Hooked!Foreign = MaxInstalls + 1
  /\ Hooked!Range(Hooked!Names) = Hooks
<1>1. MaxInstalls \in Nat \ {0} /\ MaxForeign \in Nat
  BY RoutesAssumption DEF Hooked!DispatchAssumption
<1>2. Hooked!Range(Hooked!Names) = Hooks
  BY DEF Hooked!Range, Hooked!Names, Hooks
<1> QED
  BY <1>1, <1>2 DEF Hooked!Ours, Hooked!Free, Hooked!Foreign

\* The name that is registered next is one of those that are not, and when it is the
\* only one, there is none afterwards.
LEMMA NextIsUnclaimed ==
  ASSUME \E n \in Hooks : owner[n] # sessions
  PROVE  /\ Hooked!NextName \in Hooks /\ owner[Hooked!NextName] # sessions
         /\ Hooked!Cardinality(Hooked!Unclaimed) = 1
              <=> \A n \in Hooks : owner[n] # sessions => n = Hooked!NextName
<1>1. Hooked!Unclaimed = {n \in Hooks : owner[n] # sessions}
  BY HookNumbers DEF Hooked!Unclaimed
<1>2. Hooked!Names = <<"native", "auto">> /\ DOMAIN Hooked!Names = 1..2
      /\ Hooked!Names[1] = "native" /\ Hooked!Names[2] = "auto"
  BY DEF Hooked!Names
<1> DEFINE First(i) == /\ Hooked!Names[i] \in Hooked!Unclaimed
                       /\ \A j \in 1..i - 1 : Hooked!Names[j] \notin Hooked!Unclaimed
<1>3. \E i \in DOMAIN Hooked!Names : First(i)
  <2>1. CASE "native" \in Hooked!Unclaimed
    <3>1. First(1)
      BY <1>2, <2>1
    <3> QED
      BY <1>2, <3>1
  <2>2. CASE "native" \notin Hooked!Unclaimed
    <3>1. "auto" \in Hooked!Unclaimed
      BY <1>1, <2>2 DEF Hooks
    <3>2. First(2)
      BY <1>2, <2>2, <3>1
    <3> QED
      BY <1>2, <3>2
  <2> QED
    BY <2>1, <2>2
<1>4. Hooked!NextName \in Hooked!Unclaimed
  BY <1>3 DEF Hooked!NextName
<1>5. Hooked!Cardinality(Hooked!Unclaimed) = Cardinality(Hooked!Unclaimed)
  BY Zenon DEF Hooked!Cardinality, Cardinality
<1>6. IsFiniteSet(Hooked!Unclaimed)
  <2>1. Hooks = {"native"} \cup {"auto"} /\ IsFiniteSet({"native"}) /\ IsFiniteSet({"auto"})
    BY FS_Singleton DEF Hooks
  <2>2. IsFiniteSet(Hooks)
    BY <2>1, FS_Union
  <2> QED
    BY <1>1, <2>2, FS_Subset
<1>7. Cardinality(Hooked!Unclaimed) = 1 <=> \E m : Hooked!Unclaimed = {m}
  BY <1>6, FS_Singleton
<1>8. (\E m : Hooked!Unclaimed = {m}) <=> \A n \in Hooked!Unclaimed : n = Hooked!NextName
  BY <1>4
<1> QED
  BY <1>1, <1>4, <1>5, <1>7, <1>8

LEMMA HookStarts ==
  ASSUME Hooked!Init
  PROVE  HookInv
<1>1. HookTypes
  BY HookNumbers DEF HookTypes, Enlisting, Hooked!Init, Hooked!Modes, Hooked!None,
      Hooked!Registered
<1>2. ~Hooked!Registered
  BY DEF Hooked!Init, Hooked!Registered
<1>3. OneRegistered
  BY <1>2 DEF OneRegistered, Enlisting, Hooked!Init
<1>4. \A n \in Hooks : owner[n] = Hooked!Free
  BY HookNumbers DEF Hooked!Init
<1>5. NamesOfOurs
  BY <1>4, HookNumbers DEF NamesOfOurs, Hooked!Init
<1>6. FoundIsKept
  <2>1. before[1] = <<>> /\ before[2] = owner /\ before[3] = default /\ before[4] = 0 /\ foreign = 0
    BY DEF Hooked!Init
  <2>2. owner = WithoutOurs
    BY <1>4, HookNumbers DEF WithoutOurs, Hooked!Init
  <2> QED
    BY <1>2, <2>1, <2>2 DEF FoundIsKept, Earlier
<1> QED
  BY <1>1, <1>3, <1>5, <1>6 DEF HookInv

LEMMA HookStutters ==
  ASSUME HookInv, UNCHANGED Hooked!vars
  PROVE  HookInv'
<1>1. HookTypes'
  BY DEF HookInv, HookTypes, Hooked!vars, Hooked!Registered
<1>2. OneRegistered'
  BY DEF HookInv, OneRegistered, Hooked!vars, Hooked!Registered
<1>3. NamesOfOurs'
  BY DEF HookInv, NamesOfOurs, Hooked!vars, Hooked!Registered
<1>4. FoundIsKept'
  BY DEF HookInv, FoundIsKept, WithoutOurs, Earlier, Hooked!vars, Hooked!Registered
<1> QED
  BY <1>1, <1>2, <1>3, <1>4 DEF HookInv

LEMMA HookKeeps ==
  ASSUME HookInv, Hooked!Next
  PROVE  HookInv'
<1>0. HookTypes /\ OneRegistered /\ NamesOfOurs /\ FoundIsKept
  BY DEF HookInv
<1>1. ASSUME Hooked!Enable PROVE HookInv'
  <2>1. HookTypes'
    BY <1>0, <1>1, HookNumbers DEF HookTypes, Enlisting, OneRegistered, Hooked!Modes,
        Hooked!Enable, Hooked!Wrapped, Hooked!Registered, Hooked!hook, Hooked!patch,
        Hooked!outside, Hooked!Idle, Hooked!MayAct
  <2>2. OneRegistered'
    BY <1>0, <1>1, HookNumbers DEF HookTypes, Enlisting, OneRegistered, NamesOfOurs,
        Hooked!Enable, Hooked!Wrapped, Hooked!Registered, Hooked!hook, Hooked!patch,
        Hooked!outside, Hooked!Idle, Hooked!MayAct
  <2>3. NamesOfOurs'
    BY <1>0, <1>1, HookNumbers DEF HookTypes, Enlisting, NamesOfOurs, OneRegistered,
        Hooked!Enable, Hooked!Wrapped, Hooked!Registered, Hooked!hook, Hooked!patch,
        Hooked!outside, Hooked!Idle, Hooked!MayAct
  <2>4. FoundIsKept'
    BY <1>0, <1>1, HookNumbers DEF HookTypes, Enlisting, FoundIsKept, OneRegistered,
        NamesOfOurs, WithoutOurs, Earlier, Hooked!Enable, Hooked!Wrapped, Hooked!Registered,
        Hooked!hook, Hooked!patch, Hooked!outside, Hooked!Idle, Hooked!MayAct
  <2> QED
    BY <2>1, <2>2, <2>3, <2>4 DEF HookInv
<1>2. ASSUME Hooked!EnableRegistry PROVE HookInv'
  <2>1. HookTypes'
    <3>1. /\ pc = "enable" /\ UNCHANGED <<owner, method, original, request, foreign>>
          /\ registration.session \in Hooked!Ours \/ ~Hooked!Registered
      BY <1>0, <1>2, HookNumbers DEF HookTypes, OneRegistered, Hooked!EnableRegistry,
          Hooked!patch,
          Hooked!outside
    <3>2. CASE Hooked!Registered
      <4>1. /\ pc' = "idle" /\ sessions' = sessions /\ default' \in {default, request.default}
            /\ config' \in {config, [config EXCEPT ![registration.session] = request]}
        BY <1>2, <3>2 DEF Hooked!EnableRegistry, Hooked!Idle
      <4>2. request.default \in Hooked!Modes
        BY <1>0 DEF HookTypes
      <4>3. config' \in [Hooked!Ours -> [options : Configs \cup {Hooked!None},
                                         default : Hooked!Modes]]
        BY <1>0, <3>1, <3>2, <4>1 DEF HookTypes
      <4> QED
        BY <1>0, <3>1, <4>1, <4>2, <4>3 DEF HookTypes
    <3>3. CASE ~Hooked!Registered
      <4>1. /\ pc' = "register" /\ sessions' = sessions + 1 /\ default' = default
            /\ config' = [config EXCEPT ![sessions + 1] = request]
        BY <1>2, <3>3 DEF Hooked!EnableRegistry
      <4>2. sessions + 1 \in 0..MaxInstalls
        BY <1>0, <3>1, <3>3, HookNumbers DEF HookTypes
      <4>3. config' \in [Hooked!Ours -> [options : Configs \cup {Hooked!None},
                                         default : Hooked!Modes]]
        BY <1>0, <4>1 DEF HookTypes
      <4> QED
        BY <1>0, <3>1, <4>1, <4>2, <4>3 DEF HookTypes, Enlisting
    <3> QED
      BY <3>2, <3>3
  <2>2. OneRegistered'
    BY <1>0, <1>2, HookNumbers DEF HookTypes, Enlisting, OneRegistered, NamesOfOurs,
        Hooked!EnableRegistry, Hooked!Updated, Hooked!Registered, Hooked!hook, Hooked!patch,
        Hooked!outside, Hooked!Idle, Hooked!MayAct
  <2>3. NamesOfOurs'
    <3>1. CASE Hooked!Registered
      <4>1. Hooked!Registered' /\ UNCHANGED <<owner, sessions>> /\ pc' = "idle"
        BY <1>0, <1>2, <3>1 DEF OneRegistered, Hooked!EnableRegistry, Hooked!Updated, Hooked!Idle,
            Hooked!Registered, Hooked!NoRegistration
      <4> QED
        BY <1>0, <4>1 DEF NamesOfOurs
    <3>2. CASE ~Hooked!Registered
      <4>1. /\ pc = "enable" /\ pc' = "register" /\ sessions' = sessions + 1
            /\ owner' = owner /\ sessions < MaxInstalls /\ sessions \in Nat
        BY <1>0, <1>2, <3>2, HookNumbers DEF HookTypes, Hooked!EnableRegistry
      <4>2. \A n \in Hooks : owner[n] \notin Hooked!Ours
        BY <1>0, <3>2, <4>1 DEF NamesOfOurs, Enlisting
      <4>3. sessions' \in Hooked!Ours
        BY <4>1, HookNumbers
      <4>4. \E n \in Hooks : owner'[n] # sessions'
        BY <4>1, <4>2, <4>3 DEF Hooks
      <4> QED
        BY <4>1, <4>2, <4>4 DEF NamesOfOurs
    <3> QED
      BY <3>1, <3>2
  <2>4. FoundIsKept'
    <3>1. WithoutOurs' = WithoutOurs /\ foreign' = foreign /\ foreign \in Nat
      BY <1>0, <1>2, HookNumbers DEF HookTypes, WithoutOurs, Hooked!EnableRegistry, Hooked!outside
    <3>2. CASE Hooked!Registered
      <4>1. Hooked!Registered' /\ pc' = "idle" /\ pc = "enable"
            /\ before' = before /\ registration'.previous = registration.previous
        BY <1>0, <1>2, <3>2 DEF OneRegistered, Hooked!EnableRegistry, Hooked!Updated, Hooked!Idle,
            Hooked!Registered, Hooked!NoRegistration
      <4>2. Earlier' = Earlier
        BY <3>2, <4>1 DEF Earlier
      <4> QED
        BY <1>0, <3>1, <4>1, <4>2 DEF FoundIsKept
    <3>3. CASE ~Hooked!Registered
      <4>1. /\ before' = <<method, owner, default, foreign>>
            /\ UNCHANGED <<owner, default, registration>> /\ pc = "enable" /\ pc' = "register"
        BY <1>2, <3>3 DEF Hooked!EnableRegistry
      <4>2. before'[1] = <<>> /\ before'[2] = owner /\ before'[3] = default /\ before'[4] = foreign
        BY <1>0, <4>1 DEF HookTypes
      <4>3. \A n \in Hooks : owner[n] \notin Hooked!Ours
        BY <1>0, <3>3, <4>1 DEF NamesOfOurs, Enlisting
      <4>4. owner = WithoutOurs
        BY <1>0, <4>3 DEF WithoutOurs, HookTypes
      <4>5. Earlier' = default
        BY <3>3, <4>1 DEF Earlier, Hooked!Registered
      <4> QED
        BY <3>1, <4>2, <4>4, <4>5 DEF FoundIsKept
    <3> QED
      BY <3>2, <3>3
  <2> QED
    BY <2>1, <2>2, <2>3, <2>4 DEF HookInv
<1>3. ASSUME Hooked!Register PROVE HookInv'
  <2>1. HookTypes'
    BY <1>0, <1>3, HookNumbers, NextIsUnclaimed DEF HookTypes, Enlisting, OneRegistered,
        Hooked!Modes, Hooked!Register, Hooked!RollBack, Hooked!Registered, Hooked!hook,
        Hooked!patch, Hooked!outside, Hooked!Idle, Hooked!MayAct
  <2>2. OneRegistered'
    BY <1>0, <1>3, HookNumbers, NextIsUnclaimed DEF HookTypes, Enlisting, OneRegistered,
        NamesOfOurs, Hooked!Register, Hooked!RollBack, Hooked!Registered, Hooked!hook,
        Hooked!patch, Hooked!outside, Hooked!Idle, Hooked!MayAct
  <2>3. NamesOfOurs'
    BY <1>0, <1>3, HookNumbers, NextIsUnclaimed DEF HookTypes, Enlisting, NamesOfOurs,
        OneRegistered, Hooked!Register, Hooked!RollBack, Hooked!Registered, Hooked!hook,
        Hooked!patch, Hooked!outside, Hooked!Idle, Hooked!MayAct
  <2>4. FoundIsKept'
    BY <1>0, <1>3, HookNumbers, NextIsUnclaimed DEF HookTypes, Enlisting, FoundIsKept,
        OneRegistered, NamesOfOurs, WithoutOurs, Earlier, Hooked!Register, Hooked!RollBack,
        Hooked!Registered, Hooked!hook, Hooked!patch, Hooked!outside, Hooked!Idle,
        Hooked!MayAct
  <2> QED
    BY <2>1, <2>2, <2>3, <2>4 DEF HookInv
<1>4. ASSUME Hooked!Undo PROVE HookInv'
  <2>1. HookTypes'
    BY <1>0, <1>4, HookNumbers DEF HookTypes, Enlisting, OneRegistered, Hooked!Modes,
        Hooked!Undo, Hooked!Registered, Hooked!hook, Hooked!patch, Hooked!outside,
        Hooked!Idle, Hooked!MayAct
  <2>2. OneRegistered'
    BY <1>0, <1>4, HookNumbers DEF HookTypes, Enlisting, OneRegistered, NamesOfOurs,
        Hooked!Undo, Hooked!Registered, Hooked!hook, Hooked!patch, Hooked!outside,
        Hooked!Idle, Hooked!MayAct
  <2>3. NamesOfOurs'
    BY <1>0, <1>4, HookNumbers DEF HookTypes, Enlisting, NamesOfOurs, OneRegistered,
        Hooked!Undo, Hooked!Registered, Hooked!hook, Hooked!patch, Hooked!outside,
        Hooked!Idle, Hooked!MayAct
  <2>4. FoundIsKept'
    BY <1>0, <1>4, HookNumbers DEF HookTypes, Enlisting, FoundIsKept, OneRegistered,
        NamesOfOurs, WithoutOurs, Earlier, Hooked!Undo, Hooked!Registered, Hooked!hook,
        Hooked!patch, Hooked!outside, Hooked!Idle, Hooked!MayAct
  <2> QED
    BY <2>1, <2>2, <2>3, <2>4 DEF HookInv
<1>5. ASSUME Hooked!SetDefault PROVE HookInv'
  <2>1. HookTypes'
    BY <1>0, <1>5, HookNumbers DEF HookTypes, Enlisting, OneRegistered, Hooked!Modes,
        Hooked!SetDefault, Hooked!Registered, Hooked!hook, Hooked!patch, Hooked!outside,
        Hooked!Idle, Hooked!MayAct
  <2>2. OneRegistered'
    BY <1>0, <1>5, HookNumbers DEF HookTypes, Enlisting, OneRegistered, NamesOfOurs,
        Hooked!SetDefault, Hooked!Registered, Hooked!hook, Hooked!patch, Hooked!outside,
        Hooked!Idle, Hooked!MayAct
  <2>3. NamesOfOurs'
    <3>1. pc = "default" /\ pc' = "idle" /\ UNCHANGED <<owner, sessions, before, foreign>>
          /\ registration' = [session |-> sessions, previous |-> default, default |-> request.default]
      BY <1>5 DEF Hooked!SetDefault, Hooked!Idle, Hooked!outside
    <3>2. sessions # 0 /\ registration'.session = sessions /\ registration'.previous = default
      BY <1>0, <3>1 DEF OneRegistered, Enlisting
    <3>3. Hooked!Registered'
      BY <3>2 DEF Hooked!Registered, Hooked!NoRegistration
    <3> QED
      BY <1>0, <3>1, <3>3 DEF NamesOfOurs
  <2>4. FoundIsKept'
    <3>1. pc = "default" /\ pc' = "idle" /\ UNCHANGED <<owner, sessions, before, foreign>>
          /\ registration' = [session |-> sessions, previous |-> default, default |-> request.default]
      BY <1>5 DEF Hooked!SetDefault, Hooked!Idle, Hooked!outside
    <3>2. sessions # 0 /\ registration'.session = sessions /\ registration'.previous = default
      BY <1>0, <3>1 DEF OneRegistered, Enlisting
    <3>3. Hooked!Registered'
      BY <3>2 DEF Hooked!Registered, Hooked!NoRegistration
    <3>4. ~Hooked!Registered
      BY <1>0, <3>1 DEF OneRegistered, Enlisting
    <3>5. Earlier = default /\ Earlier' = default /\ WithoutOurs' = WithoutOurs
      BY <3>1, <3>2, <3>3, <3>4 DEF Earlier, WithoutOurs
    <3> QED
      BY <1>0, <3>1, <3>5 DEF FoundIsKept
  <2> QED
    BY <2>1, <2>2, <2>3, <2>4 DEF HookInv
<1>6. ~Hooked!Rewrap
  BY <1>0 DEF HookTypes, Enlisting, Hooked!Rewrap
<1>7. ASSUME Hooked!Disable PROVE HookInv'
  <2>1. HookTypes'
    BY <1>0, <1>7, HookNumbers DEF HookTypes, Enlisting, OneRegistered, Hooked!Modes,
        Hooked!Disable, Hooked!StillInstalled, Hooked!Wrapped, Hooked!Registered,
        Hooked!hook, Hooked!patch, Hooked!outside, Hooked!Idle, Hooked!MayAct
  <2>2. OneRegistered'
    BY <1>0, <1>7, HookNumbers DEF HookTypes, Enlisting, OneRegistered, NamesOfOurs,
        Hooked!Disable, Hooked!StillInstalled, Hooked!Wrapped, Hooked!Registered,
        Hooked!hook, Hooked!patch, Hooked!outside, Hooked!Idle, Hooked!MayAct
  <2>3. NamesOfOurs'
    <3>1. UNCHANGED <<owner, sessions, registration, default>> /\ pc = "idle"
      BY <1>7 DEF Hooked!Disable, Hooked!hook
    <3>2. pc' = "idle" \/ (pc' = "disable" /\ Hooked!Registered /\ Hooked!Owned)
      BY <1>0, <1>7 DEF HookTypes, Hooked!Disable, Hooked!StillInstalled, Hooked!Wrapped
    <3>3. Hooked!Registered' <=> Hooked!Registered
      BY <3>1 DEF Hooked!Registered
    <3>4. Hooked!Registered /\ Hooked!Owned
            => default = registration.default /\ \A n \in Hooks : owner[n] = sessions
      BY <1>0, HookNumbers DEF OneRegistered, Hooked!Owned
    <3> QED
      BY <1>0, <3>1, <3>2, <3>3, <3>4 DEF NamesOfOurs, Enlisting
  <2>4. FoundIsKept'
    BY <1>0, <1>7, HookNumbers DEF HookTypes, Enlisting, FoundIsKept, OneRegistered,
        NamesOfOurs, WithoutOurs, Earlier, Hooked!Disable, Hooked!StillInstalled,
        Hooked!Wrapped, Hooked!Registered, Hooked!hook, Hooked!patch, Hooked!outside,
        Hooked!Idle, Hooked!MayAct
  <2> QED
    BY <2>1, <2>2, <2>3, <2>4 DEF HookInv
<1>8. ASSUME Hooked!RestoreDefault PROVE HookInv'
  <2>1. HookTypes'
    BY <1>0, <1>8, HookNumbers DEF HookTypes, Enlisting, OneRegistered, Hooked!Modes,
        Hooked!RestoreDefault, Hooked!Registered, Hooked!hook, Hooked!patch, Hooked!outside,
        Hooked!Idle, Hooked!MayAct
  <2>2. OneRegistered'
    BY <1>0, <1>8, HookNumbers DEF HookTypes, Enlisting, OneRegistered, NamesOfOurs,
        Hooked!RestoreDefault, Hooked!Registered, Hooked!hook, Hooked!patch, Hooked!outside,
        Hooked!Idle, Hooked!MayAct
  <2>3. NamesOfOurs'
    BY <1>0, <1>8, HookNumbers DEF HookTypes, Enlisting, NamesOfOurs, OneRegistered,
        Hooked!RestoreDefault, Hooked!Registered, Hooked!hook, Hooked!patch, Hooked!outside,
        Hooked!Idle, Hooked!MayAct
  <2>4. FoundIsKept'
    BY <1>0, <1>8, HookNumbers DEF HookTypes, Enlisting, FoundIsKept, OneRegistered,
        NamesOfOurs, WithoutOurs, Earlier, Hooked!RestoreDefault, Hooked!Registered,
        Hooked!hook, Hooked!patch, Hooked!outside, Hooked!Idle, Hooked!MayAct
  <2> QED
    BY <2>1, <2>2, <2>3, <2>4 DEF HookInv
<1>9. ASSUME Hooked!Unregister PROVE HookInv'
  <2>1. HookTypes'
    BY <1>0, <1>9, HookNumbers DEF HookTypes, Enlisting, OneRegistered, Hooked!Modes,
        Hooked!Unregister, Hooked!Registered, Hooked!hook, Hooked!patch, Hooked!outside,
        Hooked!Idle, Hooked!MayAct
  <2>2. OneRegistered'
    BY <1>0, <1>9, HookNumbers DEF HookTypes, Enlisting, OneRegistered, NamesOfOurs,
        Hooked!Unregister, Hooked!Registered, Hooked!hook, Hooked!patch, Hooked!outside,
        Hooked!Idle, Hooked!MayAct
  <2>3. NamesOfOurs'
    BY <1>0, <1>9, HookNumbers DEF HookTypes, Enlisting, NamesOfOurs, OneRegistered,
        Hooked!Unregister, Hooked!Registered, Hooked!hook, Hooked!patch, Hooked!outside,
        Hooked!Idle, Hooked!MayAct
  <2>4. FoundIsKept'
    BY <1>0, <1>9, HookNumbers DEF HookTypes, Enlisting, FoundIsKept, OneRegistered,
        NamesOfOurs, WithoutOurs, Earlier, Hooked!Unregister, Hooked!Registered,
        Hooked!hook, Hooked!patch, Hooked!outside, Hooked!Idle, Hooked!MayAct
  <2> QED
    BY <2>1, <2>2, <2>3, <2>4 DEF HookInv
<1>10. ~Hooked!Unwrap
  BY <1>0 DEF HookTypes, Enlisting, Hooked!Unwrap
<1>11. ASSUME NEW n \in Hooks, Hooked!ForeignName(n) PROVE HookInv'
  <2>1. HookTypes'
    BY <1>0, <1>11, HookNumbers DEF HookTypes, Enlisting, OneRegistered, Hooked!Modes,
        Hooked!ForeignName, Hooked!Registered, Hooked!hook, Hooked!patch, Hooked!outside,
        Hooked!Idle, Hooked!MayAct
  <2>2. OneRegistered'
    BY <1>0, <1>11, HookNumbers DEF HookTypes, Enlisting, OneRegistered, NamesOfOurs,
        Hooked!ForeignName, Hooked!Registered, Hooked!hook, Hooked!patch, Hooked!outside,
        Hooked!Idle, Hooked!MayAct
  <2>3. NamesOfOurs'
    BY <1>0, <1>11, HookNumbers DEF HookTypes, Enlisting, NamesOfOurs, OneRegistered,
        Hooked!ForeignName, Hooked!Registered, Hooked!hook, Hooked!patch, Hooked!outside,
        Hooked!Idle, Hooked!MayAct
  <2>4. FoundIsKept'
    BY <1>0, <1>11, HookNumbers DEF HookTypes, Enlisting, FoundIsKept, OneRegistered,
        NamesOfOurs, WithoutOurs, Earlier, Hooked!ForeignName, Hooked!Registered,
        Hooked!hook, Hooked!patch, Hooked!outside, Hooked!Idle, Hooked!MayAct
  <2> QED
    BY <2>1, <2>2, <2>3, <2>4 DEF HookInv
<1>12. ASSUME NEW m \in Hooked!Modes, Hooked!ForeignDefault(m) PROVE HookInv'
  <2>1. HookTypes'
    BY <1>0, <1>12, HookNumbers DEF HookTypes, Enlisting, OneRegistered, Hooked!Modes,
        Hooked!ForeignDefault, Hooked!Registered, Hooked!hook, Hooked!patch, Hooked!outside,
        Hooked!Idle, Hooked!MayAct
  <2>2. OneRegistered'
    BY <1>0, <1>12, HookNumbers DEF HookTypes, Enlisting, OneRegistered, NamesOfOurs,
        Hooked!ForeignDefault, Hooked!Registered, Hooked!hook, Hooked!patch, Hooked!outside,
        Hooked!Idle, Hooked!MayAct
  <2>3. NamesOfOurs'
    BY <1>0, <1>12, HookNumbers DEF HookTypes, Enlisting, NamesOfOurs, OneRegistered,
        Hooked!ForeignDefault, Hooked!Registered, Hooked!hook, Hooked!patch, Hooked!outside,
        Hooked!Idle, Hooked!MayAct
  <2>4. FoundIsKept'
    BY <1>0, <1>12, HookNumbers DEF HookTypes, Enlisting, FoundIsKept, OneRegistered,
        NamesOfOurs, WithoutOurs, Earlier, Hooked!ForeignDefault, Hooked!Registered,
        Hooked!hook, Hooked!patch, Hooked!outside, Hooked!Idle, Hooked!MayAct
  <2> QED
    BY <2>1, <2>2, <2>3, <2>4 DEF HookInv
<1>13. ~Hooked!ForeignWrap /\ ~Hooked!ForeignRestore /\ ~Hooked!ForeignSave
  BY DEF Hooked!ForeignWrap, Hooked!ForeignRestore, Hooked!ForeignSave
<1> QED
  BY <1>1, <1>2, <1>3, <1>4, <1>5, <1>6, <1>7, <1>8, <1>9, <1>10, <1>11, <1>12, <1>13,
      HookNumbers DEF Hooked!Next, Hooked!Own, Hooked!Other

LEMMA HookWord ==
  ASSUME HookInv
  PROVE  /\ Hooked!TypeOK /\ Hooked!RestoresWhatItFound
         /\ Hooked!TorchStaysTorch /\ Hooked!NothingLeftBehind
<1>0. HookTypes /\ OneRegistered /\ NamesOfOurs /\ FoundIsKept
  BY DEF HookInv
<1>1. Hooked!TypeOK
  <2>1. ~Hooked!Wrapped
    BY <1>0 DEF HookTypes, Hooked!Wrapped
  <2>2. registration.session \in 0..sessions
    <3>1. CASE Hooked!Registered
      BY <1>0, <3>1, HookNumbers DEF HookTypes, OneRegistered
    <3>2. CASE ~Hooked!Registered
      BY <1>0, <3>2, HookNumbers DEF HookTypes, Hooked!Registered, Hooked!NoRegistration
    <3> QED
      BY <3>1, <3>2
  <2> QED
    BY <1>0, <2>1, <2>2, HookNumbers DEF HookTypes, Enlisting, Hooked!TypeOK
<1>2. Hooked!TorchStaysTorch
  <2>1. Hooked!Layers(method) = {}
    BY <1>0 DEF HookTypes, Hooked!Layers
  <2>2. Hooked!Cardinality({}) = Cardinality({})
    BY Zenon DEF Hooked!Cardinality, Cardinality
  <2>3. Cardinality({}) = 0
    BY FS_EmptySet
  <2> QED
    BY <2>1, <2>2, <2>3 DEF Hooked!TorchStaysTorch
<1>3. ASSUME Hooked!Removed
      PROVE  \A n \in Hooks : owner[n] \notin Hooked!Ours
  BY <1>0, <1>3 DEF NamesOfOurs, Enlisting, Hooked!Removed
<1>4. Hooked!NothingLeftBehind
  BY <1>0, <1>3, HookNumbers DEF HookTypes, Hooked!NothingLeftBehind
<1>5. Hooked!RestoresWhatItFound
  <2> SUFFICES ASSUME Hooked!Removed, before[4] = foreign
               PROVE  <<method, owner, default>> = <<before[1], before[2], before[3]>>
    BY DEF Hooked!RestoresWhatItFound
  <2>1. owner = WithoutOurs
    BY <1>0, <1>3 DEF HookTypes, WithoutOurs
  <2>2. Earlier = default
    BY DEF Earlier, Hooked!Removed
  <2> QED
    BY <1>0, <2>1, <2>2 DEF FoundIsKept, HookTypes
<1> QED
  BY <1>1, <1>2, <1>4, <1>5

\* What belongs to another integration is neither dropped nor put back.
LEMMA HookKeepsTheirs ==
  ASSUME HookInv, [Hooked!Next]_(Hooked!vars)
  PROVE  Hooked!ForeignKept /\ Hooked!ForeignDefaultKept
<1>0. HookTypes /\ OneRegistered /\ NamesOfOurs /\ FoundIsKept
  BY DEF HookInv
<1>1. ASSUME Hooked!Own
      PROVE  method' = method
  BY <1>0, <1>1 DEF HookTypes, Enlisting, Hooked!Own, Hooked!Enable, Hooked!EnableRegistry,
      Hooked!Register, Hooked!Undo, Hooked!SetDefault, Hooked!Rewrap, Hooked!Disable,
      Hooked!RestoreDefault, Hooked!Unregister, Hooked!Unwrap, Hooked!patch
<1>2. ASSUME Hooked!Own, NEW n \in Hooks, owner[n] = Hooked!Foreign
      PROVE  owner'[n] = Hooked!Foreign
  <2>1. owner[n] # sessions /\ owner[n] # Hooked!Free
    BY <1>0, <1>2, HookNumbers DEF HookTypes
  <2>2. ASSUME Hooked!Register
        PROVE  owner'[n] = Hooked!Foreign
    <3>1. owner' = owner \/ (owner[Hooked!NextName] = Hooked!Free
                              /\ owner' = [owner EXCEPT ![Hooked!NextName] = sessions])
      BY <2>2 DEF Hooked!Register
    <3> QED
      BY <1>0, <1>2, <2>1, <3>1 DEF HookTypes
  <2>3. ASSUME Hooked!Undo
        PROVE  owner'[n] = Hooked!Foreign
    BY <1>0, <1>2, <2>1, <2>3 DEF HookTypes, Hooked!Undo
  <2>4. ~Hooked!Unregister
    BY <1>0, <2>1 DEF NamesOfOurs, Hooked!Unregister
  <2>5. ~Hooked!Rewrap /\ ~Hooked!Unwrap
    BY <1>0 DEF HookTypes, Enlisting, Hooked!Rewrap, Hooked!Unwrap
  <2> QED
    BY <1>2, <2>2, <2>3, <2>4, <2>5
       DEF Hooked!Own, Hooked!Enable, Hooked!EnableRegistry, Hooked!SetDefault, Hooked!Disable,
           Hooked!RestoreDefault, Hooked!hook
<1>3. ASSUME Hooked!Own, Hooked!Registered, default' # default
      PROVE  default = registration.default
  BY <1>0, <1>3
     DEF HookTypes, Enlisting, OneRegistered, NamesOfOurs, Hooked!Own, Hooked!Enable,
         Hooked!EnableRegistry, Hooked!Owned, Hooked!Register, Hooked!Undo, Hooked!SetDefault,
         Hooked!Rewrap, Hooked!Disable, Hooked!RestoreDefault, Hooked!Unregister, Hooked!Unwrap,
         Hooked!hook
<1>4. Hooked!ForeignKept
  BY <1>0, <1>1, <1>2 DEF HookTypes, Hooked!ForeignKept, Hooked!Theirs
<1>5. Hooked!ForeignDefaultKept
  BY <1>3 DEF Hooked!ForeignDefaultKept
<1> QED
  BY <1>4, <1>5

----------------------------------------------------------------------------
(* Routes into a CayleyPy without it.                                       *)

Wrappers == Patched!Ours \cup {Patched!Foreign}

PatchTypes ==
    /\ method \in Seq(Wrappers) /\ saved \in Seq(Wrappers)
    /\ Patched!Wrapped => original \in Seq(Wrappers)
    /\ owner = [n \in Hooks |-> Patched!Free] /\ default = "torch"
    /\ registration = Patched!NoRegistration
    /\ sessions \in 0..MaxInstalls
    /\ config \in [Patched!Ours -> [options : Configs \cup {Patched!None}, default : Patched!Modes]]
    /\ request \in [options : Configs \cup {Patched!None}, default : Patched!Modes]
    /\ pc \in {"idle", "rewrap", "unwrap"}
    /\ foreign \in 0..MaxForeign
    /\ pc = "rewrap" => Patched!Wrapped \/ sessions < MaxInstalls

\* Ours is around a function that has no other of ours; without it there is none.
OneWrapper ==
    /\ Patched!Wrapped =>
         /\ sessions # 0 /\ installed = Append(original, sessions)
         /\ Patched!Layers(original) = {}
    /\ ~Patched!Wrapped => Patched!Layers(method) = {}
    /\ \A i, j \in Patched!Layers(method) : i = j
    /\ pc = "unwrap" => Patched!Wrapped /\ method = installed

FunctionFound ==
    /\ before[2] = owner /\ before[3] = default
    /\ before[4] \in Nat /\ before[4] <= foreign
    /\ Patched!Wrapped => original = before[1]
    /\ ~Patched!Wrapped /\ before[4] = foreign => method = before[1]

PatchInv == PatchTypes /\ OneWrapper /\ FunctionFound

LEMMA PatchNumbers ==
  /\ MaxInstalls \in Nat \ {0} /\ MaxForeign \in Nat
  /\ Patched!Ours = 1..MaxInstalls /\ Patched!Foreign = MaxInstalls + 1
  /\ Wrappers = 1..(MaxInstalls + 1)
  /\ Patched!Range(Patched!Names) = Hooks
<1>1. MaxInstalls \in Nat \ {0} /\ MaxForeign \in Nat
  BY RoutesAssumption DEF Hooked!DispatchAssumption
<1>2. Patched!Range(Patched!Names) = Hooks
  BY DEF Patched!Range, Patched!Names, Hooks
<1> QED
  BY <1>1, <1>2 DEF Patched!Ours, Patched!Foreign, Wrappers

\* One more wrapper is one more position, ours or not.
LEMMA OneMoreWrapper ==
  ASSUME NEW f \in Seq(Wrappers), NEW w \in Wrappers
  PROVE  /\ Append(f, w) \in Seq(Wrappers) /\ f # Patched!NoFunction
         /\ w \in Patched!Ours =>
              /\ Patched!Layers(Append(f, w)) = Patched!Layers(f) \cup {Len(f) + 1}
              /\ Patched!Theirs(Append(f, w)) = Patched!Theirs(f)
         /\ w \notin Patched!Ours => Patched!Layers(Append(f, w)) = Patched!Layers(f)
<1>1. /\ DOMAIN f = 1..Len(f) /\ Len(f) \in Nat
      /\ DOMAIN Append(f, w) = DOMAIN f \cup {Len(f) + 1}
      /\ \A i \in DOMAIN f : Append(f, w)[i] = f[i] /\ i # Len(f) + 1
      /\ Append(f, w)[Len(f) + 1] = w
  OBVIOUS
<1>2. f # Patched!NoFunction
  <2>1. SUFFICES ASSUME f = Patched!NoFunction PROVE FALSE
    OBVIOUS
  <2>2. 1 \in DOMAIN f /\ f[1] = 0
    BY <2>1 DEF Patched!NoFunction
  <2>3. f[1] \in Wrappers
    BY <2>2
  <2> QED
    BY <2>2, <2>3, PatchNumbers
<1>3. w \in Patched!Ours => w # Patched!Foreign
  BY PatchNumbers
<1>4. w \in Patched!Ours => Patched!Layers(Append(f, w)) = Patched!Layers(f) \cup {Len(f) + 1}
  BY <1>1 DEF Patched!Layers
<1>5. w \in Patched!Ours => Patched!Theirs(Append(f, w)) = Patched!Theirs(f)
  BY <1>1, <1>3 DEF Patched!Theirs
<1>6. w \notin Patched!Ours => Patched!Layers(Append(f, w)) = Patched!Layers(f)
  BY <1>1 DEF Patched!Layers
<1> QED
  BY <1>2, <1>4, <1>5, <1>6

LEMMA PatchStarts ==
  ASSUME Patched!Init
  PROVE  PatchInv
<1>1. ~Patched!Wrapped /\ method = <<>> /\ saved = <<>> /\ <<>> \in Seq(Wrappers)
  BY DEF Patched!Init, Patched!Wrapped
<1>2. PatchTypes
  BY <1>1, PatchNumbers DEF PatchTypes, Patched!Init, Patched!Modes, Patched!None
<1>3. OneWrapper
  <2>1. Patched!Layers(method) = {}
    BY <1>1 DEF Patched!Layers
  <2> QED
    BY <1>1, <2>1 DEF OneWrapper, Patched!Init
<1>4. FunctionFound
  <2>1. before[1] = method /\ before[2] = owner /\ before[3] = default /\ before[4] = 0
        /\ foreign = 0
    BY DEF Patched!Init
  <2> QED
    BY <1>1, <2>1 DEF FunctionFound
<1> QED
  BY <1>2, <1>3, <1>4 DEF PatchInv

LEMMA PatchStutters ==
  ASSUME PatchInv, UNCHANGED Patched!vars
  PROVE  PatchInv'
<1>1. PatchTypes'
  BY DEF PatchInv, PatchTypes, Patched!vars, Patched!Wrapped
<1>2. OneWrapper'
  BY DEF PatchInv, OneWrapper, Patched!vars, Patched!Wrapped, Patched!Layers
<1>3. FunctionFound'
  BY DEF PatchInv, FunctionFound, Patched!vars, Patched!Wrapped
<1> QED
  BY <1>1, <1>2, <1>3 DEF PatchInv

\* What the steps on this route can be.
LEMMA PatchRoute ==
  ASSUME PatchTypes
  PROVE  /\ ~Patched!EnableRegistry /\ ~Patched!Register /\ ~Patched!Undo /\ ~Patched!SetDefault
         /\ ~Patched!RestoreDefault /\ ~Patched!Unregister /\ ~Patched!Registered
         /\ \A n : ~Patched!ForeignName(n)
         /\ \A m : ~Patched!ForeignDefault(m)
  BY DEF PatchTypes, Patched!EnableRegistry, Patched!Register, Patched!Undo, Patched!SetDefault,
      Patched!RestoreDefault, Patched!Unregister, Patched!Registered, Patched!ForeignName,
      Patched!ForeignDefault

LEMMA PatchKeeps ==
  ASSUME PatchInv, Patched!Next
  PROVE  PatchInv'
<1>0. PatchTypes /\ OneWrapper /\ FunctionFound
  BY DEF PatchInv
<1>1. ASSUME Patched!Enable PROVE PatchInv'
  <2>1. UNCHANGED <<method, owner, default, original, installed, registration, config, sessions,
                    saved, foreign, before>>
    BY <1>1 DEF Patched!Enable, Patched!hook, Patched!patch, Patched!outside
  <2>2. PatchTypes'
    BY <1>0, <1>1, <2>1, PatchRoute
       DEF PatchTypes, Patched!Enable, Patched!Wrapped, Patched!Modes
  <2>3. OneWrapper'
    BY <1>0, <1>1, <2>1 DEF OneWrapper, Patched!Enable, Patched!Wrapped, Patched!Layers
  <2>4. FunctionFound'
    BY <1>0, <2>1 DEF FunctionFound, Patched!Wrapped
  <2> QED
    BY <2>2, <2>3, <2>4 DEF PatchInv
<1>2. ASSUME Patched!Disable PROVE PatchInv'
  <2>1. UNCHANGED <<method, owner, default, original, installed, registration, config, sessions,
                    request, saved, foreign, before>>
    BY <1>2 DEF Patched!Disable, Patched!hook, Patched!patch, Patched!outside
  <2>2. pc' = "idle" \/ (pc' = "unwrap" /\ Patched!Wrapped /\ method = installed)
    BY <1>0, <1>2, PatchRoute DEF Patched!Disable, Patched!StillInstalled
  <2>3. PatchTypes'
    BY <1>0, <2>1, <2>2 DEF PatchTypes, Patched!Wrapped
  <2>4. OneWrapper'
    BY <1>0, <2>1, <2>2 DEF OneWrapper, Patched!Wrapped, Patched!Layers
  <2>5. FunctionFound'
    BY <1>0, <2>1 DEF FunctionFound, Patched!Wrapped
  <2> QED
    BY <2>3, <2>4, <2>5 DEF PatchInv
<1>3. ASSUME Patched!Rewrap PROVE PatchInv'
  <2>1. /\ pc = "rewrap" /\ pc' = "idle"
        /\ UNCHANGED <<owner, default, registration, request, saved, foreign>>
    BY <1>3 DEF Patched!Rewrap, Patched!Idle, Patched!hook, Patched!outside
  <2>2. CASE Patched!Wrapped
    <3>1. /\ UNCHANGED <<method, original, installed, sessions, before>>
          /\ config' = config \/ config' = [config EXCEPT ![sessions] = request]
      BY <1>3, <2>2 DEF Patched!Rewrap, Patched!AlreadyWrapped, Patched!patch
    <3>2. config' \in [Patched!Ours -> [options : Configs \cup {Patched!None},
                                        default : Patched!Modes]]
      BY <1>0, <3>1 DEF PatchTypes
    <3>3. PatchTypes'
      BY <1>0, <2>1, <3>1, <3>2 DEF PatchTypes, Patched!Wrapped
    <3>4. OneWrapper'
      BY <1>0, <2>1, <3>1 DEF OneWrapper, Patched!Wrapped, Patched!Layers
    <3>5. FunctionFound'
      BY <1>0, <2>1, <3>1 DEF FunctionFound, Patched!Wrapped
    <3> QED
      BY <3>3, <3>4, <3>5 DEF PatchInv
  <2>3. CASE ~Patched!Wrapped
    <3>1. /\ sessions' = sessions + 1 /\ before' = <<method, owner, default, foreign>>
          /\ original' = method /\ installed' = Append(method, sessions + 1)
          /\ method' = Append(method, sessions + 1)
          /\ config' = [config EXCEPT ![sessions + 1] = request]
      BY <1>3, <2>3 DEF Patched!Rewrap, Patched!AlreadyWrapped, Patched!Inner
    <3>2. sessions \in Nat /\ sessions + 1 \in Patched!Ours /\ sessions + 1 \in 0..MaxInstalls
          /\ sessions + 1 \in Wrappers /\ sessions + 1 # 0
      BY <1>0, <2>1, <2>3, PatchNumbers DEF PatchTypes
    <3>3. /\ method' \in Seq(Wrappers) /\ original' # Patched!NoFunction
          /\ Patched!Layers(method') = Patched!Layers(method) \cup {Len(method) + 1}
      BY <1>0, <3>1, <3>2, OneMoreWrapper DEF PatchTypes
    <3>4. config' \in [Patched!Ours -> [options : Configs \cup {Patched!None},
                                        default : Patched!Modes]]
      BY <1>0, <3>1, <3>2 DEF PatchTypes
    <3>5. PatchTypes'
      BY <1>0, <2>1, <3>1, <3>2, <3>3, <3>4 DEF PatchTypes
    <3>6. Patched!Wrapped' /\ Patched!Layers(method) = {}
      BY <1>0, <2>3, <3>3 DEF Patched!Wrapped, OneWrapper
    <3>7. OneWrapper'
      <4>1. Patched!Layers(original)' = {} /\ Patched!Layers(method)' = {Len(method) + 1}
        BY <3>1, <3>3, <3>6 DEF Patched!Layers
      <4> QED
        BY <2>1, <3>1, <3>2, <3>6, <4>1 DEF OneWrapper
    <3>8. FunctionFound'
      <4>1. foreign \in Nat
        BY <1>0, PatchNumbers DEF PatchTypes
      <4>2. before'[1] = method /\ before'[2] = owner /\ before'[3] = default /\ before'[4] = foreign
        BY <3>1
      <4> QED
        BY <2>1, <3>1, <3>6, <4>1, <4>2 DEF FunctionFound
    <3> QED
      BY <3>5, <3>7, <3>8 DEF PatchInv
  <2> QED
    BY <2>2, <2>3
<1>4. ASSUME Patched!Unwrap PROVE PatchInv'
  <2>1. /\ Patched!Wrapped /\ method = installed /\ pc' = "idle"
        /\ method' = original /\ original' = Patched!NoFunction /\ config' = config
        /\ UNCHANGED <<owner, default, registration, sessions, request, saved, foreign, before>>
    BY <1>0, <1>4 DEF OneWrapper, Patched!Unwrap, Patched!Idle, Patched!KeptSession, Patched!hook,
        Patched!outside
  <2>2. ~Patched!Wrapped'
    BY <2>1 DEF Patched!Wrapped
  <2>3. PatchTypes'
    BY <1>0, <2>1, <2>2 DEF PatchTypes
  <2>4. Patched!Layers(method)' = {}
    BY <1>0, <2>1 DEF OneWrapper, Patched!Layers
  <2>5. OneWrapper'
    BY <2>1, <2>2, <2>4 DEF OneWrapper
  <2>6. FunctionFound'
    BY <1>0, <2>1, <2>2 DEF FunctionFound
  <2> QED
    BY <2>3, <2>5, <2>6 DEF PatchInv
<1>5. ASSUME Patched!ForeignWrap \/ Patched!ForeignRestore \/ Patched!ForeignSave
      PROVE  PatchInv'
  <2>1. /\ UNCHANGED <<owner, default, original, installed, registration, config, sessions, pc,
                       request, before>>
        /\ pc = "idle" /\ foreign < MaxForeign /\ foreign' = foreign + 1
    BY <1>5 DEF Patched!ForeignWrap, Patched!ForeignRestore, Patched!ForeignSave, Patched!MayAct,
        Patched!hook, Patched!patch
  <2>2. Patched!Foreign \in Wrappers /\ Patched!Foreign \notin Patched!Ours
    BY PatchNumbers
  <2>3. /\ method' \in Seq(Wrappers) /\ saved' \in Seq(Wrappers)
        /\ Patched!Layers(method') = Patched!Layers(method)
    <3>1. CASE method' = method /\ saved' = method
      BY <1>0, <3>1 DEF PatchTypes
    <3>2. CASE method' = Append(method, Patched!Foreign) /\ saved' = method
      BY <1>0, <2>2, <3>2, OneMoreWrapper DEF PatchTypes
    <3>3. CASE method = Append(saved, Patched!Foreign) /\ method' = saved /\ saved' = saved
      BY <1>0, <2>2, <3>3, OneMoreWrapper DEF PatchTypes
    <3> QED
      BY <1>5, <3>1, <3>2, <3>3
         DEF Patched!ForeignWrap, Patched!ForeignRestore, Patched!ForeignSave, Patched!patch
  <2>4. PatchTypes'
    BY <1>0, <2>1, <2>3, PatchNumbers DEF PatchTypes, Patched!Wrapped
  <2>5. OneWrapper'
    <3>1. Patched!Layers(method)' = Patched!Layers(method)
          /\ Patched!Layers(original)' = Patched!Layers(original)
      BY <2>1, <2>3 DEF Patched!Layers
    <3> QED
      BY <1>0, <2>1, <3>1 DEF OneWrapper, Patched!Wrapped
  <2>6. FunctionFound'
    <3>1. foreign \in Nat /\ before[4] \in Nat /\ before[4] <= foreign /\ before'[4] # foreign'
      BY <1>0, <2>1, PatchNumbers DEF PatchTypes, FunctionFound
    <3> QED
      BY <1>0, <2>1, <3>1 DEF FunctionFound, Patched!Wrapped
  <2> QED
    BY <2>4, <2>5, <2>6 DEF PatchInv
<1> QED
  BY <1>0, <1>1, <1>2, <1>3, <1>4, <1>5, PatchRoute DEF Patched!Next, Patched!Own, Patched!Other

LEMMA PatchWord ==
  ASSUME PatchInv
  PROVE  Patched!TypeOK /\ Patched!RestoresWhatItFound /\ Patched!TorchStaysTorch
<1>0. PatchTypes /\ OneWrapper /\ FunctionFound
  BY DEF PatchInv
<1>1. Patched!TypeOK
  <2>1. registration.session = 0
    BY <1>0 DEF PatchTypes, Patched!NoRegistration
  <2>2. owner \in [Hooks -> Patched!Ours \cup {Patched!Free, Patched!Foreign}]
    BY <1>0 DEF PatchTypes
  <2>3. 0 \in 0..sessions /\ "torch" \in Patched!Modes
    BY <1>0, PatchNumbers DEF PatchTypes, Patched!Modes
  <2> QED
    BY <1>0, <2>1, <2>2, <2>3, PatchNumbers DEF PatchTypes, OneWrapper, Patched!TypeOK
<1>2. Patched!RestoresWhatItFound
  BY <1>0 DEF FunctionFound, Patched!RestoresWhatItFound, Patched!Removed
<1>3. Patched!TorchStaysTorch
  <2> DEFINE l == Patched!Layers(method)
  <2>1. Patched!Cardinality(l) = Cardinality(l)
    BY Zenon DEF Patched!Cardinality, Cardinality
  <2>2. l = {} \/ \E i : l = {i}
    BY <1>0 DEF OneWrapper
  <2>3. Cardinality(l) \in {0, 1}
    BY <2>2, FS_EmptySet, FS_Singleton
  <2> QED
    BY <2>1, <2>3 DEF Patched!TorchStaysTorch
<1> QED
  BY <1>1, <1>2, <1>3

LEMMA PatchKeepsTheirs ==
  ASSUME PatchInv, [Patched!Next]_(Patched!vars)
  PROVE  Patched!ForeignKept /\ Patched!ForeignDefaultKept /\ Patched!OldSessionsKept
<1>0. PatchTypes /\ OneWrapper /\ FunctionFound
  BY DEF PatchInv
<1>1. ~Patched!Registered /\ \A n \in Hooks : owner[n] # Patched!Foreign
  <2>1. Patched!Free # Patched!Foreign
    BY PatchNumbers DEF Patched!Free
  <2> QED
    BY <1>0, <2>1, PatchRoute DEF PatchTypes
<1>2. ASSUME Patched!Own
      PROVE  Patched!Theirs(method) = Patched!Theirs(method')
  <2>1. ASSUME Patched!Enable \/ Patched!Disable
        PROVE  method' = method
    BY <2>1 DEF Patched!Enable, Patched!Disable, Patched!patch
  <2>2. ASSUME Patched!Rewrap
        PROVE  Patched!Theirs(method) = Patched!Theirs(method')
    <3>1. method' = method \/ (method' = Append(method, sessions + 1)
                               /\ ~Patched!Wrapped /\ pc = "rewrap")
      BY <2>2 DEF Patched!Rewrap, Patched!AlreadyWrapped, Patched!patch
    <3>2. ~Patched!Wrapped /\ pc = "rewrap"
            => sessions + 1 \in Wrappers /\ sessions + 1 \in Patched!Ours
      BY <1>0, PatchNumbers DEF PatchTypes
    <3> QED
      BY <1>0, <3>1, <3>2, OneMoreWrapper DEF PatchTypes
  <2>3. ASSUME Patched!Unwrap
        PROVE  Patched!Theirs(method) = Patched!Theirs(method')
    <3>1. method = Append(original, sessions) /\ method' = original
          /\ original \in Seq(Wrappers)
      BY <1>0, <2>3 DEF OneWrapper, PatchTypes, Patched!Unwrap
    <3>2. sessions \in Wrappers /\ sessions \in Patched!Ours
      BY <1>0, <2>3, PatchNumbers DEF OneWrapper, PatchTypes, Patched!Unwrap
    <3> QED
      BY <3>1, <3>2, OneMoreWrapper
  <2> QED
    BY <1>0, <1>2, <2>1, <2>2, <2>3, PatchRoute DEF Patched!Own
<1>3. Patched!ForeignKept
  BY <1>0, <1>1, <1>2 DEF PatchTypes, Patched!ForeignKept
<1>4. Patched!ForeignDefaultKept
  BY <1>1 DEF Patched!ForeignDefaultKept
<1>5. ASSUME NEW s \in 1..sessions, ~(Patched!Wrapped' /\ s = sessions')
      PROVE  config'[s] = config[s]
  <2>1. CASE config' = config
    BY <2>1
  <2>2. CASE Patched!Rewrap
    <3>1. \/ config' = config
          \/ /\ Patched!Wrapped /\ UNCHANGED <<original, sessions>>
             /\ config' = [config EXCEPT ![sessions] = request]
          \/ ~Patched!Wrapped /\ config' = [config EXCEPT ![sessions + 1] = request]
      BY <2>2 DEF Patched!Rewrap, Patched!AlreadyWrapped, Patched!patch
    <3>2. s \in Patched!Ours /\ s # sessions + 1
      BY <1>0, PatchNumbers DEF PatchTypes
    <3> QED
      BY <1>0, <1>5, <3>1, <3>2 DEF PatchTypes, Patched!Wrapped
  <2> QED
    BY <1>0, <2>1, <2>2, PatchRoute
       DEF Patched!Next, Patched!Own, Patched!Other, Patched!Enable, Patched!Disable,
           Patched!Unwrap, Patched!KeptSession, Patched!ForeignWrap, Patched!ForeignRestore,
           Patched!ForeignSave, Patched!vars
<1>6. Patched!OldSessionsKept
  BY <1>5 DEF Patched!OldSessionsKept
<1> QED
  BY <1>3, <1>4, <1>6

\* After any number of enables, failed ones too, and one disable, CayleyPy is what it was
\* if nobody else acted, and nothing of ours is left if somebody did; what another
\* integration or an earlier session holds is kept (dispatch.py:45-93, 280, 311-339).
THEOREM RoutesRestored == Spec => RestoresWhatItFound
<1> DEFINE Here == (part = "hook" => HookInv) /\ (part = "patch" => PatchInv)
           WordOfHook == part = "hook" =>
               /\ Hooked!TypeOK /\ Hooked!RestoresWhatItFound
               /\ Hooked!TorchStaysTorch /\ Hooked!NothingLeftBehind
           WordOfPatch == part = "patch" =>
               Patched!TypeOK /\ Patched!RestoresWhatItFound /\ Patched!TorchStaysTorch
           HookStep == part = "hook" => Hooked!ForeignKept /\ Hooked!ForeignDefaultKept
           PatchStep == part = "patch" =>
               /\ Patched!ForeignKept /\ Patched!ForeignDefaultKept
               /\ Patched!OldSessionsKept
<1>1. Init => Here
  BY HookStarts, PatchStarts DEF Init
<1>2. [Next]_allVars =>
        /\ part' = part
        /\ part = "hook" => [Hooked!Next]_(Hooked!vars)
        /\ part = "patch" => [Patched!Next]_(Patched!vars)
  <2>1. ASSUME Next
        PROVE  /\ part' = part
               /\ part = "hook" => Hooked!Next
               /\ part = "patch" => Patched!Next
    BY <2>1 DEF Next, CallStep, RouteStep, FetchSources, BuildRunner, FreezeModel, PublishResults,
        FitFrontier
  <2>2. ASSUME UNCHANGED allVars
        PROVE  part' = part /\ UNCHANGED Hooked!vars /\ UNCHANGED Patched!vars
    BY <2>2 DEF allVars, dispatchVars, Hooked!vars, Patched!vars
  <2> QED
    BY <2>1, <2>2
<1>3. Here /\ [Next]_allVars => Here'
  BY <1>2, HookKeeps, HookStutters, PatchKeeps, PatchStutters
<1>4. Here => WordOfHook /\ WordOfPatch
  BY HookWord, PatchWord
<1>5. Here /\ [Next]_allVars => HookStep /\ PatchStep
  BY <1>2, HookKeepsTheirs, PatchKeepsTheirs
<1>6. Spec => [](WordOfHook /\ WordOfPatch) /\ [][HookStep]_allVars /\ [][PatchStep]_allVars
  <2> HIDE DEF Here, WordOfHook, WordOfPatch, HookStep, PatchStep
  <2> QED
    BY <1>1, <1>3, <1>4, <1>5, PTL DEF Spec
<1> QED
  BY <1>6, PTL DEF RestoresWhatItFound

----------------------------------------------------------------------------
(* The frontier and the batch that fit into memory.                         *)

FrontierTypes ==
    /\ Fitting!TypeOK
    /\ rows \in [Fitting!Batches -> 0..MaxSpeed] /\ tuned \in Fitting!Candidates
    /\ cal \in [batch : Fitting!Candidates, beam : 0..Ceiling]
    /\ upper \in 0..Ceiling

\* The batch in force is the calibrated one, and what has been found was found with
\* it; a call goes the way of the frontier it asked for.
FoundTogether ==
    /\ cal.batch = inForce
    /\ pc = "offer" => ~Fitting!Maximum /\ cal.beam = requested
    /\ pc \in {"discover", "shards", "bisect", "settle", "tune", "compare", "measure"} =>
         Fitting!Maximum
    /\ pc \in {"shards", "bisect", "settle", "tune"} /\ best.beam > 0 => best.batch = inForce
    /\ pc \in {"settle", "tune"} => best.beam > 0
    /\ Fitting!FittedTogether

\* A half is measured only beside a full step at the whole.
MeasuredAtWidth ==
    /\ pc = "measure" => <<best.beam, inForce>> \in verified /\ round < MaxRounds
    /\ Fitting!LaunchedAsVerified

\* The tuned batch is offered first; a batch that follows was preceded by all
\* that are faster.
FasterOnesTried ==
    /\ tried # {} => tuned \in tried
    /\ \A b \in tried \ {tuned}, c \in Fitting!Batches : rows[c] > rows[b] => c \in tried
OfferedInOrder ==
    pc \in {"offer", "step", "launch"} /\ ~Fitting!Maximum =>
        FasterOnesTried /\ (pc # "offer" => inForce \in tried)

\* The memory for a frontier is finite.
LimitsFit ==
    \A s \in Fitting!Stages, n \in Fitting!ShardCounts : limit[s][n] * n <= Ceiling

\* What was found is a frontier that both stages admit, of one shard count.
Genuine ==
    best.beam > 0 =>
        \E n \in Fitting!ShardCounts, k \in 0..Ceiling :
            best.beam = k * n /\ k <= limit["memory"][n] /\ k <= limit["working"][n]

\* No shard count that was searched admits more.
Leading(N) == \A n \in N : Fitting!Width(n) <= best.beam

\* Between low, which is admitted, and high, which is not.
Halving ==
    /\ shards \in Fitting!ShardCounts
    /\ low <= limit[stage][shards]
    /\ high = upper + 1 \/ limit[stage][shards] < high
    /\ stage = "memory" => limit["memory"][shards] <= upper
    /\ stage = "working" =>
         upper <= limit["memory"][shards] /\ (~spent => upper = limit["memory"][shards])

Searched ==
    /\ LimitsFit
    /\ pc \in {"shards", "bisect", "settle"} => Genuine
    /\ pc \in {"shards", "bisect"} /\ ~spent => Leading(1..shards - 1)
    /\ pc = "settle" /\ ~spent => Leading(Fitting!ShardCounts)
    /\ pc = "shards" => stage = "memory"
    /\ pc = "bisect" => Halving

FrontierInv ==
    /\ FrontierTypes /\ FoundTogether /\ MeasuredAtWidth /\ OfferedInOrder /\ Searched
    /\ Fitting!OneSession

LEMMA FrontierNumbers ==
  /\ MaxShards \in Nat \ {0} /\ Ceiling \in Nat \ {0} /\ Measured \in Nat \ {0}
  /\ MaxRounds \in Nat \ {0} /\ Saturated \in Nat \ {0} /\ MaxSpeed \in Nat \ {0}
  /\ Wanted \subseteq 0..Ceiling
BY FrontierAssumption DEF Fitting!PlanningAssumption

LEMMA SmallerNumber ==
  ASSUME NEW a \in Int, NEW b \in Int
  PROVE  Fitting!Min({a, b}) = IF a <= b THEN a ELSE b
<1>1. \E x \in {a, b} : \A y \in {a, b} : x <= y
  OBVIOUS
<1> QED
  BY <1>1 DEF Fitting!Min

\* Of the measured batches one is the fastest.
LEMMA FastestOf ==
  ASSUME rows \in [Fitting!Batches -> 0..MaxSpeed], NEW S \in SUBSET Fitting!Batches, S # {}
  PROVE  Fitting!Fastest(S) \in S /\ \A c \in S : rows[Fitting!Fastest(S)] >= rows[c]
<1>1. \A b \in S : rows[b] \in Nat /\ MaxSpeed - rows[b] \in Nat
  BY FrontierNumbers
<1>2. \E b \in S : \A c \in S : rows[b] >= rows[c]
  <2> DEFINE Behind == {MaxSpeed - rows[b] : b \in S}
  <2>1. Behind \in SUBSET Nat /\ Behind # {}
    BY <1>1
  <2>2. PICK m \in Behind : \A n \in Behind : m <= n
    <3> HIDE DEF Behind
    <3> QED
      BY <2>1, LeastNatural
  <2>3. PICK b \in S : m = MaxSpeed - rows[b]
    OBVIOUS
  <2>4. \A c \in S : MaxSpeed - rows[b] <= MaxSpeed - rows[c]
    BY <2>2, <2>3
  <2> QED
    BY <1>1, <2>3, <2>4, FrontierNumbers
<1> QED
  BY <1>2 DEF Fitting!Fastest

\* The limits of both stages for one shard count.
LEMMA Limits ==
  ASSUME FrontierTypes, NEW n \in Fitting!ShardCounts, NEW s \in Fitting!Stages
  PROVE  /\ n \in Nat \ {0} /\ limit[s][n] \in 0..Ceiling
         /\ "memory" \in Fitting!Stages /\ "working" \in Fitting!Stages
<1>1. n \in Nat \ {0}
  BY FrontierNumbers DEF Fitting!ShardCounts
<1>2. limit \in [Fitting!Stages -> [Fitting!ShardCounts -> 0..Ceiling]]
  BY DEF FrontierTypes, Fitting!TypeOK
<1>3. limit[s][n] \in 0..Ceiling
  <2>1. limit[s] \in [Fitting!ShardCounts -> 0..Ceiling]
    BY <1>2
  <2> QED
    BY <2>1
<1>4. "memory" \in Fitting!Stages /\ "working" \in Fitting!Stages
  BY DEF Fitting!Stages
<1> QED
  BY <1>1, <1>3, <1>4

LEMMA WidthOf ==
  ASSUME FrontierTypes, NEW n \in Fitting!ShardCounts
  PROVE  /\ Fitting!Width(n) \in Nat
         /\ \A k \in Nat : k <= limit["memory"][n] /\ k <= limit["working"][n]
                             => k * n <= Fitting!Width(n)
         /\ \A k \in Nat : limit["memory"][n] <= k \/ limit["working"][n] <= k
                             => Fitting!Width(n) <= k * n
<1>1. /\ n \in Nat \ {0} /\ limit["memory"][n] \in Nat /\ limit["working"][n] \in Nat
  BY Limits, FrontierNumbers DEF Fitting!Stages
<1>2. PICK m \in Nat : /\ m = IF limit["memory"][n] <= limit["working"][n] THEN limit["memory"][n]
                              ELSE limit["working"][n]
                       /\ Fitting!Width(n) = m * n
  BY <1>1, SmallerNumber DEF Fitting!Width
<1>3. \A k \in Nat : (k <= m => k * n <= m * n) /\ (m <= k => m * n <= k * n) /\ m * n \in Nat
  BY <1>1, Multiples
<1> QED
  BY <1>1, <1>2, <1>3

LEMMA FrontierStarts == Fitting!Init => FrontierInv
<1> SUFFICES ASSUME Fitting!Init PROVE FrontierInv
  OBVIOUS
<1>1. /\ rows \in [Fitting!Batches -> 0..MaxSpeed] /\ tuned \in Fitting!Candidates
      /\ requested \in 0..Ceiling
  BY FrontierNumbers DEF Fitting!Init, Fitting!Candidates
<1>2. cal.batch \in Fitting!Candidates /\ cal.beam = requested /\ inForce = cal.batch
  <2>1. Fitting!Fastest(Fitting!Candidates) \in Fitting!Candidates
    BY <1>1, FastestOf DEF Fitting!Candidates
  <2> QED
    BY <1>1, <2>1 DEF Fitting!Init, Fitting!Maximum
<1>3. cal \in [batch : Fitting!Candidates, beam : 0..Ceiling]
  BY <1>1, <1>2 DEF Fitting!Init
<1>4. limit \in [Fitting!Stages -> [Fitting!ShardCounts -> 0..Ceiling]]
  BY FrontierNumbers DEF Fitting!Init
<1>5. FrontierTypes
  <2>1. inForce \in Fitting!Batches
    BY <1>2 DEF Fitting!Candidates
  <2>2. /\ rows \in [Fitting!Batches -> Nat] /\ tuned \in Fitting!Batches /\ requested \in Wanted
    BY <1>1 DEF Fitting!Init, Fitting!Candidates
  <2>3. /\ pc \in {"discover", "offer"} /\ round = 0 /\ shards = 1 /\ stage = "memory"
        /\ low = 0 /\ high = 0 /\ upper = 0 /\ spent = FALSE /\ complete = TRUE /\ tried = {}
        /\ best.beam = 0 /\ best.batch = Fitting!NoBatch
        /\ best = [beam |-> best.beam, batch |-> best.batch] /\ planner = Fitting!NoBatch
    BY DEF Fitting!Init, Fitting!NoCapacity
  <2>4. best \in [beam : 0..Ceiling, batch : Fitting!Batches \cup {Fitting!NoBatch}]
    BY <2>3, FrontierNumbers
  <2>5. {spent, complete} \subseteq BOOLEAN /\ tried \subseteq Fitting!Batches
    BY <2>3
  <2>6. /\ round \in 0..MaxRounds /\ shards \in 1..MaxShards + 1 /\ low \in 0..Ceiling
        /\ high \in 0..Ceiling + 1 /\ upper \in 0..Ceiling
    BY <2>3, FrontierNumbers
  <2> QED
    BY <1>1, <1>3, <1>4, <2>1, <2>2, <2>3, <2>4, <2>5, <2>6
    DEF FrontierTypes, Fitting!TypeOK, Fitting!Stages
<1>6. FoundTogether /\ MeasuredAtWidth
  BY <1>2 DEF Fitting!Init, FoundTogether, MeasuredAtWidth, Fitting!FittedTogether,
    Fitting!LaunchedAsVerified, Fitting!Launched, Fitting!Maximum
<1>7. OfferedInOrder /\ Fitting!OneSession
  BY DEF Fitting!Init, OfferedInOrder, FasterOnesTried, Fitting!OneSession
<1>8. Searched
  <2>1. LimitsFit
    BY FrontierNumbers DEF Fitting!Init, LimitsFit, Fitting!ShardCounts
  <2> QED
    BY <2>1 DEF Fitting!Init, Searched
<1> QED
  BY <1>5, <1>6, <1>7, <1>8 DEF FrontierInv

LEMMA FrontierStutters == FrontierInv /\ UNCHANGED Fitting!vars => FrontierInv'
<1> SUFFICES ASSUME FrontierInv, UNCHANGED Fitting!vars PROVE FrontierInv'
  OBVIOUS
<1> USE DEF FrontierInv, Fitting!vars
<1>1. FrontierTypes' /\ Fitting!OneSession'
  BY DEF FrontierTypes, Fitting!TypeOK, Fitting!Candidates, Fitting!OneSession
<1>2. FoundTogether' /\ MeasuredAtWidth'
  BY DEF FoundTogether, MeasuredAtWidth, Fitting!FittedTogether, Fitting!LaunchedAsVerified,
    Fitting!Launched, Fitting!Maximum
<1>3. OfferedInOrder'
  BY DEF OfferedInOrder, FasterOnesTried, Fitting!Maximum
<1>4. Searched'
  BY DEF Searched, LimitsFit, Genuine, Leading, Halving, Fitting!Width
<1> QED
  BY <1>1, <1>2, <1>3, <1>4

\* Outside of the search only the memory matters.
LEMMA SearchIsOver ==
  ASSUME Searched, limit' = limit, pc' \notin {"shards", "bisect", "settle"}
  PROVE  Searched'
BY DEF Searched, LimitsFit

\* A call for the maximum is offered no batches.
LEMMA NothingOffered ==
  ASSUME Fitting!Maximum, requested' = requested
  PROVE  OfferedInOrder' /\ Fitting!Maximum'
BY DEF OfferedInOrder, Fitting!Maximum

LEMMA OfferKeeps ==
  ASSUME FrontierInv, Fitting!Offer
  PROVE  FrontierInv'
<1>1. /\ pc = "offer" /\ ~Fitting!Maximum /\ cal.beam = requested /\ requested \in 1..Ceiling
      /\ requested' = requested /\ rows' = rows /\ tuned' = tuned /\ limit' = limit
      /\ pc' \in {"offer", "step", "failed"}
  <2>1. requested \in Wanted /\ Wanted \subseteq 0..Ceiling
    BY FrontierNumbers DEF FrontierInv, FrontierTypes, Fitting!TypeOK
  <2> QED
    BY <2>1, FrontierNumbers DEF FrontierInv, FoundTogether, Fitting!Offer, Fitting!Fail, Fitting!Admitted,
        Fitting!given, Fitting!bisection, Fitting!Maximum
<1>2. ~Fitting!Maximum' /\ Fitting!Candidates' = Fitting!Candidates
  BY <1>1 DEF Fitting!Maximum, Fitting!Candidates
<1>3. Searched'
  BY <1>1, SearchIsOver DEF FrontierInv
<1>4. MeasuredAtWidth'
  BY <1>1, <1>2 DEF MeasuredAtWidth, Fitting!LaunchedAsVerified, Fitting!Launched
<1>5. CASE Fitting!Candidates \ tried = {}
  <2>1. pc' = "failed" /\ UNCHANGED <<tried, planner, inForce, cal, best>>
    BY <1>5 DEF Fitting!Offer, Fitting!Fail
  <2>2. FrontierTypes' /\ FoundTogether' /\ OfferedInOrder' /\ Fitting!OneSession'
    BY <1>1, <1>2, <2>1 DEF Fitting!Offer, FrontierInv, FrontierTypes, Fitting!TypeOK,
      FoundTogether, Fitting!FittedTogether, OfferedInOrder, Fitting!OneSession,
      Fitting!given, Fitting!bisection, Fitting!evidence
  <2> QED
    BY <1>3, <1>4, <2>2 DEF FrontierInv
<1>6. CASE Fitting!Candidates \ tried # {}
  <2> DEFINE b == Fitting!NextOffer
  <2>1. b \in Fitting!Candidates \ tried /\ b \in Fitting!Batches
    BY <1>6, FastestOf DEF Fitting!NextOffer, FrontierInv, FrontierTypes, Fitting!Candidates
  <2>2. b # tuned => \A c \in Fitting!Candidates \ tried : rows[b] >= rows[c]
    <3>1. Fitting!Candidates \ tried \subseteq Fitting!Batches
      BY DEF Fitting!Candidates
    <3> QED
      BY <1>6, <3>1, FastestOf DEF Fitting!NextOffer, FrontierInv, FrontierTypes
  <2>3. b # tuned => tuned \in tried
    BY DEF Fitting!NextOffer, FrontierInv, FrontierTypes
  <2>4. tried' = tried \cup {b}
    BY <1>6 DEF Fitting!Offer
  <2>5. FasterOnesTried'
    <3>1. FasterOnesTried
      BY <1>1 DEF FrontierInv, OfferedInOrder
    <3>2. ASSUME NEW c \in Fitting!Batches, b # tuned, rows[c] > rows[b]
          PROVE  c \in tried
      <4>1. rows[b] \in Nat /\ rows[c] \in Nat
        BY <2>1, FrontierNumbers DEF FrontierInv, FrontierTypes
      <4>2. c \in Fitting!Candidates
        BY <3>2, <4>1 DEF Fitting!Candidates
      <4> QED
        BY <2>2, <3>2, <4>1, <4>2
    <3>3. Fitting!Batches' = Fitting!Batches
      BY DEF Fitting!Batches
    <3> HIDE DEF b
    <3> QED
      BY <1>1, <2>3, <2>4, <3>1, <3>2, <3>3 DEF FasterOnesTried
  <2>6. CASE Fitting!Admitted(b)
    <3> HIDE DEF b
    <3>1. /\ planner' = b /\ inForce' = b /\ cal' = [cal EXCEPT !.batch = b]
          /\ best' = [beam |-> requested, batch |-> b] /\ pc' = "step"
      BY <2>6 DEF Fitting!Admitted
    <3>2. /\ cal' \in [batch : Fitting!Candidates, beam : 0..Ceiling] /\ cal'.batch = b
          /\ cal'.beam = cal.beam
      BY <2>1, <3>1 DEF FrontierInv, FrontierTypes
    <3>3. FrontierTypes'
      BY <1>1, <1>2, <2>1, <2>4, <3>1, <3>2 DEF Fitting!Offer, FrontierInv, FrontierTypes, Fitting!TypeOK,
        Fitting!given, Fitting!bisection, Fitting!evidence, Fitting!Batches
    <3>4. FoundTogether' /\ OfferedInOrder' /\ Fitting!OneSession'
      BY <1>1, <1>2, <2>4, <2>5, <3>1, <3>2 DEF FoundTogether, Fitting!FittedTogether, OfferedInOrder,
        Fitting!OneSession
    <3> QED
      BY <1>3, <1>4, <3>3, <3>4 DEF FrontierInv
  <2>7. CASE ~Fitting!Admitted(b)
    <3>1. planner' = Fitting!NoBatch /\ UNCHANGED <<inForce, cal, best>> /\ pc' \in {"offer", "failed"}
      BY <1>6, <2>7 DEF Fitting!Offer, Fitting!CloseSession
    <3> HIDE DEF b
    <3>2. FrontierTypes'
      BY <1>1, <1>2, <2>1, <2>4, <3>1 DEF Fitting!Offer, FrontierInv, FrontierTypes, Fitting!TypeOK,
        Fitting!given, Fitting!bisection, Fitting!evidence, Fitting!Batches
    <3>3. FoundTogether' /\ OfferedInOrder' /\ Fitting!OneSession'
      BY <1>1, <1>2, <2>5, <3>1 DEF FrontierInv, FoundTogether, Fitting!FittedTogether, OfferedInOrder,
        Fitting!OneSession
    <3> QED
      BY <1>3, <1>4, <3>2, <3>3 DEF FrontierInv
  <2> QED
    BY <2>6, <2>7
<1> QED
  BY <1>5, <1>6

LEMMA DiscoverKeeps ==
  ASSUME FrontierInv, Fitting!Discover
  PROVE  FrontierInv'
<1>1. /\ Fitting!Maximum /\ pc = "discover" /\ pc' = "shards" /\ requested' = requested
      /\ rows' = rows /\ tuned' = tuned /\ UNCHANGED <<round, inForce, cal, low, high, upper, tried,
                                                       planner, verified, scaled>>
      /\ best'.beam = 0 /\ best'.batch = Fitting!NoBatch
      /\ best' = [beam |-> 0, batch |-> Fitting!NoBatch]
      /\ shards' = 1 /\ stage' = "memory" /\ spent' = FALSE /\ complete' = TRUE
  BY DEF FrontierInv, FoundTogether, Fitting!Discover, Fitting!given, Fitting!evidence,
    Fitting!NoCapacity
<1>2. /\ limit' \in [Fitting!Stages -> [Fitting!ShardCounts -> 0..Ceiling]]
      /\ LimitsFit'
  <2>1. limit' \in [Fitting!Stages -> {f \in [Fitting!ShardCounts -> 0..Ceiling] :
                       \A n \in Fitting!ShardCounts : f[n] * n <= Ceiling}]
    BY DEF Fitting!Discover
  <2>2. Fitting!ShardCounts' = Fitting!ShardCounts /\ Fitting!Stages' = Fitting!Stages
    BY DEF Fitting!ShardCounts, Fitting!Stages
  <2>3. limit' \in [Fitting!Stages -> [Fitting!ShardCounts -> 0..Ceiling]]
    BY <2>1
  <2>4. ASSUME NEW s \in Fitting!Stages, NEW n \in Fitting!ShardCounts
        PROVE  limit'[s][n] * n <= Ceiling
    BY <2>1
  <2> QED
    BY <2>2, <2>3, <2>4 DEF LimitsFit
<1>3. FrontierTypes'
  <2>1. {spent', complete'} \subseteq BOOLEAN
    BY <1>1
  <2>2. best' \in [beam : 0..Ceiling, batch : Fitting!Batches \cup {Fitting!NoBatch}]
    BY <1>1, FrontierNumbers
  <2>3. shards' \in 1..MaxShards + 1 /\ stage' \in Fitting!Stages
    BY <1>1, FrontierNumbers DEF Fitting!Stages
  <2>4. Fitting!Candidates' = Fitting!Candidates
    BY <1>1 DEF Fitting!Candidates
  <2> QED
    BY <1>1, <1>2, <2>1, <2>2, <2>3, <2>4 DEF FrontierInv, FrontierTypes, Fitting!TypeOK,
      Fitting!Stages, Fitting!ShardCounts, Fitting!Batches, Fitting!NoBatch
<1>4. FoundTogether' /\ MeasuredAtWidth' /\ Fitting!OneSession'
  BY <1>1, NothingOffered DEF FrontierInv, FoundTogether, MeasuredAtWidth, Fitting!FittedTogether,
    Fitting!LaunchedAsVerified, Fitting!Launched, Fitting!OneSession
<1>5. Searched'
  <2>1. (1..shards - 1)' = {}
    BY <1>1
  <2> QED
    BY <1>1, <1>2, <2>1 DEF Searched, Genuine, Leading
<1> QED
  BY <1>1, <1>3, <1>4, <1>5, NothingOffered DEF FrontierInv

LEMMA ElapseKeeps ==
  ASSUME FrontierInv, Fitting!Elapse
  PROVE  FrontierInv'
<1>1. /\ Fitting!Maximum /\ pc \in {"shards", "bisect"} /\ spent' = TRUE
      /\ UNCHANGED <<pc, requested, rows, tuned, round, inForce, cal, limit, shards, stage, low, high,
                     upper, complete, best, tried, planner, verified, scaled>>
  BY DEF FrontierInv, FoundTogether, Fitting!Elapse, Fitting!given, Fitting!evidence
<1>2. FrontierTypes'
  <2>1. {spent', complete'} \subseteq BOOLEAN
    BY <1>1 DEF FrontierInv, FrontierTypes, Fitting!TypeOK
  <2> QED
    BY <1>1, <2>1 DEF FrontierInv, FrontierTypes, Fitting!TypeOK, Fitting!Candidates
<1>3. FoundTogether' /\ MeasuredAtWidth' /\ Fitting!OneSession'
  BY <1>1, NothingOffered DEF FrontierInv, FoundTogether, MeasuredAtWidth, Fitting!FittedTogether,
    Fitting!LaunchedAsVerified, Fitting!Launched, Fitting!OneSession
<1>4. Searched'
  BY <1>1 DEF FrontierInv, Searched, LimitsFit, Genuine, Halving
<1> QED
  BY <1>1, <1>2, <1>3, <1>4, NothingOffered DEF FrontierInv

\* What a step of the search leaves alone.
SearchStep ==
    /\ pc \in {"shards", "bisect"} /\ pc' \in {"shards", "bisect", "settle", "failed"}
    /\ UNCHANGED <<requested, rows, tuned, round, inForce, cal, limit, spent, tried, planner,
                   verified, scaled>>

LEMMA SearchStepKeeps ==
  ASSUME FrontierInv, SearchStep, best'.beam > 0 => best'.batch = inForce,
         pc' = "settle" => best'.beam > 0
  PROVE  FoundTogether' /\ MeasuredAtWidth' /\ OfferedInOrder' /\ Fitting!OneSession'
<1>1. Fitting!Maximum
  BY DEF FrontierInv, FoundTogether, SearchStep
<1> QED
  BY <1>1, NothingOffered DEF FrontierInv, FoundTogether, MeasuredAtWidth, Fitting!FittedTogether,
    Fitting!LaunchedAsVerified, Fitting!Launched, Fitting!OneSession, SearchStep

LEMMA SearchStepTyped ==
  ASSUME FrontierTypes, SearchStep,
         shards' \in 1..MaxShards + 1, stage' \in Fitting!Stages, low' \in 0..Ceiling,
         high' \in 0..Ceiling + 1, upper' \in 0..Ceiling, complete' \in BOOLEAN,
         best' \in [beam : 0..Ceiling, batch : Fitting!Batches \cup {Fitting!NoBatch}],
         pc' = "bisect" => low' < high' /\ high' <= upper' + 1
  PROVE  FrontierTypes'
<1>1. {spent', complete'} \subseteq BOOLEAN
  BY DEF FrontierTypes, Fitting!TypeOK, SearchStep
<1>2. Fitting!Candidates' = Fitting!Candidates
  BY DEF Fitting!Candidates, SearchStep
<1>3. pc' \in {"offer", "discover", "shards", "bisect", "settle", "tune", "step", "compare",
               "measure", "launch", "failed"}
  BY DEF SearchStep
<1> QED
  BY <1>1, <1>2, <1>3 DEF FrontierTypes, Fitting!TypeOK, SearchStep, Fitting!Stages,
      Fitting!ShardCounts, Fitting!Batches, Fitting!NoBatch

LEMMA ProbeKeeps ==
  ASSUME FrontierInv, Fitting!Probe
  PROVE  FrontierInv'
<1>1. SearchStep /\ pc = "bisect" /\ pc' = "bisect" /\ UNCHANGED <<shards, stage, upper, complete, best>>
  BY DEF Fitting!Probe, SearchStep, Fitting!given, Fitting!evidence
<1>2. /\ low \in 0..Ceiling /\ high \in 0..Ceiling + 1 /\ upper \in 0..Ceiling /\ low < high
      /\ high <= upper + 1 /\ shards \in 1..MaxShards + 1 /\ stage \in Fitting!Stages
      /\ complete \in BOOLEAN
      /\ best \in [beam : 0..Ceiling, batch : Fitting!Batches \cup {Fitting!NoBatch}]
  BY <1>1 DEF FrontierInv, FrontierTypes, Fitting!TypeOK
<1>3. Halving /\ high - low > 1
  BY <1>1 DEF FrontierInv, Searched, Fitting!Probe
<1>4. /\ Fitting!Middle \in 0..Ceiling /\ low < Fitting!Middle /\ Fitting!Middle < high
  <2>1. Ceiling \in Nat
    BY FrontierNumbers
  <2>2. /\ low + 2 <= high /\ low + high \in Nat
    BY <1>2, <1>3, <2>1
  <2>3. /\ (low + high) \div 2 \in Nat /\ 2 * ((low + high) \div 2) <= low + high
        /\ low + high < 2 * ((low + high) \div 2) + 2
    BY <2>2, Quotient
  <2> QED
    BY <1>2, <2>1, <2>2, <2>3 DEF Fitting!Middle
<1>5. limit[stage][shards] \in 0..Ceiling
  BY <1>2, <1>3, Limits DEF FrontierInv, Halving
<1>6. \/ low' = Fitting!Middle /\ high' = high /\ Fitting!Middle <= limit[stage][shards]
      \/ high' = Fitting!Middle /\ low' = low /\ limit[stage][shards] < Fitting!Middle
  BY <1>4, <1>5 DEF Fitting!Probe, Fitting!Admits
<1>7. FrontierTypes'
  <2>1. low' \in 0..Ceiling /\ high' \in 0..Ceiling + 1 /\ low' < high' /\ high' <= upper' + 1
    BY <1>1, <1>2, <1>4, <1>6, FrontierNumbers
  <2> QED
    BY <1>1, <1>2, <2>1, SearchStepTyped DEF FrontierInv
<1>8. Searched'
  <2>1. Halving'
    BY <1>1, <1>3, <1>6 DEF Halving, SearchStep, Fitting!ShardCounts
  <2> QED
    BY <1>1, <2>1 DEF FrontierInv, Searched, SearchStep, LimitsFit, Genuine, Leading, Fitting!Width
<1> QED
  BY <1>1, <1>7, <1>8, SearchStepKeeps DEF FrontierInv, FoundTogether, SearchStep

\* Within the memory a shard count admits no more than its part of it.
LEMMA LimitBelow ==
  ASSUME FrontierTypes, LimitsFit, NEW s \in Fitting!Stages, NEW n \in Fitting!ShardCounts
  PROVE  /\ Ceiling \div n \in 0..Ceiling
         /\ limit[s][n] <= Ceiling \div n
         /\ n > Ceiling => limit[s][n] = 0
         /\ n <= Ceiling => Ceiling \div n > 0
<1>1. n \in Nat \ {0} /\ limit[s][n] \in Nat /\ Ceiling \in Nat
  BY Limits, FrontierNumbers
<1> DEFINE q == Ceiling \div n
           l == limit[s][n]
<1>2. q \in Nat /\ n * q <= Ceiling /\ Ceiling < n * q + n
  BY <1>1, Quotient
<1>3. l * n <= Ceiling
  BY DEF LimitsFit
<1> HIDE DEF q, l
<1>4. l \in Nat
  BY <1>1 DEF l
<1>5. /\ n * (q + 1) = n * q + n /\ n * q \in Nat /\ (q + 1 <= l => (q + 1) * n <= n * l)
      /\ l * n = n * l /\ (q + 1) * n = n * (q + 1)
  BY <1>1, <1>2, <1>4, Multiples
<1>6. l <= q
  BY <1>1, <1>2, <1>3, <1>4, <1>5
<1>7. /\ 1 <= l => 1 * n <= n * l
      /\ 1 <= q => 1 * q <= n * q
  <2>1. (1 <= l => 1 * n <= n * l) /\ (1 <= n => 1 * q <= q * n) /\ q * n = n * q
    BY <1>1, <1>2, <1>4, Multiples, Z3
  <2> QED
    BY <1>1, <2>1
<1>8. q <= Ceiling
  <2>1. q = 0 \/ 1 <= q
    BY <1>2
  <2> QED
    BY <1>1, <1>2, <1>7, <2>1
<1>9. (n > Ceiling => l = 0) /\ (n <= Ceiling => q > 0)
  <2>1. l = 0 \/ 1 <= l
    BY <1>4
  <2>2. n > Ceiling => l = 0
    BY <1>1, <1>3, <1>4, <1>5, <1>7, <2>1
  <2>3. q = 0 => n * q = 0
    BY <1>1
  <2> QED
    BY <1>1, <1>2, <2>2, <2>3
<1> QED
  BY <1>1, <1>2, <1>6, <1>8, <1>9 DEF q, l

\* When a shard count is done, so are all before the next one.
LEMMA OneMoreSearched ==
  ASSUME NEW n \in Nat \ {0}
  PROVE  1..(n + 1) - 1 = (1..n - 1) \cup {n}
OBVIOUS

LEMMA NextProfileKeeps ==
  ASSUME FrontierInv, Fitting!NextProfile
  PROVE  FrontierInv'
<1>1. pc = "shards" /\ SearchStep /\ best' = best
  BY DEF Fitting!NextProfile, SearchStep, Fitting!given, Fitting!evidence, Fitting!Fail,
    Fitting!NextShards, Fitting!StartBisection
<1>2. /\ low \in 0..Ceiling /\ high \in 0..Ceiling + 1 /\ upper \in 0..Ceiling
      /\ shards \in 1..MaxShards + 1 /\ stage \in Fitting!Stages /\ complete \in BOOLEAN
      /\ best \in [beam : 0..Ceiling, batch : Fitting!Batches \cup {Fitting!NoBatch}]
      /\ spent \in BOOLEAN /\ MaxShards \in Nat /\ Ceiling \in Nat
  BY FrontierNumbers DEF FrontierInv, FrontierTypes, Fitting!TypeOK
<1>3. /\ LimitsFit /\ Genuine /\ (~spent => Leading(1..shards - 1))
      /\ (best.beam > 0 => best.batch = inForce)
  BY <1>1 DEF FrontierInv, Searched, FoundTogether
<1>4. LimitsFit' /\ Genuine'
  BY <1>1, <1>3 DEF SearchStep, LimitsFit, Genuine
<1>5. ASSUME NEW N, Leading(N) PROVE Leading(N)'
  BY <1>1, <1>5 DEF SearchStep, Leading, Fitting!Width
<1>6. CASE shards > MaxShards \/ spent
  <2>1. /\ UNCHANGED <<shards, stage, low, high, upper>>
        /\ complete' = (complete /\ shards > MaxShards)
        /\ pc' = IF best.beam = 0 THEN "failed" ELSE "settle"
    BY <1>6 DEF Fitting!NextProfile, Fitting!Fail
  <2>2. complete' \in BOOLEAN
    BY <2>1
  <2>3. FrontierTypes'
    BY <1>1, <1>2, <2>1, <2>2, SearchStepTyped DEF FrontierInv
  <2>4. pc' = "settle" => best'.beam > 0
    BY <1>1, <1>2, <2>1
  <2>5. ~spent => Leading(Fitting!ShardCounts)'
    <3>1. ~spent => 1..shards - 1 = Fitting!ShardCounts
      BY <1>2, <1>6 DEF Fitting!ShardCounts
    <3> QED
      BY <1>3, <1>5, <3>1 DEF Fitting!ShardCounts
  <2>6. Searched'
    BY <1>1, <1>4, <2>1, <2>5 DEF Searched, SearchStep
  <2> QED
    BY <1>1, <1>3, <2>3, <2>4, <2>6, SearchStepKeeps DEF FrontierInv
<1>7. CASE ~(shards > MaxShards \/ spent) /\ shards > Ceiling
  <2>1. /\ shards' = shards + 1 /\ stage' = "memory" /\ pc' = "shards"
        /\ UNCHANGED <<low, high, upper, complete>>
    BY <1>7 DEF Fitting!NextProfile, Fitting!NextShards
  <2>2. shards \in Fitting!ShardCounts
    BY <1>2, <1>7 DEF Fitting!ShardCounts
  <2>3. FrontierTypes'
    <3>1. shards' \in 1..MaxShards + 1 /\ stage' \in Fitting!Stages
      BY <1>2, <1>7, <2>1 DEF Fitting!Stages
    <3> QED
      BY <1>1, <1>2, <2>1, <3>1, SearchStepTyped DEF FrontierInv
  <2>4. Fitting!Width(shards) <= best.beam
    <3>1. limit["memory"][shards] = 0
      BY <1>3, <1>7, <2>2, LimitBelow DEF FrontierInv, Fitting!Stages
    <3>2. Fitting!Width(shards) <= 0 * shards
      BY <2>2, <3>1, WidthOf DEF FrontierInv
    <3>3. Fitting!Width(shards) \in Nat
      BY <2>2, WidthOf DEF FrontierInv
    <3> QED
      BY <1>2, <3>2, <3>3
  <2>5. Leading(1..shards' - 1)
    <3>1. Leading(1..shards - 1)
      BY <1>3, <1>7
    <3>2. 1..shards' - 1 = (1..shards - 1) \cup {shards}
      BY <1>2, <2>1, OneMoreSearched
    <3> QED
      BY <2>4, <3>1, <3>2 DEF Leading
  <2>6. Leading(1..shards - 1)'
    <3>1. ASSUME NEW n \in 1..shards' - 1 PROVE Fitting!Width(n)' <= best'.beam
      <4>1. Fitting!Width(n)' = Fitting!Width(n)
        BY <1>1 DEF SearchStep, Fitting!Width
      <4> QED
        BY <1>1, <2>5, <4>1 DEF Leading
    <3> QED
      BY <3>1 DEF Leading
  <2>7. Searched'
    BY <1>1, <1>4, <2>1, <2>6 DEF Searched
  <2> QED
    BY <1>1, <1>3, <2>1, <2>3, <2>7, SearchStepKeeps DEF FrontierInv
<1>8. CASE ~(shards > MaxShards \/ spent) /\ ~(shards > Ceiling)
  <2> DEFINE q == Ceiling \div shards
  <2>1. /\ pc' = "bisect" /\ low' = 0 /\ high' = q + 1 /\ upper' = q
        /\ UNCHANGED <<shards, stage, complete>>
    BY <1>8 DEF Fitting!NextProfile, Fitting!StartBisection
  <2>2. shards \in Fitting!ShardCounts
    BY <1>2, <1>8 DEF Fitting!ShardCounts
  <2>3. q \in 0..Ceiling /\ limit["memory"][shards] <= q
    BY <1>3, <2>2, LimitBelow DEF FrontierInv, Fitting!Stages
  <2> HIDE DEF q
  <2>4. FrontierTypes'
    <3>1. /\ low' \in 0..Ceiling /\ high' \in 0..Ceiling + 1 /\ upper' \in 0..Ceiling
          /\ low' < high' /\ high' <= upper' + 1
      BY <1>2, <2>1, <2>3
    <3> QED
      BY <1>1, <1>2, <2>1, <3>1, SearchStepTyped DEF FrontierInv
  <2>5. Halving'
    <3>1. stage = "memory"
      BY <1>1 DEF FrontierInv, Searched
    <3>2. Fitting!ShardCounts' = Fitting!ShardCounts /\ limit["memory"][shards] \in Nat
      BY <2>2, Limits DEF FrontierInv, Fitting!ShardCounts, Fitting!Stages
    <3> QED
      BY <1>1, <2>1, <2>2, <2>3, <3>1, <3>2 DEF Halving, SearchStep
  <2>6. ~spent => Leading(1..shards - 1)'
    <3>1. ASSUME ~spent, NEW n \in 1..shards - 1 PROVE Fitting!Width(n)' <= best'.beam
      <4>1. Fitting!Width(n)' = Fitting!Width(n)
        BY <1>1 DEF SearchStep, Fitting!Width
      <4> QED
        BY <1>1, <1>3, <3>1, <4>1 DEF Leading
    <3> QED
      BY <2>1, <3>1 DEF Leading
  <2>7. Searched'
    BY <1>1, <1>4, <2>1, <2>5, <2>6 DEF Searched, SearchStep
  <2> QED
    BY <1>1, <1>3, <2>1, <2>4, <2>7, SearchStepKeeps DEF FrontierInv
<1> QED
  BY <1>6, <1>7, <1>8 DEF FrontierInv

LEMMA EndBisectionKeeps ==
  ASSUME FrontierInv, Fitting!EndBisection
  PROVE  FrontierInv'
<1>1. pc = "bisect" /\ SearchStep
  BY DEF Fitting!EndBisection, SearchStep, Fitting!given, Fitting!evidence, Fitting!NextShards,
    Fitting!StartBisection
<1>2. /\ low \in 0..Ceiling /\ high \in 0..Ceiling + 1 /\ upper \in 0..Ceiling
      /\ low < high /\ high <= upper + 1 /\ stage \in Fitting!Stages /\ complete \in BOOLEAN
      /\ best \in [beam : 0..Ceiling, batch : Fitting!Batches \cup {Fitting!NoBatch}]
      /\ spent \in BOOLEAN /\ MaxShards \in Nat /\ Ceiling \in Nat /\ stage \in {"memory", "working"}
      /\ inForce \in Fitting!Batches
  <2>1. cal \in [batch : Fitting!Candidates, beam : 0..Ceiling] /\ cal.batch = inForce
    BY DEF FrontierInv, FrontierTypes, FoundTogether
  <2>2. inForce \in Fitting!Batches
    BY <2>1 DEF Fitting!Candidates
  <2> QED
    BY <1>1, <2>2, FrontierNumbers DEF FrontierInv, FrontierTypes, Fitting!TypeOK, Fitting!Stages
<1>3. /\ LimitsFit /\ Genuine /\ (~spent => Leading(1..shards - 1)) /\ Halving
      /\ (best.beam > 0 => best.batch = inForce)
  BY <1>1 DEF FrontierInv, Searched, FoundTogether
<1>4. /\ shards \in Fitting!ShardCounts /\ shards \in 1..MaxShards /\ shards \in Nat \ {0}
      /\ limit["memory"][shards] \in Nat /\ limit["working"][shards] \in Nat
      /\ Fitting!Width(shards) \in Nat
  BY <1>2, <1>3, Limits, WidthOf DEF FrontierInv, Halving, Fitting!ShardCounts, Fitting!Stages
<1>5. LimitsFit'
  BY <1>1, <1>3 DEF SearchStep, LimitsFit
<1>6. low <= upper /\ (high - low <= 1 => high = low + 1)
  BY <1>2
\* Within the budget low is what this stage admits, below the bound.
<1>7. ~spent => \/ limit[stage][shards] <= low
                \/ stage = "working" /\ limit["memory"][shards] <= low
  <2> SUFFICES ASSUME ~spent
               PROVE  \/ limit[stage][shards] <= low
                      \/ stage = "working" /\ limit["memory"][shards] <= low
    OBVIOUS
  <2>1. high = low + 1
    BY <1>2, <1>6 DEF Fitting!EndBisection, Fitting!Unfinished
  <2>2. high = upper + 1 => low = upper
    BY <1>2, <2>1
  <2> QED
    BY <1>2, <1>3, <1>4, <2>1, <2>2 DEF Halving
<1>8. ~spent => Fitting!Width(shards) <= low * shards \/ stage = "memory"
  BY <1>2, <1>4, <1>7, WidthOf DEF FrontierInv
\* The next shard count.
<1>9. ASSUME pc' = "shards", shards' = shards + 1, stage' = "memory", UNCHANGED <<low, high, upper>>,
             complete' \in BOOLEAN, Genuine',
             best' \in [beam : 0..Ceiling, batch : Fitting!Batches \cup {Fitting!NoBatch}],
             best'.beam > 0 => best'.batch = inForce, best.beam <= best'.beam,
             ~spent => Fitting!Width(shards) <= best'.beam
      PROVE  FrontierInv'
  <2>1. FrontierTypes'
    <3>1. shards' \in 1..MaxShards + 1 /\ stage' \in Fitting!Stages
      BY <1>2, <1>4, <1>9 DEF Fitting!Stages
    <3> QED
      BY <1>1, <1>2, <1>9, <3>1, SearchStepTyped DEF FrontierInv
  <2>2. ~spent => Leading(1..shards - 1)'
    <3>1. ASSUME ~spent, NEW n \in 1..shards' - 1 PROVE Fitting!Width(n)' <= best'.beam
      <4>1. Fitting!Width(n)' = Fitting!Width(n)
        BY <1>1 DEF SearchStep, Fitting!Width
      <4>2. 1..shards' - 1 = (1..shards - 1) \cup {shards}
        BY <1>4, <1>9, OneMoreSearched
      <4>3. CASE n \in 1..shards - 1
        <5>1. n \in Fitting!ShardCounts
          BY <1>2, <1>4, <4>3 DEF Fitting!ShardCounts
        <5>2. Fitting!Width(n) \in Nat /\ Fitting!Width(n) <= best.beam
          BY <1>3, <3>1, <4>3, <5>1, WidthOf DEF Leading, FrontierInv
        <5>3. best.beam \in Nat /\ best'.beam \in Nat
          BY <1>2, <1>9
        <5> QED
          BY <1>9, <4>1, <5>2, <5>3
      <4> QED
        BY <1>9, <3>1, <4>1, <4>2, <4>3
    <3> QED
      BY <3>1 DEF Leading
  <2>3. Searched'
    BY <1>1, <1>5, <1>9, <2>2 DEF Searched, SearchStep
  <2> QED
    BY <1>1, <1>9, <2>1, <2>3, SearchStepKeeps DEF FrontierInv
<1>10. CASE low = 0
  <2>1. /\ pc' = "shards" /\ shards' = shards + 1 /\ stage' = "memory"
        /\ UNCHANGED <<low, high, upper, complete, best>>
    BY <1>10 DEF Fitting!EndBisection, Fitting!NextShards
  <2>2. ~spent => Fitting!Width(shards) <= best'.beam
    <3>1. ~spent => limit["memory"][shards] <= 0 \/ limit["working"][shards] <= 0
      BY <1>2, <1>7, <1>10
    <3>2. ~spent => Fitting!Width(shards) <= 0 * shards
      BY <1>4, <3>1, WidthOf DEF FrontierInv
    <3>3. 0 * shards = 0 /\ best'.beam \in Nat
      BY <1>2, <1>4, <2>1
    <3> QED
      BY <1>2, <1>4, <3>2, <3>3
  <2>3. Genuine'
    BY <1>1, <1>3, <2>1 DEF Genuine, SearchStep
  <2>4. best.beam <= best'.beam
    BY <1>2, <2>1
  <2> QED
    BY <1>2, <1>3, <1>9, <2>1, <2>2, <2>3, <2>4
<1>11. CASE low # 0 /\ stage = "memory"
  <2>1. /\ pc' = "bisect" /\ stage' = "working" /\ low' = 0 /\ high' = low + 1 /\ upper' = low
        /\ UNCHANGED <<shards, complete, best>>
    BY <1>11 DEF Fitting!EndBisection, Fitting!StartBisection
  <2>2. FrontierTypes'
    <3>1. /\ low' \in 0..Ceiling /\ high' \in 0..Ceiling + 1 /\ upper' \in 0..Ceiling
          /\ low' < high' /\ high' <= upper' + 1 /\ stage' \in Fitting!Stages
          /\ shards' \in 1..MaxShards + 1
      BY <1>2, <1>4, <2>1 DEF Fitting!Stages
    <3> QED
      BY <1>1, <1>2, <2>1, <3>1, SearchStepTyped DEF FrontierInv
  <2>3. Halving'
    <3>1. low <= limit["memory"][shards] /\ (~spent => low = limit["memory"][shards])
      BY <1>2, <1>3, <1>4, <1>7, <1>11 DEF Halving
    <3>2. Fitting!ShardCounts' = Fitting!ShardCounts
      BY DEF Fitting!ShardCounts
    <3> QED
      BY <1>1, <1>2, <1>4, <2>1, <3>1, <3>2 DEF Halving, SearchStep
  <2>4. ~spent => Leading(1..shards - 1)'
    <3>1. ASSUME ~spent, NEW n \in 1..shards - 1 PROVE Fitting!Width(n)' <= best'.beam
      <4>1. Fitting!Width(n)' = Fitting!Width(n)
        BY <1>1 DEF SearchStep, Fitting!Width
      <4> QED
        BY <1>3, <2>1, <3>1, <4>1 DEF Leading
    <3> QED
      BY <2>1, <3>1 DEF Leading
  <2>5. Genuine'
    BY <1>1, <1>3, <2>1 DEF Genuine, SearchStep
  <2>6. Searched'
    BY <1>1, <1>5, <2>1, <2>3, <2>4, <2>5 DEF Searched, SearchStep
  <2> QED
    BY <1>1, <1>3, <2>1, <2>2, <2>6, SearchStepKeeps DEF FrontierInv
<1>12. CASE low # 0 /\ stage # "memory"
  <2> DEFINE found == low * shards
  <2>1. /\ complete' = (complete /\ ~Fitting!Unfinished)
        /\ best' = IF found > best.beam THEN [beam |-> found, batch |-> inForce] ELSE best
        /\ IF Fitting!Unfinished THEN pc' = "settle" /\ UNCHANGED <<shards, stage>>
           ELSE pc' = "shards" /\ shards' = shards + 1 /\ stage' = "memory"
        /\ UNCHANGED <<low, high, upper>> /\ (Fitting!Unfinished => spent)
    BY <1>12 DEF Fitting!EndBisection, Fitting!Better, Fitting!NextShards
  <2>2. /\ found \in 0..Ceiling /\ found > 0 /\ low <= limit["memory"][shards]
        /\ low <= limit["working"][shards]
    <3>1. low <= limit["memory"][shards] /\ low <= limit["working"][shards]
      BY <1>2, <1>3, <1>4, <1>6, <1>12 DEF Halving
    <3>2. limit["working"][shards] * shards <= Ceiling
      BY <1>3, <1>4 DEF LimitsFit, Fitting!Stages
    <3>3. low \in Nat
      BY <1>2
    <3>4. /\ low * shards <= shards * limit["working"][shards]
          /\ limit["working"][shards] * shards = shards * limit["working"][shards]
          /\ low * shards = shards * low /\ shards * low \in Nat
          /\ shards * limit["working"][shards] \in Nat
      BY <1>4, <3>1, <3>3, Multiples
    <3>5. 1 * shards <= shards * low /\ 1 * shards = shards
      <4>1. 1 <= low
        BY <1>12, <3>3
      <4>2. 1 * shards <= shards * low
        BY <1>4, <3>3, <4>1, Multiples
      <4> QED
        BY <1>4, <4>2
    <3> QED
      BY <1>2, <1>4, <3>1, <3>2, <3>4, <3>5
  <2>3. Fitting!Width(shards) <= found \/ spent
    BY <1>2, <1>8, <1>12
  <2> HIDE DEF found
  <2>4. /\ best' \in [beam : 0..Ceiling, batch : Fitting!Batches \cup {Fitting!NoBatch}]
        /\ (best'.beam > 0 => best'.batch = inForce) /\ best.beam <= best'.beam
        /\ found <= best'.beam /\ complete' \in BOOLEAN
    <3>1. CASE found > best.beam
      <4>1. best' = [beam |-> found, batch |-> inForce]
        BY <2>1, <3>1
      <4>2. best.beam \in Nat /\ found \in Nat
        BY <1>2, <2>2
      <4> QED
        BY <1>2, <2>1, <2>2, <3>1, <4>1, <4>2
    <3>2. CASE ~(found > best.beam)
      <4>1. best' = best
        BY <2>1, <3>2
      <4>2. best.beam \in Nat /\ found \in Nat
        BY <1>2, <2>2
      <4> QED
        BY <1>2, <1>3, <2>1, <3>2, <4>1, <4>2
    <3> QED
      BY <3>1, <3>2
  <2>5. Genuine'
    <3>1. CASE best' = best
      BY <1>1, <1>3, <3>1 DEF Genuine, SearchStep
    <3>2. CASE best' = [beam |-> found, batch |-> inForce]
      BY <1>1, <1>2, <1>4, <2>2, <3>2 DEF Genuine, SearchStep, found, Fitting!ShardCounts
    <3> QED
      BY <2>1, <3>1, <3>2
  <2>6. CASE Fitting!Unfinished
    <3>1. FrontierTypes'
      <4>1. shards' \in 1..MaxShards + 1 /\ stage' \in Fitting!Stages /\ pc' = "settle"
        BY <1>2, <1>4, <2>1, <2>6
      <4> QED
        BY <1>1, <1>2, <2>1, <2>4, <4>1, SearchStepTyped DEF FrontierInv
    <3>2. Searched'
      BY <1>1, <1>5, <2>1, <2>5, <2>6 DEF Searched, SearchStep
    <3>3. best'.beam > 0
      BY <2>2, <2>4, <1>2
    <3> QED
      BY <1>1, <2>4, <3>1, <3>2, <3>3, SearchStepKeeps DEF FrontierInv
  <2>7. CASE ~Fitting!Unfinished
    <3>1. ~spent => Fitting!Width(shards) <= best'.beam
      <4>1. found \in Nat /\ best'.beam \in Nat
        BY <1>2, <2>2, <2>4
      <4> QED
        BY <1>4, <2>3, <2>4, <4>1
    <3> QED
      BY <1>9, <2>1, <2>4, <2>5, <2>7, <3>1
  <2> QED
    BY <2>6, <2>7
<1> QED
  BY <1>10, <1>11, <1>12

LEMMA SettleKeeps ==
  ASSUME FrontierInv, Fitting!Settle
  PROVE  FrontierInv'
<1>1. /\ pc = "settle" /\ pc' \in {"step", "tune", "failed"} /\ Fitting!Maximum /\ best.beam > 0
      /\ best.batch = inForce /\ (pc' = "step" => best.beam = cal.beam)
      /\ UNCHANGED <<requested, rows, tuned, round, inForce, cal, limit, shards, stage, low, high, upper,
                     spent, complete, best, tried, planner, verified, scaled>>
  BY DEF FrontierInv, FoundTogether, Fitting!Settle, Fitting!Fail, Fitting!given,
    Fitting!bisection, Fitting!evidence
<1>2. FrontierTypes'
  BY <1>1 DEF FrontierInv, FrontierTypes, Fitting!TypeOK, Fitting!Candidates
<1>3. FoundTogether' /\ MeasuredAtWidth' /\ Fitting!OneSession'
  BY <1>1, NothingOffered DEF FrontierInv, FoundTogether, MeasuredAtWidth, Fitting!FittedTogether,
    Fitting!LaunchedAsVerified, Fitting!Launched, Fitting!OneSession
<1> QED
  BY <1>1, <1>2, <1>3, SearchIsOver, NothingOffered DEF FrontierInv

LEMMA TuneKeeps ==
  ASSUME FrontierInv, Fitting!Tune \/ Fitting!TuneRejected
  PROVE  FrontierInv'
<1>1. /\ pc = "tune" /\ pc' \in {"discover", "step", "failed"} /\ Fitting!Maximum /\ best.beam > 0
      /\ best.batch = inForce /\ cal.batch = inForce /\ round' \in {round, Fitting!Min({round + 1, MaxRounds})}
      /\ UNCHANGED <<requested, rows, tuned, limit, shards, stage, low, high, upper,
                     spent, complete, best, tried, planner, verified, scaled>>
  BY DEF FrontierInv, FoundTogether, Fitting!Tune, Fitting!TuneRejected, Fitting!Count, Fitting!Fail,
    Fitting!given, Fitting!bisection, Fitting!evidence
<1>2. round \in 0..MaxRounds /\ MaxRounds \in Nat /\ best.beam \in 0..Ceiling
  BY FrontierNumbers DEF FrontierInv, FrontierTypes, Fitting!TypeOK
<1>3. round' \in 0..MaxRounds
  <2>1. Fitting!Min({round + 1, MaxRounds}) \in 0..MaxRounds
    BY <1>2, SmallerNumber
  <2> QED
    BY <1>1, <1>2, <2>1
<1>4. \/ pc' = "failed" /\ UNCHANGED <<inForce, cal>>
      \/ \E b \in Fitting!Candidates :
           /\ cal' = [batch |-> b, beam |-> best.beam] /\ inForce' = b
           /\ pc' = "step" => b = inForce
  BY <1>1 DEF Fitting!Tune, Fitting!TuneRejected, Fitting!Fail, Fitting!BoundReceipt, Fitting!Changed
<1>5. /\ cal' \in [batch : Fitting!Candidates, beam : 0..Ceiling] /\ inForce' = cal'.batch
      /\ pc' = "step" => cal'.beam = best.beam /\ inForce' = inForce
  <2>1. cal \in [batch : Fitting!Candidates, beam : 0..Ceiling] /\ inForce = cal.batch
    BY DEF FrontierInv, FrontierTypes, FoundTogether
  <2> QED
    BY <1>2, <1>4, <2>1
<1>6. FrontierTypes'
  <2>1. Fitting!Candidates' = Fitting!Candidates
    BY <1>1 DEF Fitting!Candidates
  <2>2. inForce' \in Fitting!Batches
    BY <1>5 DEF Fitting!Candidates
  <2> QED
    BY <1>1, <1>3, <1>5, <2>1, <2>2 DEF FrontierInv, FrontierTypes, Fitting!TypeOK, Fitting!Batches
<1>7. FoundTogether' /\ MeasuredAtWidth' /\ Fitting!OneSession'
  BY <1>1, <1>5, NothingOffered DEF FrontierInv, FoundTogether, MeasuredAtWidth, Fitting!FittedTogether,
    Fitting!LaunchedAsVerified, Fitting!Launched, Fitting!OneSession
<1> QED
  BY <1>1, <1>6, <1>7, SearchIsOver, NothingOffered DEF FrontierInv

LEMMA FullStepKeeps ==
  ASSUME FrontierInv, Fitting!FullStep
  PROVE  FrontierInv'
<1>1. /\ pc = "step" /\ pc' \in {"compare", "launch", "failed"}
      /\ (pc' = "compare" => Fitting!Maximum) /\ (pc' = "launch" => ~Fitting!Maximum)
      /\ planner' = Fitting!NoBatch /\ round' = 0
      /\ UNCHANGED <<requested, rows, tuned, inForce, cal, limit, shards, stage, low, high, upper,
                     spent, complete, best, tried, scaled>>
  BY DEF Fitting!FullStep, Fitting!Fail, Fitting!given, Fitting!bisection
<1>2. Fitting!Maximum' <=> Fitting!Maximum
  BY <1>1 DEF Fitting!Maximum
<1>3. FrontierTypes'
  BY <1>1, FrontierNumbers DEF FrontierInv, FrontierTypes, Fitting!TypeOK, Fitting!Candidates, Fitting!NoBatch
<1>4. FoundTogether' /\ MeasuredAtWidth' /\ Fitting!OneSession'
  BY <1>1, <1>2 DEF FrontierInv, FoundTogether, MeasuredAtWidth, Fitting!FittedTogether,
    Fitting!LaunchedAsVerified, Fitting!Launched, Fitting!OneSession
<1>5. OfferedInOrder'
  BY <1>1, <1>2 DEF FrontierInv, OfferedInOrder, FasterOnesTried, Fitting!Batches
<1> QED
  BY <1>1, <1>3, <1>4, <1>5, SearchIsOver DEF FrontierInv

LEMMA CompareKeeps ==
  ASSUME FrontierInv, Fitting!Compare
  PROVE  FrontierInv'
<1>1. /\ pc = "compare" /\ pc' \in {"measure", "launch", "failed"} /\ Fitting!Maximum
      /\ (pc' = "launch" => <<best.beam, inForce>> \in verified /\ best.beam \in scaled')
      /\ (pc' = "measure" => <<best.beam, inForce>> \in verified /\ round # MaxRounds)
      /\ UNCHANGED <<requested, rows, tuned, round, inForce, cal, limit, shards, stage, low, high, upper,
                     spent, complete, best, tried, planner, verified>>
  BY DEF FrontierInv, FoundTogether, Fitting!Compare, Fitting!StepAt, Fitting!Fail,
    Fitting!given, Fitting!bisection
<1>2. FrontierTypes'
  BY <1>1 DEF FrontierInv, FrontierTypes, Fitting!TypeOK, Fitting!Candidates
<1>3. round \in 0..MaxRounds /\ MaxRounds \in Nat
  BY FrontierNumbers DEF FrontierInv, FrontierTypes, Fitting!TypeOK
<1>4. FoundTogether' /\ MeasuredAtWidth' /\ Fitting!OneSession'
  BY <1>1, <1>3, NothingOffered DEF FrontierInv, FoundTogether, MeasuredAtWidth,
    Fitting!FittedTogether, Fitting!LaunchedAsVerified, Fitting!Launched, Fitting!OneSession
<1> QED
  BY <1>1, <1>2, <1>4, SearchIsOver, NothingOffered DEF FrontierInv

LEMMA MeasureKeeps ==
  ASSUME FrontierInv, Fitting!Measure
  PROVE  FrontierInv'
<1>1. /\ pc = "measure" /\ pc' \in {"compare", "launch", "failed"} /\ Fitting!Maximum
      /\ round' = round + 1
      /\ (pc' = "launch" => /\ verified \subseteq verified' /\ best' = best
                            /\ best.beam \in scaled')
      /\ (best' = best \/ best' = [best EXCEPT !.beam = best.beam \div 2])
      /\ UNCHANGED <<requested, rows, tuned, inForce, cal, limit, shards, stage, low, high, upper,
                     spent, complete, tried, planner>>
  BY DEF FrontierInv, FoundTogether, Fitting!Measure, Fitting!Fail,
    Fitting!given, Fitting!bisection
<1>2. /\ round \in 0..MaxRounds /\ MaxRounds \in Nat /\ round < MaxRounds /\ Ceiling \in Nat
      /\ best \in [beam : 0..Ceiling, batch : Fitting!Batches \cup {Fitting!NoBatch}]
  BY <1>1, FrontierNumbers DEF FrontierInv, FrontierTypes, Fitting!TypeOK, MeasuredAtWidth
<1>3. best' \in [beam : 0..Ceiling, batch : Fitting!Batches \cup {Fitting!NoBatch}]
  <2>1. best.beam \in Nat /\ best.beam <= Ceiling
    BY <1>2
  <2>2. best.beam \div 2 \in Nat /\ 2 * (best.beam \div 2) <= best.beam
    BY <2>1, Quotient
  <2>3. best.beam \div 2 \in 0..Ceiling
    BY <1>2, <2>1, <2>2
  <2> QED
    BY <1>1, <1>2, <2>3
<1>4. FrontierTypes'
  <2>1. round' \in 0..MaxRounds
    BY <1>1, <1>2
  <2> QED
    BY <1>1, <1>3, <2>1 DEF FrontierInv, FrontierTypes, Fitting!TypeOK, Fitting!Candidates,
      Fitting!Batches, Fitting!NoBatch
<1>5. FoundTogether' /\ MeasuredAtWidth' /\ Fitting!OneSession'
  BY <1>1, NothingOffered DEF FrontierInv, FoundTogether, MeasuredAtWidth,
    Fitting!FittedTogether, Fitting!LaunchedAsVerified, Fitting!Launched, Fitting!OneSession
<1> QED
  BY <1>1, <1>4, <1>5, SearchIsOver, NothingOffered DEF FrontierInv

LEMMA FrontierKeeps == FrontierInv /\ [Fitting!Next]_(Fitting!vars) => FrontierInv'
BY FrontierStutters, OfferKeeps, DiscoverKeeps, ElapseKeeps, NextProfileKeeps, ProbeKeeps,
   EndBisectionKeeps, SettleKeeps, TuneKeeps, FullStepKeeps, CompareKeeps, MeasureKeeps
   DEF Fitting!Next

LEMMA FrontierWord ==
  ASSUME FrontierInv
  PROVE  /\ Fitting!CapacityWasAdmitted /\ Fitting!LargestWithinBudget /\ Fitting!FastestThatFits
<1>1. Fitting!CapacityWasAdmitted
  <2> SUFFICES ASSUME pc \in {"shards", "bisect", "settle"}, best.beam > 0
               PROVE  \E n \in Fitting!ShardCounts : best.beam % n = 0 /\ best.beam <= Fitting!Width(n)
    BY DEF Fitting!CapacityWasAdmitted
  <2>1. PICK n \in Fitting!ShardCounts, k \in 0..Ceiling :
             best.beam = k * n /\ k <= limit["memory"][n] /\ k <= limit["working"][n]
    BY DEF FrontierInv, Searched, Genuine
  <2>2. n \in Nat \ {0} /\ k \in Nat
    BY FrontierNumbers DEF Fitting!ShardCounts
  <2>3. k * n <= Fitting!Width(n)
    BY <2>1, <2>2, WidthOf DEF FrontierInv
  <2>4. (k * n) % n = 0
    BY <2>2, Z3
  <2> QED
    BY <2>1, <2>3, <2>4
<1>2. Fitting!LargestWithinBudget
  <2> SUFFICES ASSUME pc = "settle", ~spent
               PROVE  best.beam = Fitting!Max({Fitting!Width(n) : n \in Fitting!ShardCounts})
    BY DEF Fitting!LargestWithinBudget
  <2> DEFINE W == {Fitting!Width(n) : n \in Fitting!ShardCounts}
  <2>1. PICK n \in Fitting!ShardCounts, k \in 0..Ceiling :
             best.beam = k * n /\ k <= limit["memory"][n] /\ k <= limit["working"][n]
    BY DEF FrontierInv, FoundTogether, Searched, Genuine
  <2>2. Leading(Fitting!ShardCounts) /\ best.beam \in Nat
    BY FrontierNumbers DEF FrontierInv, Searched, FrontierTypes, Fitting!TypeOK
  <2>3. \A m \in Fitting!ShardCounts : Fitting!Width(m) \in Nat
    BY WidthOf DEF FrontierInv
  <2>4. best.beam <= Fitting!Width(n)
    <3>1. k \in Nat
      OBVIOUS
    <3> QED
      BY <2>1, <3>1, WidthOf DEF FrontierInv
  <2>5. best.beam \in W /\ \A w \in W : w \in Nat /\ w <= best.beam
    BY <2>1, <2>2, <2>3, <2>4 DEF Leading
  <2> HIDE DEF W
  <2>6. \A x \in W : (\A y \in W : x >= y) => x = best.beam
    BY <2>2, <2>5
  <2>7. Fitting!Max(W) = best.beam
    BY <2>2, <2>5, <2>6 DEF Fitting!Max
  <2> QED
    BY <2>7 DEF W
<1>3. Fitting!FastestThatFits
  <2>1. inForce \in Fitting!Candidates
    BY DEF FrontierInv, FrontierTypes, FoundTogether
  <2> QED
    BY <2>1 DEF FrontierInv, OfferedInOrder, FasterOnesTried, Fitting!FastestThatFits,
      Fitting!Launched, Fitting!Candidates
<1> QED
  BY <1>1, <1>2, <1>3

\* The frontier was admitted with the batch in force and is the largest within the
\* budget; a maximum one is launched only after a full step at its width, a fixed
\* one with the fastest batch that fits (beam_capacity.py:48-75,
\* maximum_beam.py:26-100, working_capacity.py:28-36).
THEOREM FrontiersFit == Spec => []FrontierFits
<1> DEFINE Here == part = "frontier" => FrontierInv
<1>1. Init => Here
  BY FrontierStarts DEF Init
<1>2. Here /\ [Next]_allVars => Here'
  <2> SUFFICES ASSUME Here, [Next]_allVars, part' = "frontier" PROVE FrontierInv'
    OBVIOUS
  <2>1. ASSUME FitFrontier PROVE FrontierInv'
    BY <2>1, FrontierKeeps DEF FitFrontier
  <2>2. ASSUME CallStep \/ RouteStep \/ FetchSources \/ BuildRunner \/ FreezeModel \/ PublishResults
        PROVE  FALSE
    BY <2>2 DEF CallStep, RouteStep, FetchSources, BuildRunner, FreezeModel, PublishResults
  <2>3. CASE UNCHANGED allVars
    <3>1. UNCHANGED Fitting!vars /\ part = "frontier"
      BY <2>3 DEF allVars, frontierVars, Fitting!vars
    <3> QED
      BY <3>1, FrontierKeeps
  <2> QED
    BY <2>1, <2>2, <2>3 DEF Next
<1>3. Here => FrontierFits
  <2> SUFFICES ASSUME FrontierInv PROVE FrontierFits
    BY DEF FrontierFits
  <2>1. /\ Fitting!TypeOK /\ Fitting!FittedTogether /\ Fitting!LaunchedAsVerified
        /\ Fitting!OneSession
    BY DEF FrontierInv, FrontierTypes, FoundTogether, MeasuredAtWidth
  <2> QED
    BY <2>1, FrontierWord DEF FrontierFits
<1> QED
  BY <1>1, <1>2, <1>3, PTL DEF Spec
================================================================================
