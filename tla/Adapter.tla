-------------------------------- MODULE Adapter --------------------------------
(***************************************************************************)
(* A search as its caller sees it: how CayleyPy calls are routed (Dispatch, *)
(* in a CayleyPy with the public hook and in one without) and what one call *)
(* does (SearchCall); before it, the processes of a machine fetch the       *)
(* pinned sources (SourceCache) and build the runner (BuildCache), the      *)
(* models are frozen into the run's directory (ModelArtifacts) and the      *)
(* frontier is fitted into memory (CapacityPlanning); after it, solutions   *)
(* are published (Publication).  The call sees each of the others as one    *)
(* step that succeeds or raises, so each is explored by itself; `part` says *)
(* which one a behaviour is.                                                *)
(***************************************************************************)
EXTENDS Integers, FiniteSets, Sequences

CONSTANTS
    MaxSteps, MaxRadius, Moves, MaxEntries, Widths, MaxBatch, RowLimit, Alignment,
    Scalar, Gpus, Visible, Selections, Asked,                            \* SearchCall
    Configs, MaxInstalls, MaxForeign,                                    \* Dispatch
    Fetchers, Offline, Searching, Tampering,                             \* SourceCache
    Builders, MaxUpgrades,                                               \* BuildCache
    MayCrash,      \* of the processes that fetch and of those that build
    MaxEdits,      \* of the source tree and of each file of a model
    Sources, Live, Bundles, Shareable, Members, MaxTampers,              \* ModelArtifacts
    Parts, Origins,                                                      \* Publication
    MaxShards, Ceiling, Measured, MaxSpeed, MaxRounds, Saturated, Wanted \* CapacityPlanning

VARIABLES
    part, pc,
    req, dir, files, devices, executor, env, recorded, session, probed, launched, length,
    method, owner, default, original, installed, registration, config, sessions,
    request, saved, foreign, before,                                     \* Dispatch
    given, cache, temp, fetched, todo, got,                              \* SourceCache
    source, runner, meta, lock, key, expected, snapshot, library,        \* BuildCache
    origin,                               \* of ModelArtifacts and of Publication
    past, pin, at, hash, staging, private, prepared, tampers,  \* ModelArtifacts
    replays, submitting, submitted, endpoint, late, service, manifest, combined, result,
    requested, round, rows, tuned, inForce, cal, limit, shards, stage, low, high, upper,
    spent, complete, best, tried, planner, verified, scaled              \* CapacityPlanning

callVars == <<req, dir, files, devices, executor, env, session, probed, launched, length>>
dispatchVars == <<method, owner, default, original, installed, registration, config, sessions,
                  request, saved, foreign, before>>
sourceVars == <<given, cache, temp, fetched, todo, got>>
buildVars == <<source, runner, meta, lock, key, expected, snapshot, library>>
modelVars == <<past, pin, at, hash, staging, private, prepared, tampers>>
publicationVars ==
    <<replays, submitting, submitted, endpoint, late, service, manifest, combined, result>>
frontierVars ==
    <<requested, round, rows, tuned, inForce, cal, limit, shards, stage, low, high, upper,
      spent, complete, best, tried, planner, verified, scaled>>
allVars == <<part, pc, origin, recorded, callVars, dispatchVars, sourceVars, buildVars, modelVars,
             publicationVars, frontierVars>>

----------------------------------------------------------------------------
Calling == INSTANCE SearchCall
Hooked == INSTANCE Dispatch WITH Hook <- TRUE, Concurrent <- FALSE, Stale <- FALSE
Patched == INSTANCE Dispatch WITH Hook <- FALSE, Concurrent <- FALSE, Stale <- FALSE
Fetching == INSTANCE SourceCache WITH Procs <- Fetchers
Building == INSTANCE BuildCache WITH Procs <- Builders
Freezing == INSTANCE ModelArtifacts
Publishing == INSTANCE Publication WITH part <- submitting
Fitting == INSTANCE CapacityPlanning WITH
    MaxBatch <- Measured, env <- inForce, session <- planner, late <- spent

ASSUME CallsAssumption == Calling!CallAssumption /\ Calling!AskedAssumption
ASSUME RoutesAssumption == Hooked!DispatchAssumption
ASSUME FetchAssumption == Fetching!SourceAssumption
ASSUME BuildsAssumption == Building!BuildAssumption
ASSUME ModelsAssumption == Freezing!ArtifactAssumption
ASSUME PartsAssumption == Publishing!PublicationAssumption
ASSUME FrontierAssumption == Fitting!PlanningAssumption

\* The variables of a part that is not there.
None == "absent"
NoCall ==
    /\ req = None /\ dir = None /\ files = None /\ devices = None /\ executor = None
    /\ env = None /\ session = None /\ probed = None /\ launched = None /\ length = None
NoDispatch ==
    /\ method = None /\ owner = None /\ default = None /\ original = None
    /\ installed = None /\ registration = None /\ config = None /\ sessions = None
    /\ request = None /\ saved = None /\ foreign = None /\ before = None
NoSources ==
    /\ given = None /\ cache = None /\ temp = None /\ fetched = None /\ todo = None
    /\ got = None
NoBuild ==
    /\ source = None /\ runner = None /\ meta = None /\ lock = None /\ key = None
    /\ expected = None /\ snapshot = None /\ library = None
NoModel ==
    /\ past = None /\ pin = None /\ at = None /\ hash = None /\ staging = None
    /\ private = None /\ prepared = None /\ tampers = None
NoPublication ==
    /\ replays = None /\ submitting = None /\ submitted = None /\ endpoint = None
    /\ late = None /\ service = None /\ manifest = None /\ combined = None /\ result = None
NoFrontier ==
    /\ requested = None /\ round = None /\ rows = None /\ tuned = None /\ inForce = None
    /\ cal = None /\ limit = None /\ shards = None /\ stage = None /\ low = None
    /\ high = None /\ upper = None /\ spent = None /\ complete = None /\ best = None
    /\ tried = None /\ planner = None /\ verified = None /\ scaled = None

Init ==
    \/ /\ part = "call" /\ Calling!Init
       /\ origin = None
       /\ NoDispatch /\ NoSources /\ NoBuild /\ NoModel /\ NoPublication /\ NoFrontier
    \/ /\ part = "sources" /\ Fetching!Init
       /\ origin = None /\ recorded = None
       /\ NoCall /\ NoDispatch /\ NoBuild /\ NoModel /\ NoPublication /\ NoFrontier
    \/ /\ part = "build" /\ Building!Init
       /\ origin = None /\ recorded = None
       /\ NoCall /\ NoDispatch /\ NoSources /\ NoModel /\ NoPublication /\ NoFrontier
    \/ /\ part = "model" /\ Freezing!Init
       /\ NoCall /\ NoDispatch /\ NoSources /\ NoBuild /\ NoPublication /\ NoFrontier
    \/ /\ part = "publication" /\ Publishing!Init
       /\ recorded = None
       /\ NoCall /\ NoDispatch /\ NoSources /\ NoBuild /\ NoModel /\ NoFrontier
    \/ /\ \/ part = "hook" /\ Hooked!Init
          \/ part = "patch" /\ Patched!Init
       /\ origin = None /\ recorded = None
       /\ NoCall /\ NoSources /\ NoBuild /\ NoModel /\ NoPublication /\ NoFrontier
    \/ /\ part = "frontier" /\ Fitting!Init
       /\ origin = None /\ recorded = None
       /\ NoCall /\ NoDispatch /\ NoSources /\ NoBuild /\ NoModel /\ NoPublication

CallStep ==
    /\ part = "call" /\ Calling!Next
    /\ UNCHANGED <<part, origin, dispatchVars, sourceVars, buildVars, modelVars,
                   publicationVars, frontierVars>>
RouteStep ==
    /\ \/ part = "hook" /\ Hooked!Next
       \/ part = "patch" /\ Patched!Next
    /\ UNCHANGED <<part, origin, recorded, callVars, sourceVars, buildVars, modelVars,
                   publicationVars, frontierVars>>
FetchSources ==
    /\ part = "sources" /\ Fetching!Next
    /\ UNCHANGED <<part, origin, recorded, callVars, dispatchVars, buildVars, modelVars,
                   publicationVars, frontierVars>>
BuildRunner ==
    /\ part = "build" /\ Building!Next
    /\ UNCHANGED <<part, origin, recorded, callVars, dispatchVars, sourceVars, modelVars,
                   publicationVars, frontierVars>>
FreezeModel ==
    /\ part = "model" /\ Freezing!Next
    /\ UNCHANGED <<part, callVars, dispatchVars, sourceVars, buildVars, publicationVars,
                   frontierVars>>
PublishResults ==
    /\ part = "publication" /\ Publishing!Next
    /\ UNCHANGED <<part, recorded, callVars, dispatchVars, sourceVars, buildVars,
                   modelVars, frontierVars>>
FitFrontier ==
    /\ part = "frontier" /\ Fitting!Next
    /\ UNCHANGED <<part, origin, recorded, callVars, dispatchVars, sourceVars, buildVars,
                   modelVars, publicationVars>>

Next ==
    \/ CallStep \/ RouteStep
    \/ FetchSources \/ BuildRunner \/ FreezeModel \/ PublishResults
    \/ FitFrontier

Spec == Init /\ [][Next]_allVars

----------------------------------------------------------------------------
(* Properties                                                               *)

\* Torch answers only when nothing native has begun.  What ran is what
\* runtime-config.json records, at the width asked for, with the solution policy
\* restored after the probes and the planner's memory returned; and it fits what
\* it was given: its path max_steps, the solved neighbourhood its entries, the
\* first slot its shard, the runner all of its GPUs (dispatch.py, backend.py:586-735).
CallKeepsItsWord ==
    part = "call" =>
        /\ Calling!TypeOK
        /\ Calling!NeverSilently /\ Calling!RecordedIsRun
        /\ Calling!PolicyAfterProbes /\ Calling!PlannerReleased
        /\ Calling!WidthKept
        /\ Calling!BudgetFits /\ Calling!NeighbourhoodFits
        /\ Calling!SlotFits /\ Calling!RunnerSuits

\* After any number of enables, failed ones too, and one disable, CayleyPy is
\* what it was if nobody else acted, and nothing of ours is left if somebody
\* did; nobody's function holds two wrappers of ours.  Enabling and disabling
\* keep the wrappers, names and default backend of another integration, and the
\* options of bound methods of earlier sessions
\* (dispatch.py:45-93, 280, 311-339).
RestoresWhatItFound ==
    /\ [](part = "hook" =>
            /\ Hooked!TypeOK /\ Hooked!RestoresWhatItFound
            /\ Hooked!TorchStaysTorch /\ Hooked!NothingLeftBehind)
    /\ [](part = "patch" =>
            Patched!TypeOK /\ Patched!RestoresWhatItFound /\ Patched!TorchStaysTorch)
    /\ [][part = "hook" => Hooked!ForeignKept /\ Hooked!ForeignDefaultKept]_allVars
    /\ [][part = "patch" =>
            /\ Patched!ForeignKept /\ Patched!ForeignDefaultKept
            /\ Patched!OldSessionsKept]_allVars

\* A call that succeeds was given trees that matched their archives, whoever put
\* them there; no temporary directory outlives a process that was not killed;
\* nothing is fetched when an explicit directory is invalid (sources.py:112-188).
OnlyVerifiedTrees ==
    part = "sources" =>
        /\ Fetching!TypeOK /\ Fetching!OnlyVerifiedTrees
        /\ Fetching!NoTemporaryLeft /\ Fetching!NothingFetchedInVain

\* A process runs a complete executable built from the sources its key names,
\* with the NCCL it was compiled against; one process builds at a time, and the
\* metadata never describes a mixed executable (build.py:243-283, backend.py:59-96).
ExecutesItsSources ==
    part = "build" =>
        /\ Building!TypeOK
        /\ Building!ExecutesItsSources /\ Building!RunsItsLibrary
        /\ Building!OneBuilder /\ Building!MetadataOfWholeBuilds

\* Every member of a launched ensemble is what its source held at one moment,
\* is what it was pinned to, and is what was frozen; the parts of a bundle and
\* the heads that share it are of one version (models.py:147, 323, 736-760).
FrozenRuns ==
    part = "model" =>
        /\ Freezing!TypeOK
        /\ Freezing!OneMoment /\ Freezing!WholeBundles /\ Freezing!PinsHold
        /\ Freezing!FrozenRuns /\ Freezing!ExportedWasChecked /\ Freezing!OneCopy

\* "published" is said only when the service has every part; whatever it took is
\* in receipts the caller knows, of one service, current after a verdict; only
\* what replays was sent (publication.py:60, 166-221).
PublishedIsTrue ==
    part = "publication" =>
        /\ Publishing!TypeOK
        /\ Publishing!PublishedIsTrue /\ Publishing!ReceiptsNamed /\ Publishing!OneEndpoint
        /\ Publishing!OnlyReplayed /\ Publishing!ManifestsCurrent

\* The frontier was admitted by the planner with the batch in force, whenever the
\* budget ran out, and is the largest within it; frontier, calibration and
\* environment fit together; a maximum frontier is launched only after a full
\* step at exactly its width, a fixed one with the fastest batch that fits
\* (beam_capacity.py:48-75, maximum_beam.py:26-100, working_capacity.py:28-36).
FrontierFits ==
    part = "frontier" =>
        /\ Fitting!TypeOK
        /\ Fitting!CapacityWasAdmitted /\ Fitting!LargestWithinBudget
        /\ Fitting!FittedTogether /\ Fitting!LaunchedAsVerified
        /\ Fitting!FastestThatFits /\ Fitting!OneSession
================================================================================
