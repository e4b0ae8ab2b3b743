--------------------------- MODULE ModelArtifacts ----------------------------
(***************************************************************************)
(* How a search gets the model it runs with (models.py, preparation.py).    *)
(* An ensemble's members are declared artifact directories, which somebody  *)
(* may rewrite file by file at any time, or live modules, whose parameters  *)
(* may change.  Each is frozen into the private directory of the run; the   *)
(* ensemble manifest records the hashes; the whole is verified before the   *)
(* launch.  A hash is modelled by the contents it was taken of.             *)
(***************************************************************************)
EXTENDS Naturals, FiniteSets, Sequences

CONSTANTS
    Sources,       \* directories and live modules
    Live,          \* the live modules
    Bundles,       \* directories whose manifest binds the hash of the data
    Shareable,     \* Cube444 bundles: heads of one directory share one copy
    Members,       \* sequence of sources, one per ensemble member
    MaxEdits,      \* bound: times each file is rewritten
    MaxTampers     \* bound: writes into the private directory

ArtifactAssumption ==
    /\ Live \subseteq Sources /\ Bundles \subseteq Sources \ Live
    /\ Shareable \subseteq Bundles
    /\ Members \in Seq(Sources) /\ MaxEdits \in Nat /\ MaxTampers \in Nat

Files == {"manifest", "blob"}
Contents == [Files -> 0..MaxEdits + MaxTampers]
NoContents == [f \in Files |-> MaxEdits + MaxTampers + 1]
Index == DOMAIN Members

VARIABLES
    origin,      \* what each source holds now
    past,        \* everything it ever held
    pin,         \* expected_artifact_hash of each member
    pc, at,      \* the member being prepared
    hash,        \* what was hashed so far of the member
    staging,     \* the copy being made of it, or the tensors cloned from it
    private,     \* the member directories of the run
    recorded,    \* artifact_hash of each member in ensemble.json
    prepared,    \* the hash of the ensemble that was prepared
    tampers

vars == <<origin, past, pin, pc, at, hash, staging, private, recorded, prepared, tampers>>

TypeOK ==
    /\ origin \in [Sources -> Contents]
    /\ \A s \in Sources : origin[s] \in past[s] /\ past[s] \subseteq Contents
    /\ pin \in [Index -> Contents \cup {NoContents}]
    /\ pc \in {"member", "hash", "pin", "copy", "copied", "clone", "schema",
               "graph", "check", "export", "manifest",
               "ensemble", "verify", "launched", "unavailable", "refused"}
    /\ at \in 1..Len(Members) + 1
    /\ {hash, staging} \subseteq [Files -> 0..MaxEdits + MaxTampers + 1]
    /\ private \in [Index -> Contents \cup {NoContents}]
    /\ recorded \in [Index -> Contents \cup {NoContents}]
    /\ prepared \in [Index -> Contents \cup {NoContents}]
    /\ tampers \in 0..MaxTampers
    /\ pc \in {"refused", "unavailable", "launched"} => staging = NoContents

\* A member may be pinned to what its directory held when it was declared, as
\* prepare_native pins the snapshot it made.
Init ==
    /\ origin = [s \in Sources |-> [f \in Files |-> 0]]
    /\ past = [s \in Sources |-> {origin[s]}]
    /\ pin \in [Index -> {NoContents, [f \in Files |-> 0]}]
    /\ \A i \in Index : Members[i] \in Live => pin[i] = NoContents
    /\ pc = "member" /\ at = 1 /\ hash = NoContents /\ staging = NoContents
    /\ private = [i \in Index |-> NoContents]
    /\ recorded = [i \in Index |-> NoContents]
    /\ prepared = [i \in Index |-> NoContents]
    /\ tampers = 0

Source == Members[at]

StagingLeft(outcome) == pc' = outcome /\ UNCHANGED staging     \* mutant: no finally
Stop(outcome) == pc' = outcome /\ staging' = NoContents

\* Another process, or the thread that trains the model.
Rewrite(s, f) ==
    /\ origin[s][f] < MaxEdits
    /\ origin' = [origin EXCEPT ![s][f] = @ + 1]
    /\ past' = [past EXCEPT ![s] = past[s] \cup {origin'[s]}]
    /\ UNCHANGED <<pin, pc, at, hash, staging, private, recorded, prepared, tampers>>

\* validate_bundle: every file is read and has the hash the manifest binds.
AnyFiles(c) == TRUE                       \* mutant: the bindings are not compared
BoundFiles(c) == c.manifest = c.blob
Valid(s, c) == s \in Bundles => BoundFiles(c)

\* Heads that share a Cube444 bundle share the first one's snapshot; the later
\* head's own pin is compared with it.
NoTwins == {}                             \* mutant: every head makes its own copy
Twins == {i \in 1..at - 1 : Members[i] = Source /\ Source \in Shareable}

PinMatches(c) == pin[at] \in {NoContents, c}
PinIgnored(c) == TRUE                     \* mutant: a shared snapshot is not compared
PinOfShared(c) == PinMatches(c)

Next1 == at' = at + 1 /\ pc' = "member"

Reuse ==
    /\ pc = "member" /\ at \in Index /\ Twins # {}
    /\ LET c == recorded[CHOOSE i \in Twins : TRUE] IN
         IF PinOfShared(c)
         THEN /\ private' = [private EXCEPT ![at] = c]
              /\ recorded' = [recorded EXCEPT ![at] = c]
              /\ Next1 /\ UNCHANGED staging
         ELSE Stop("refused") /\ UNCHANGED <<at, private, recorded>>
    /\ UNCHANGED <<origin, past, pin, hash, prepared, tampers>>

\* _validate_artifact of a declared directory reads the manifest, then the data.
HashManifest ==
    /\ pc = "member" /\ at \in Index /\ Twins = {} /\ Source \notin Live
    /\ hash' = [hash EXCEPT !.manifest = origin[Source].manifest] /\ pc' = "hash"
    /\ UNCHANGED <<origin, past, pin, at, staging, private, recorded, prepared, tampers>>

HashData ==
    LET c == [hash EXCEPT !.blob = origin[Source].blob] IN
    /\ pc = "hash"
    /\ hash' = c
    /\ IF Valid(Source, c) /\ PinMatches(c) THEN pc' = "copy" /\ UNCHANGED staging
       ELSE Stop("refused")
    /\ UNCHANGED <<origin, past, pin, at, private, recorded, prepared, tampers>>

\* _snapshot_artifact copies the files one by one into a staging directory.
CopyManifest ==
    /\ pc = "copy"
    /\ staging' = [staging EXCEPT !.manifest = origin[Source].manifest] /\ pc' = "copied"
    /\ UNCHANGED <<origin, past, pin, at, hash, private, recorded, prepared, tampers>>

CopyTrusted(c) == TRUE                    \* mutant: the copy is not hashed again
CopyMatches(c) == Valid(Source, c) /\ c = hash

\* The staging copy is validated and hashed like the original, then it appears
\* under its name; a copy that differs is removed.
CopyData ==
    LET c == [staging EXCEPT !.blob = origin[Source].blob] IN
    /\ pc = "copied"
    /\ IF CopyMatches(c)
       THEN /\ private' = [private EXCEPT ![at] = c]
            /\ recorded' = [recorded EXCEPT ![at] = c]
            /\ staging' = NoContents /\ Next1
       ELSE Stop("refused") /\ UNCHANGED <<at, private, recorded>>
    /\ UNCHANGED <<origin, past, pin, hash, prepared, tampers>>

\* _unwrap_predictor: a wrapper that was changed in any way is not looked through.
Unwrap ==
    /\ pc = "member" /\ at \in Index /\ Source \in Live
    /\ Stop("unavailable") \/ (pc' = "clone" /\ UNCHANGED staging)
    /\ UNCHANGED <<origin, past, pin, at, hash, private, recorded, prepared, tampers>>

\* _known_model: dispatch, hooks and modes are examined, state_dict is cloned,
CloneState ==
    /\ pc = "clone"
    /\ \/ Stop("unavailable")
       \/ staging' = origin[Source] /\ pc' = "schema"
    /\ UNCHANGED <<origin, past, pin, at, hash, private, recorded, prepared, tampers>>

\* layers and dimensions must be the exporter's,
CheckSchema ==
    /\ pc = "schema"
    /\ Stop("unavailable") \/ (pc' = "graph" /\ UNCHANGED staging)
    /\ UNCHANGED <<origin, past, pin, at, hash, private, recorded, prepared, tampers>>

\* and so must the traced forward graph.
CheckGraph ==
    /\ pc = "graph"
    /\ Stop("unavailable") \/ (pc' = "check" /\ UNCHANGED staging)
    /\ UNCHANGED <<origin, past, pin, at, hash, private, recorded, prepared, tampers>>

AnyForward(c) == TRUE                     \* mutant: no functional check
SameForward(c) == c = staging

\* Then the parameters are cloned again and the module's own forward, on these,
\* is compared with the exporter's semantics on the first clone.
CheckForward ==
    /\ pc = "check"
    /\ IF SameForward(origin[Source]) THEN pc' = "export" /\ UNCHANGED staging
       ELSE Stop("unavailable")
    /\ hash' = origin[Source]
    /\ UNCHANGED <<origin, past, pin, at, private, recorded, prepared, tampers>>

\* The exporter runs in a process of its own, on the saved clone.
Export ==
    /\ pc = "export"
    /\ \/ Stop("refused") /\ UNCHANGED <<at, private, recorded>>
       \/ /\ private' = [private EXCEPT ![at] = staging]
          /\ recorded' = [recorded EXCEPT ![at] = staging]
          /\ staging' = NoContents /\ Next1
    /\ UNCHANGED <<origin, past, pin, hash, prepared, tampers>>

\* ensemble.json names the members with their hashes.
WriteManifest ==
    /\ pc = "member" /\ at \notin Index
    /\ pc' = "ensemble"
    /\ UNCHANGED <<origin, past, pin, at, hash, staging, private, recorded, prepared, tampers>>

SameDirectory(i, j) == i = j \/ (Members[i] = Members[j] /\ Members[i] \in Shareable)

\* Somebody writes into the run directory.
Tamper(i) ==
    /\ pc \in {"member", "ensemble", "verify"} /\ private[i] # NoContents
    /\ tampers < MaxTampers /\ tampers' = tampers + 1
    /\ private' = [j \in Index |-> IF SameDirectory(i, j) /\ private[j] # NoContents
                       THEN [private[j] EXCEPT !.blob = MaxEdits + tampers + 1] ELSE private[j]]
    /\ UNCHANGED <<origin, past, pin, pc, at, hash, staging, recorded, prepared>>

AnyMembers == TRUE                        \* mutant: members are not compared with the manifest
MembersMatch == private = recorded

\* _validate_ensemble hashes all members again.
ValidateEnsemble ==
    /\ pc = "ensemble"
    /\ IF MembersMatch THEN pc' = "verify" /\ prepared' = private /\ UNCHANGED staging
       ELSE Stop("refused") /\ UNCHANGED prepared
    /\ UNCHANGED <<origin, past, pin, at, hash, private, recorded, tampers>>

Unverified == TRUE                        \* mutant: nothing is hashed before the launch
Verified == MembersMatch /\ private = prepared

\* verify_prepared_model, just before the workers start.
VerifyAndLaunch ==
    /\ pc = "verify"
    /\ Stop(IF Verified THEN "launched" ELSE "refused")
    /\ UNCHANGED <<origin, past, pin, at, hash, private, recorded, prepared, tampers>>

Next ==
    \/ \E s \in Sources, f \in Files : Rewrite(s, f)
    \/ \E i \in Index : Tamper(i)
    \/ Reuse \/ HashManifest \/ HashData \/ CopyManifest \/ CopyData
    \/ Unwrap \/ CloneState \/ CheckSchema \/ CheckGraph \/ CheckForward \/ Export
    \/ WriteManifest \/ ValidateEnsemble \/ VerifyAndLaunch

Spec == Init /\ [][Next]_vars

----------------------------------------------------------------------------
(* Properties                                                               *)

Launched == pc = "launched"

\* A member runs with what its source held at one moment, although the files
\* were read one by one, twice, while they were being rewritten: the second
\* hash must equal the first (models.py:323).
OneMoment == Launched => \A i \in Index : private[i] \in past[Members[i]]

\* The parts of a bound bundle come from the same version (cube555_artifacts.py:115).
WholeBundles ==
    Launched => \A i \in Index : Members[i] \in Bundles => private[i].manifest = private[i].blob

\* A pinned member runs with what it was pinned to or not at all, heads that
\* share another one's copy included (models.py:736, 760).
PinsHold == Launched => \A i \in Index : pin[i] \in {NoContents, private[i]}

\* What runs is what was frozen: neither a later change of the original nor a
\* write into the run directory gets through (models.py:147).
FrozenRuns == Launched => private = recorded

\* A live module is exported from weights whose forward was compared
\* (models.py:586-594).
ExportedWasChecked == pc = "export" => staging = hash

\* Heads of one shared bundle run with one and the same copy (models.py:744).
OneCopy ==
    Launched => \A i, j \in Index :
        (Members[i] = Members[j] /\ Members[i] \in Shareable) => private[i] = private[j]
=============================================================================
