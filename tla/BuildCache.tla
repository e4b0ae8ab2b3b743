----------------------------- MODULE BuildCache ------------------------------
(***************************************************************************)
(* The cache of built runners (build.ensure_runner) shared by processes on  *)
(* one machine, and what each of them does with the runner it was given:    *)
(* the private snapshot taken before it is executed (backend.py), or the    *)
(* copy prepare_native keeps.  Sources may be edited while a build runs,    *)
(* builds may fail, and a process may be killed anywhere.                   *)
(***************************************************************************)
EXTENDS Naturals, FiniteSets

CONSTANTS
    Procs,
    MaxEdits,      \* bound: times the source tree is edited
    MaxUpgrades,   \* bound: times the installed NCCL is replaced
    MayCrash       \* processes that may be killed

NoProc == "none"

BuildAssumption ==
    /\ MaxEdits \in Nat /\ MaxUpgrades \in Nat
    /\ MayCrash \subseteq Procs /\ NoProc \notin Procs

\* What the key of a build directory names: the contents of the source trees
\* and the installed NCCL.  Edits never revert.
Versions == [source : 0..MaxEdits, nccl : 0..MaxUpgrades]
Torn == [source |-> MaxEdits + 1, nccl |-> 0]
NoVersion == Torn

\* An executable: who linked it, and from which contents (Torn while it is
\* being written, or when the sources moved under the compiler).
Binaries == [by : Procs, from : Versions \cup {Torn}]
Absent == [by |-> NoProc, from |-> Torn]

VARIABLES
    source,        \* the source trees and the installed library
    runner,        \* runner[v]: the executable in the build directory of key v
    meta,          \* meta[v]: the executable whose hash native-build.json records
    lock,          \* who holds the lock directory of key v
    pc, key, expected, snapshot,
    library        \* the private copy of NCCL, by version

vars == <<source, runner, meta, lock, pc, key, expected, snapshot, library>>

TypeOK ==
    /\ source \in Versions
    /\ runner \in [Versions -> Binaries \cup {Absent}]
    /\ meta \in [Versions -> Binaries \cup {Absent}]
    /\ lock \in [Versions -> Procs \cup {NoProc}]
    /\ library \in [Procs -> 0..MaxUpgrades + 1]
    /\ pc \in [Procs -> {"tools", "digest", "cached", "validate", "lock", "configure", "link", "check",
                         "publish", "verify", "unlock", "copy", "hash", "library", "running",
                         "failed", "crashed"}]
    /\ key \in [Procs -> Versions \cup {NoVersion}]
    /\ expected \in [Procs -> Binaries \cup {Absent}]
    /\ snapshot \in [Procs -> Binaries \cup {Absent}]
    /\ \A p \in Procs : pc[p] \in {"digest", "cached", "lock"} =>
          expected[p] = Absent /\ snapshot[p] = Absent

Init ==
    /\ source = [source |-> 0, nccl |-> 0]
    /\ runner = [v \in Versions |-> Absent] /\ meta = [v \in Versions |-> Absent]
    /\ lock = [v \in Versions |-> NoProc]
    /\ pc = [p \in Procs |-> "tools"]
    /\ key = [p \in Procs |-> NoVersion]
    /\ expected = [p \in Procs |-> Absent] /\ snapshot = [p \in Procs |-> Absent]
    /\ library = [p \in Procs |-> MaxUpgrades + 1]

Goto(p, step) == pc' = [pc EXCEPT ![p] = step]

EditSource ==
    /\ source.source < MaxEdits
    /\ source' = [source EXCEPT !.source = @ + 1]
    /\ UNCHANGED <<runner, meta, lock, pc, key, expected, snapshot, library>>

UpgradeNccl ==
    /\ source.nccl < MaxUpgrades
    /\ source' = [source EXCEPT !.nccl = @ + 1]
    /\ UNCHANGED <<runner, meta, lock, pc, key, expected, snapshot, library>>

\* A missing tool, an unusable one, or no NCCL: nothing is touched.
FindTools(p) ==
    /\ pc[p] = "tools"
    /\ Goto(p, "digest") \/ Goto(p, "failed")
    /\ UNCHANGED <<source, runner, meta, lock, key, expected, snapshot, library>>

\* source_digest and the rest of the specification give the key.
Digest(p) ==
    /\ pc[p] = "digest"
    /\ key' = [key EXCEPT ![p] = source] /\ Goto(p, "cached")
    /\ UNCHANGED <<source, runner, meta, lock, expected, snapshot, library>>

LookUp(p) ==
    /\ pc[p] = "cached"
    /\ Goto(p, IF meta[key[p]] # Absent THEN "validate" ELSE "lock")
    /\ UNCHANGED <<source, runner, meta, lock, key, expected, snapshot, library>>

\* validate_runner: the executable has the hash the metadata records.
ValidIfPresent(v) == meta[v] # Absent     \* mutant: the hash is not compared
Valid(v) == meta[v] # Absent /\ runner[v] = meta[v]

Validate(p) ==
    /\ pc[p] = "validate"
    /\ IF Valid(key[p])
       THEN expected' = [expected EXCEPT ![p] = meta[key[p]]] /\ Goto(p, "copy")
       ELSE Goto(p, "failed") /\ UNCHANGED expected
    /\ UNCHANGED <<source, runner, meta, lock, key, snapshot, library>>

LockIgnored(v) == TRUE                    \* mutant: mkdir(exist_ok=True)
MayLock(v) == lock[v] = NoProc

Lock(p) ==
    /\ pc[p] = "lock"
    /\ IF MayLock(key[p])
       THEN lock' = [lock EXCEPT ![key[p]] = p] /\ Goto(p, "configure")
       ELSE Goto(p, "failed") /\ UNCHANGED lock
    /\ UNCHANGED <<source, runner, meta, key, expected, snapshot, library>>

\* The lookup is not repeated under the lock: the build tool may find nothing
\* to do, or relink an executable that was published meanwhile.
Configure(p) ==
    /\ pc[p] = "configure"
    /\ \/ Goto(p, "unlock") /\ UNCHANGED runner          \* the tool failed
       \/ /\ runner' = [runner EXCEPT ![key[p]] = [by |-> p, from |-> Torn]]
          /\ Goto(p, "link")
       \/ runner[key[p]].from = key[p] /\ Goto(p, "check") /\ UNCHANGED runner
    /\ UNCHANGED <<source, meta, lock, key, expected, snapshot, library>>

Link(p) ==
    /\ pc[p] = "link"
    /\ \/ Goto(p, "unlock") /\ UNCHANGED runner
       \/ /\ runner' = [runner EXCEPT ![key[p]] =
                [by |-> p, from |-> IF source = key[p] THEN key[p] ELSE Torn]]
          /\ Goto(p, "check")
    /\ UNCHANGED <<source, meta, lock, key, expected, snapshot, library>>

\* "source changed during native build; refusing ambiguous binary".  NCCL and
\* CUTLASS are compared in the same way.
SourceUnchecked(p) == TRUE                \* mutant: the digest is not taken again
BuildUnambiguous(p) == source = key[p]

CheckSource(p) ==
    /\ pc[p] = "check"
    /\ Goto(p, IF BuildUnambiguous(p) THEN "publish" ELSE "unlock")
    /\ UNCHANGED <<source, runner, meta, lock, key, expected, snapshot, library>>

Publish(p) ==
    /\ pc[p] = "publish"
    /\ meta' = [meta EXCEPT ![key[p]] = runner[key[p]]]
    /\ Goto(p, "verify")
    /\ UNCHANGED <<source, runner, lock, key, expected, snapshot, library>>

\* return runner, validate_runner(...), inside the try block.
VerifyBuilt(p) ==
    /\ pc[p] = "verify"
    /\ expected' = IF Valid(key[p]) THEN [expected EXCEPT ![p] = meta[key[p]]] ELSE expected
    /\ Goto(p, "unlock")
    /\ UNCHANGED <<source, runner, meta, lock, key, snapshot, library>>

ReleasedWhenBuilt(p) ==                   \* mutant: no finally
    IF expected[p] = Absent THEN lock ELSE [lock EXCEPT ![key[p]] = NoProc]
Released(p) == [lock EXCEPT ![key[p]] = NoProc]

Unlock(p) ==
    /\ pc[p] = "unlock"
    /\ lock' = Released(p)
    /\ Goto(p, IF expected[p] = Absent THEN "failed" ELSE "copy")
    /\ UNCHANGED <<source, runner, meta, key, expected, snapshot, library>>

\* The bytes are copied to a private directory, then hashed there.
CopyRunner(p) ==
    /\ pc[p] = "copy"
    /\ snapshot' = [snapshot EXCEPT ![p] = runner[key[p]]]
    /\ Goto(p, "hash")
    /\ UNCHANGED <<source, runner, meta, lock, key, expected, library>>

CopyTrusted(p) == TRUE                    \* mutant: the copy is not hashed
Accepts(p) == snapshot[p] = expected[p]

HashCopy(p) ==
    /\ pc[p] = "hash"
    /\ Goto(p, IF Accepts(p) THEN "library" ELSE "failed")
    /\ UNCHANGED <<source, runner, meta, lock, key, expected, snapshot, library>>

\* The library is copied and hashed in the same way.
LibraryTrusted(p) == TRUE                 \* mutant: the copy is not hashed
LibraryMatches(p) == source.nccl = key[p].nccl

CopyLibrary(p) ==
    /\ pc[p] = "library"
    /\ library' = [library EXCEPT ![p] = source.nccl]
    /\ Goto(p, IF LibraryMatches(p) THEN "running" ELSE "failed")
    /\ UNCHANGED <<source, runner, meta, lock, key, expected, snapshot>>

\* A failed caller may ask again; nothing of the failed attempt is kept.
Kept(p) == expected[p]                    \* mutant: the old validation is kept
Forgotten(p) == Absent

Retry(p) ==
    /\ pc[p] = "failed"
    /\ Goto(p, "tools")
    /\ expected' = [expected EXCEPT ![p] = Forgotten(p)]
    /\ snapshot' = [snapshot EXCEPT ![p] = Absent]
    /\ library' = [library EXCEPT ![p] = MaxUpgrades + 1]
    /\ UNCHANGED <<source, runner, meta, lock, key>>

Crash(p) ==
    /\ p \in MayCrash /\ pc[p] \notin {"running", "failed", "crashed"}
    /\ Goto(p, "crashed")
    /\ UNCHANGED <<source, runner, meta, lock, key, expected, snapshot, library>>

Step(p) ==
    \/ FindTools(p) \/ Digest(p) \/ LookUp(p) \/ Validate(p) \/ Lock(p) \/ Configure(p) \/ Link(p)
    \/ CheckSource(p) \/ Publish(p) \/ VerifyBuilt(p) \/ Unlock(p)
    \/ CopyRunner(p) \/ HashCopy(p) \/ CopyLibrary(p)

Next == EditSource \/ UpgradeNccl \/ \E p \in Procs : Step(p) \/ Retry(p) \/ Crash(p)

Spec == Init /\ [][Next]_vars

----------------------------------------------------------------------------
(* Properties                                                               *)

\* What a process executes is a complete executable built from the sources its
\* key names, whatever builders, edits and crashes did to the build directory
\* between its validation and its start (build.py:266, backend.py:59).
ExecutesItsSources ==
    \A p \in Procs : pc[p] = "running" => snapshot[p].from = key[p]

\* It runs with the NCCL it was compiled against, although the installed one may
\* be replaced at any time (backend.py:96).
RunsItsLibrary ==
    \A p \in Procs : pc[p] = "running" => library[p] = snapshot[p].from.nccl

\* No two processes write into one build directory at once (build.py:248).
OneBuilder ==
    \A p, q \in Procs : (p # q /\ key[p] = key[q]) =>
        ~({pc[p], pc[q]} \subseteq {"configure", "link", "check", "publish", "verify"})

\* Metadata never describes an executable of mixed or unfinished sources
\* (build.py:266-281).
MetadataOfWholeBuilds ==
    \A v \in Versions : meta[v] # Absent => meta[v].from = v

\* A lock without a living owner is left only by a process that was killed
\* (build.py:283).
LocksAreOwned ==
    \A v \in Versions : lock[v] # NoProc =>
        /\ key[lock[v]] = v
        /\ pc[lock[v]] \in {"configure", "link", "check", "publish", "verify", "unlock", "crashed"}
=============================================================================
