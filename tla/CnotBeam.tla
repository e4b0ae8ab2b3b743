------------------------------- MODULE CnotBeam -------------------------------
(***************************************************************************)
(* What the distributed CNOT search promises: a beam search in one place    *)
(* over one ordered beam.  Every entry carries the moves that lead to it.   *)
(***************************************************************************)
EXTENDS CnotDomain

CONSTANTS Roots, Scorers,
    Settings     \* [depth, width, shortlist, mode] of a search

VARIABLES
    root, scorer, wanted,        \* what was asked
    step, beam, known,           \* the layer, its beam in order, what was ever in a beam
    answer

beamVars == <<root, scorer, wanted, step, beam, known, answer>>

NoAnswer == [status |-> "searching", gates |-> <<>>]
Without(status) == [status |-> status, gates |-> <<>>]

Init ==
    /\ root \in Roots /\ scorer \in Scorers /\ wanted \in Settings
    /\ step = 0 /\ beam = <<[state |-> root, path |-> <<>>]>> /\ known = {root}
    /\ answer = NoAnswer

LexBefore(p, q) ==
    \E i \in DOMAIN p : p[i] < q[i] /\ \A j \in 1..(i - 1) : p[j] = q[j]

\* All ways to reach the identity from beam b with one more gate, as paths.
Solutions(b) ==
    UNION {{Append(b[i].path, m) : m \in {x \in MoveIds : Child(b[i].state, x) = Identity}}
             : i \in DOMAIN b}

\* The shortlisted children of a beam, with their turn: parents in beam order,
\* the moves of a parent in the order of its preference.
Offspring(b) ==
    UNION {{[turn |-> i * Alphabet + Place(scorer, wanted, b[i].state, m),
             state |-> Child(b[i].state, m), path |-> Append(b[i].path, m)]
              : m \in {x \in MoveIds : Place(scorer, wanted, b[i].state, x) < wanted.shortlist}}
             : i \in DOMAIN b}

\* Every state once that was in no beam, by the first way to it.
Distinct(old, children) ==
    {o \in children : o.state \notin old
        /\ \A p \in children : p.state = o.state => o.turn <= p.turn}

\* The best Width of them, by score and then by path.
Better(o, p) ==
    \/ Value(scorer, o.state) < Value(scorer, p.state)
    \/ Value(scorer, o.state) = Value(scorer, p.state) /\ LexBefore(o.path, p.path)
Best(candidates) ==
    LET place == [o \in candidates |-> Cardinality({p \in candidates : Better(p, o)})]
        size == Cardinality(candidates) IN
    [i \in 1..(IF size < wanted.width THEN size ELSE wanted.width) |->
        LET o == CHOOSE o \in candidates : place[o] = i - 1 IN [state |-> o.state, path |-> o.path]]
NextBeam == Best(Distinct(known, Offspring(beam)))

Ask == UNCHANGED <<root, scorer, wanted>>
Answer(a) == answer' = a /\ Ask /\ UNCHANGED <<step, beam, known>>

Solved == root = Identity /\ Answer([status |-> "solved", gates |-> <<>>])

\* The lexicographically first solution, as a construction from the identity.
Solve ==
    /\ root # Identity /\ step < wanted.depth
    /\ LET all == Solutions(beam) IN \E p \in all :
          /\ \A q \in all \ {p} : LexBefore(p, q)
          /\ Answer([status |-> "solved", gates |-> Reverse(p)])

GiveUp ==
    /\ root # Identity
    /\ Answer(Without("depth_limit"))
    /\ wanted.depth = 0 \/ (step + 1 = wanted.depth /\ Solutions(beam) = {})

GoesOn == root # Identity /\ step + 1 < wanted.depth /\ Solutions(beam) = {}

Exhaust == Answer(Without("exhausted")) /\ GoesOn /\ NextBeam = <<>>

Extend ==
    /\ answer' = answer /\ Ask /\ step' = step + 1
    /\ GoesOn
    /\ LET new == NextBeam IN
       /\ new # <<>> /\ beam' = new
       /\ known' = known \cup {new[i].state : i \in DOMAIN new}

\* A model, a limit or an input that a rank rejects ends the search without one.
Raise == Answer(Without("raised"))

Next ==
    /\ answer = NoAnswer
    /\ Solved \/ Solve \/ GiveUp \/ Exhaust \/ Extend \/ Raise

Spec == Init /\ [][Next]_beamVars
===============================================================================
