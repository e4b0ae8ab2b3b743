----------------------------- MODULE Candidates -----------------------------
(***************************************************************************)
(* The data every stage of a search depth handles, reduced to what the     *)
(* stages tell apart.  A candidate (CandidateMeta) is a natural number      *)
(* whose order is the tie-break of the reductions (parent index, then       *)
(* route); it has a score, the state it leads to (the 128-bit hash) and,    *)
(* through that state, the logical shard that owns it.                      *)
(***************************************************************************)
EXTENDS Integers, FiniteSets

CONSTANTS
    Cand,       \* the candidates one search generates
    Score,      \* Score[c]: its score key, smaller is better
    StateOf,    \* StateOf[c]: the state it leads to (Hash128)
    Shard,      \* the logical shards of a rank
    ShardOf,    \* ShardOf[s]: the logical shard that owns state s
    BeamWidth,  \* global_beam_width_effective
    NoThreshold \* UINT32_THRESHOLD_MAX: no candidate scores as badly

ASSUME CandAssumption ==
    /\ IsFiniteSet(Cand) /\ Cand \subseteq Nat
    /\ NoThreshold \in Nat
    /\ \A c \in Cand : Score[c] \in Nat /\ Score[c] < NoThreshold

ASSUME ShardAssumption ==
    /\ IsFiniteSet(Shard) /\ Shard # {}
    /\ \A c \in Cand : ShardOf[StateOf[c]] \in Shard

ASSUME WidthAssumption == BeamWidth \in Nat \ {0}

Scores == {Score[c] : c \in Cand}

States(S) == {StateOf[c] : c \in S}

\* The order of Stream4BestCandidate: score, then parent index and route.
Better(c, d) == \/ Score[c] < Score[d]
                \/ Score[c] = Score[d] /\ c <= d

\* What a sort-by-hash followed by a best-of-run reduction leaves of S.
BestPerState(S) ==
    {c \in S : \A d \in S : StateOf[d] = StateOf[c] => Better(c, d)}

\* The rows of S a threshold comparison keeps; ties with it survive.
AtMost(S, t) == {c \in S : Score[c] <= t}

InShard(S, l) == {c \in S : ShardOf[StateOf[c]] = l}

Smaller(m, n) == IF m <= n THEN m ELSE n

\* F is a correct next beam for the generated candidates G: as many distinct
\* states as there are, up to the beam width, each by its best candidate, and
\* no state left out has a better candidate than a state taken.
IsBeamOf(F, G) ==
    /\ F \subseteq BestPerState(G)
    /\ Cardinality(F) = Smaller(BeamWidth, Cardinality(States(G)))
    /\ \A f \in F, c \in BestPerState(G) \ F : Score[f] <= Score[c]
=============================================================================
