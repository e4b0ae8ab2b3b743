--------------------------- MODULE CandidateProofs ---------------------------
(***************************************************************************)
(* What the reductions of a search depth do to its candidates, for every    *)
(* set of them: the order of Stream4BestCandidate has a least candidate per *)
(* state, and a reduction to it loses no state and keeps no state twice.    *)
(***************************************************************************)
EXTENDS Candidates, FiniteSetTheorems, WellFoundedInduction, TLAPS

\* No two rows of S lead to the same state.
OnePerState(S) == \A c, d \in S : StateOf[c] = StateOf[d] => c = d

\* Row h stands for candidate c: the same state, and no worse.
StandsFor(h, c) == StateOf[h] = StateOf[c] /\ Better(h, c)
-----------------------------------------------------------------------------
LEMMA LeastNatural ==
    ASSUME NEW A \in SUBSET Nat, A # {}
    PROVE  \E m \in A : \A n \in A : m <= n
<1> DEFINE Below == {0..n : n \in A}
<1>1. Below \subseteq FiniteSubsetsOf(Nat) /\ Below # {}
  <2>1. \A n \in A : IsFiniteSet(0..n) /\ 0..n \subseteq Nat
    BY FS_Interval
  <2> QED
    BY <2>1 DEF FiniteSubsetsOf
<1>2. PICK T \in Below : \A U \in Below : <<U, T>> \notin StrictSubsetOrdering(Nat)
  <2> HIDE DEF Below
  <2> QED
    BY <1>1, FS_StrictSubsetOrderingWellFounded, WFMin
<1>3. PICK m \in A : T = 0..m
  OBVIOUS
<1>4. ASSUME NEW n \in A, n < m PROVE FALSE
  <2>1. 0..n \subseteq 0..m /\ 0..n # 0..m
    <3>1. m \in 0..m /\ m \notin 0..n /\ \A k \in 0..n : k \in 0..m
      BY <1>4
    <3> QED
      BY <3>1
  <2>2. 0..n \in Below /\ 0..n \in SUBSET Nat /\ 0..m \in SUBSET Nat
    OBVIOUS
  <2> QED
    BY <1>2, <1>3, <2>1, <2>2 DEF StrictSubsetOrdering
<1> QED
  BY <1>3, <1>4

LEMMA ScoresBounded == Scores \in SUBSET Nat /\ \A s \in Scores : s < NoThreshold
  BY CandAssumption DEF Scores

LEMMA RowsFinite ==
    ASSUME NEW S \in SUBSET Cand
    PROVE  IsFiniteSet(S) /\ Cardinality(S) \in Nat
  BY CandAssumption, FS_Subset, FS_CardinalityType

\* Two sets of rows together are no more than both.
LEMMA UnionBound ==
    ASSUME NEW S \in SUBSET Cand, NEW T \in SUBSET Cand
    PROVE  Cardinality(S \cup T) <= Cardinality(S) + Cardinality(T)
<1>1. IsFiniteSet(S) /\ IsFiniteSet(T) /\ IsFiniteSet(S \cap T)
  BY RowsFinite
<1>2. Cardinality(S \cup T) = Cardinality(S) + Cardinality(T) - Cardinality(S \cap T)
  BY <1>1, FS_Union
<1> QED
  BY <1>1, <1>2, FS_CardinalityType

LEMMA ReductionsAreRows ==
    ASSUME NEW S \in SUBSET Cand
    PROVE  /\ BestPerState(S) \subseteq Cand
           /\ \A t : AtMost(S, t) \subseteq Cand /\ BestPerState(AtMost(S, t)) \subseteq Cand
           /\ \A l : InShard(S, l) \subseteq Cand
  BY DEF BestPerState, AtMost, InShard
-----------------------------------------------------------------------------
(* The order of the candidates of a state.                                 *)

LEMMA BetterOrder ==
    ASSUME NEW a \in Cand, NEW b \in Cand, NEW c \in Cand
    PROVE  /\ Better(a, a)
           /\ Better(a, b) /\ Better(b, c) => Better(a, c)
           /\ Better(a, b) /\ Better(b, a) => a = b
           /\ Better(a, b) => Score[a] <= Score[b]
<1>1. a \in Nat /\ b \in Nat /\ c \in Nat /\ Score[a] \in Nat /\ Score[b] \in Nat /\ Score[c] \in Nat
  BY CandAssumption
<1> QED
  BY <1>1 DEF Better

\* Every state of S has a best candidate in S.
LEMMA BestExists ==
    ASSUME NEW S \in SUBSET Cand, NEW c \in S
    PROVE  \E h \in BestPerState(S) : StandsFor(h, c)
<1> DEFINE T == {d \in S : StateOf[d] = StateOf[c]}
           A == {Score[d] : d \in T}
<1>1. \A d \in S : d \in Nat /\ Score[d] \in Nat
  BY CandAssumption
<1>2. PICK m \in A : \A n \in A : m <= n
  <2>1. A \in SUBSET Nat /\ A # {}
    BY <1>1
  <2> HIDE DEF A
  <2> QED
    BY <2>1, LeastNatural
<1> DEFINE B == {d \in T : Score[d] = m}
<1>3. PICK h \in B : \A d \in B : h <= d
  <2>1. B \in SUBSET Nat /\ B # {}
    BY <1>1, <1>2
  <2> HIDE DEF B
  <2> QED
    BY <2>1, LeastNatural
<1>4. h \in S /\ StateOf[h] = StateOf[c] /\ Score[h] = m
  BY <1>3
<1>5. ASSUME NEW d \in S, StateOf[d] = StateOf[c] PROVE Better(h, d)
  <2>1. m <= Score[d] /\ (Score[d] = m => h <= d)
    BY <1>2, <1>3, <1>5
  <2>2. m \in Nat /\ Score[d] \in Nat
    BY <1>1, <1>4
  <2> QED
    BY <1>4, <2>1, <2>2 DEF Better
<1>6. h \in BestPerState(S)
  BY <1>4, <1>5 DEF BestPerState
<1> QED
  BY <1>4, <1>5, <1>6 DEF StandsFor

LEMMA BestIsUnique ==
    ASSUME NEW S \in SUBSET Cand
    PROVE  OnePerState(BestPerState(S))
<1> SUFFICES ASSUME NEW c \in BestPerState(S), NEW d \in BestPerState(S),
                    StateOf[c] = StateOf[d]
             PROVE  c = d
  BY DEF OnePerState
<1>1. c \in Cand /\ d \in Cand /\ Better(c, d) /\ Better(d, c)
  BY DEF BestPerState
<1> QED
  BY <1>1, BetterOrder

\* What stands for a row that stands for c stands for c.
LEMMA StandsInTurn ==
    ASSUME NEW a \in Cand, NEW b \in Cand, NEW c \in Cand,
           StandsFor(a, b), StandsFor(b, c)
    PROVE  StandsFor(a, c)
  BY BetterOrder DEF StandsFor

LEMMA StatesOfBest ==
    ASSUME NEW S \in SUBSET Cand
    PROVE  States(BestPerState(S)) = States(S)
<1>1. BestPerState(S) \subseteq S
  BY DEF BestPerState
<1>2. \A c \in S : \E h \in BestPerState(S) : StateOf[h] = StateOf[c]
  BY BestExists DEF StandsFor
<1> QED
  BY <1>1, <1>2 DEF States

LEMMA StatesFinite ==
    ASSUME NEW S \in SUBSET Cand
    PROVE  IsFiniteSet(States(S)) /\ Cardinality(States(S)) \in Nat
<1> DEFINE f == [c \in S |-> StateOf[c]]
<1>1. f \in Surjection(S, States(S))
  BY DEF Surjection, States
<1>2. IsFiniteSet(S)
  BY RowsFinite
<1> QED
  BY <1>1, <1>2, FS_Surjection, FS_CardinalityType

\* Rows of distinct states are as many as the states they lead to.
LEMMA StatesCount ==
    ASSUME NEW S \in SUBSET Cand, OnePerState(S)
    PROVE  Cardinality(States(S)) = Cardinality(S)
<1> DEFINE f == [c \in S |-> StateOf[c]]
<1>1. f \in Bijection(S, States(S))
  BY DEF Bijection, Injection, IsInjective, Surjection, States, OnePerState
<1>2. ExistsBijection(S, States(S))
  BY <1>1 DEF ExistsBijection
<1>3. IsFiniteSet(S)
  BY RowsFinite
<1> QED
  BY <1>2, <1>3, FS_Bijection

LEMMA StatesGrow ==
    ASSUME NEW S \in SUBSET Cand, NEW T \in SUBSET S
    PROVE  Cardinality(States(T)) <= Cardinality(States(S))
<1>1. States(T) \in SUBSET States(S)
  BY DEF States
<1> QED
  BY <1>1, StatesFinite, FS_Subset
-----------------------------------------------------------------------------
(* What a threshold and a selection leave of a depth.                      *)

\* The states at or below t are those of the best rows at or below t.
LEMMA StatesAtMost ==
    ASSUME NEW G \in SUBSET Cand, NEW t \in Nat
    PROVE  Cardinality(States(AtMost(G, t))) = Cardinality(AtMost(BestPerState(G), t))
<1>1. /\ AtMost(BestPerState(G), t) \in SUBSET AtMost(G, t) /\ AtMost(G, t) \in SUBSET Cand
      /\ AtMost(BestPerState(G), t) \in SUBSET Cand
  BY DEF AtMost, BestPerState
<1>2. OnePerState(AtMost(BestPerState(G), t))
  BY BestIsUnique DEF OnePerState, AtMost
<1>3. ASSUME NEW c \in AtMost(G, t)
      PROVE  \E h \in AtMost(BestPerState(G), t) : StateOf[h] = StateOf[c]
  <2>1. c \in G /\ c \in Cand /\ Score[c] <= t
    BY DEF AtMost
  <2>2. PICK h \in BestPerState(G) : StandsFor(h, c)
    BY <2>1, BestExists
  <2>3. h \in Cand
    BY DEF BestPerState
  <2>4. Score[h] <= Score[c]
    BY <2>1, <2>2, <2>3, BetterOrder DEF StandsFor
  <2>5. Score[h] <= t
    <3>1. Score[h] \in Nat /\ Score[c] \in Nat
      BY <2>1, <2>3, CandAssumption
    <3> QED
      BY <2>1, <2>4, <3>1
  <2> QED
    BY <2>2, <2>5 DEF AtMost, StandsFor
<1>4. States(AtMost(BestPerState(G), t)) = States(AtMost(G, t))
  BY <1>1, <1>3 DEF States
<1> QED
  BY <1>1, <1>2, <1>4, StatesCount

\* If every row of G at or below t has one in H that stands for it, H has the best
\* rows of G at or below t.
LEMMA KeptIsBest ==
    ASSUME NEW G \in SUBSET Cand, NEW H \in SUBSET G, NEW t \in Nat,
           \A c \in G : Score[c] > t \/ \E h \in H : StandsFor(h, c)
    PROVE  AtMost(BestPerState(H), t) = AtMost(BestPerState(G), t)
<1>1. ASSUME NEW c \in BestPerState(G), Score[c] <= t PROVE c \in H
  <2>1. c \in Cand /\ c \in G /\ Score[c] \in Nat
    BY CandAssumption DEF BestPerState
  <2>2. PICK h \in H : StandsFor(h, c)
    BY <1>1, <2>1
  <2>3. Better(c, h)
    BY <2>2 DEF BestPerState, StandsFor
  <2>4. h = c
    BY <2>1, <2>2, <2>3, BetterOrder DEF StandsFor
  <2> QED
    BY <2>4
<1>2. ASSUME NEW c \in BestPerState(G), Score[c] <= t PROVE c \in BestPerState(H)
  BY <1>1, <1>2 DEF BestPerState
<1>3. ASSUME NEW c \in BestPerState(H), Score[c] <= t PROVE c \in BestPerState(G)
  <2>1. c \in H /\ c \in Cand /\ Score[c] \in Nat
    BY CandAssumption DEF BestPerState
  <2>2. PICK b \in BestPerState(G) : StandsFor(b, c)
    BY <2>1, BestExists
  <2>3. b \in Cand /\ Score[b] \in Nat
    BY CandAssumption DEF BestPerState
  <2>4. Score[b] <= t
    <3>1. Score[b] <= Score[c]
      BY <2>1, <2>2, <2>3, BetterOrder DEF StandsFor
    <3> QED
      BY <1>3, <2>1, <2>3, <3>1
  <2>5. b \in H
    BY <1>1, <2>4
  <2>6. Better(c, b)
    BY <2>2, <2>5 DEF BestPerState, StandsFor
  <2>7. b = c
    BY <2>1, <2>2, <2>3, <2>6, BetterOrder DEF StandsFor
  <2> QED
    BY <2>7
<1> QED
  BY <1>2, <1>3 DEF AtMost

\* A selection at score t from rows U that agree with the best of G at or below t
\* is a beam of G, if it fills the beam or takes the best of every state.
LEMMA SelectionIsBeam ==
    ASSUME NEW G \in SUBSET Cand, NEW U \in SUBSET Cand, NEW t \in Nat, NEW F,
           AtMost(U, t) = AtMost(BestPerState(G), t),
           {c \in U : Score[c] < t} \subseteq F, F \subseteq AtMost(U, t),
           Cardinality(F) = Smaller(BeamWidth, Cardinality(AtMost(U, t))),
           Cardinality(AtMost(U, t)) >= BeamWidth \/ AtMost(U, t) = BestPerState(G)
    PROVE  IsBeamOf(F, G)
<1> DEFINE B == BestPerState(G)
           K == AtMost(U, t)
<1>1. B \in SUBSET Cand /\ K \in SUBSET B /\ K \in SUBSET Cand
  BY DEF BestPerState, AtMost
<1>2. Cardinality(B) = Cardinality(States(G))
  BY <1>1, BestIsUnique, StatesCount, StatesOfBest
<1>3. F \subseteq B
  BY <1>1
<1>4. Cardinality(F) = Smaller(BeamWidth, Cardinality(States(G)))
  <2>1. Cardinality(K) <= Cardinality(B) /\ Cardinality(K) \in Nat /\ Cardinality(B) \in Nat
    BY <1>1, RowsFinite, FS_Subset
  <2> HIDE DEF B, K
  <2>2. CASE Cardinality(K) >= BeamWidth
    <3>1. Cardinality(F) = Smaller(BeamWidth, Cardinality(K))
      BY DEF K
    <3> QED
      BY <1>2, <2>1, <2>2, <3>1, WidthAssumption DEF Smaller
  <2>3. CASE K = B
    BY <1>2, <2>3 DEF K
  <2> QED
    BY <2>2, <2>3 DEF K, B
<1>5. ASSUME NEW f \in F, NEW c \in B \ F PROVE Score[f] <= Score[c]
  <2>1. Score[f] <= t /\ Score[f] \in Nat /\ Score[c] \in Nat /\ c \in B
    BY <1>1, CandAssumption DEF AtMost
  <2>2. ~(Score[c] < t)
    <3>1. SUFFICES ASSUME Score[c] < t PROVE FALSE
      OBVIOUS
    <3>2. c \in AtMost(B, t)
      BY <2>1, <3>1 DEF AtMost
    <3>3. c \in U
      BY <3>2 DEF AtMost
    <3> QED
      BY <1>5, <3>1, <3>3
  <2> QED
    BY <2>1, <2>2
<1> QED
  BY <1>3, <1>4, <1>5 DEF IsBeamOf
=============================================================================
