------------------------------ MODULE CnotDomain ------------------------------
(***************************************************************************)
(* The packed CNOT domain (cnot_native.py, cnot.py): invertible matrices    *)
(* over GF(2) on N wires, the physical moves, and how a parent's moves are  *)
(* ranked.  A matrix is a function from wires to the set of columns that    *)
(* are 1 in that row; packing and padding are left out.                     *)
(***************************************************************************)
EXTENDS Integers, FiniteSets, SequencesExt

CONSTANTS
    N,                \* wires
    Rating(_, _, _),    \* Rating(z, a, m): the action score scorer z gives move m at matrix a
    Value(_, _)       \* Value(z, a): the state score, smaller is better

Wires == 0..(N - 1)
Alphabet == N * (N - 1)
MoveIds == 0..(Alphabet - 1)

Identity == [w \in Wires |-> {w}]
Xor(a, b) == (a \ b) \cup (b \ a)

\* Moves enumerate controls first and skip the diagonal.
ControlOf(m) == m \div (N - 1)
TargetOf(m) == LET slot == m % (N - 1) IN IF slot >= ControlOf(m) THEN slot + 1 ELSE slot
MoveOf(c, t) == c * (N - 1) + (IF t > c THEN t - 1 ELSE t)

Child(a, m) == [a EXCEPT ![TargetOf(m)] = Xor(@, a[ControlOf(m)])]

\* The matrix that a construction, applied to the identity, yields.
Replay(gates) == FoldLeft(Child, Identity, gates)

\* The ways to reach the identity in one gate: one row differs from it, by
\* another row.
Completions(a) ==
    LET changed == {t \in Wires : a[t] # {t}} IN
    {m \in MoveIds : \E t \in changed, c \in Wires :
        changed = {t} /\ c # t /\ a[c] = Xor(a[t], {t}) /\ m = MoveOf(c, t)}

\* How many moves a parent prefers to m: by score, ties by id; by id alone when
\* all are taken.
Place(z, wanted, a, m) ==
    IF wanted.shortlist >= Alphabet THEN m
    ELSE Cardinality({x \in MoveIds :
            LET s == Rating(z, a, x) t == Rating(z, a, m) IN
            (IF wanted.mode = "proposal" THEN s > t ELSE s < t) \/ (s = t /\ x < m)})
===============================================================================
