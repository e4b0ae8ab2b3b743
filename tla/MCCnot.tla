-------------------------------- MODULE MCCnot --------------------------------
(***************************************************************************)
(* The CNOT search on three wires.  Scores are a few small tables, with     *)
(* ties; the owner of a matrix is a hash of its rows.                       *)
(***************************************************************************)
EXTENDS CnotSearch

\* A row as a number, and a matrix as the sum of its rows, weighted.
Bits(row) == (IF 0 \in row THEN 1 ELSE 0) + (IF 1 \in row THEN 2 ELSE 0) + (IF 2 \in row THEN 4 ELSE 0)
Hash(a, x) == x * Bits(a[0]) + (x + 2) * Bits(a[1]) + (x + 5) * Bits(a[2])

MCRating(z, a, m) == IF z = 0 THEN 0 ELSE (Hash(a, z) + m * (z + 1)) % 5
MCValue(z, a) == IF z = 0 THEN 0 ELSE Hash(a, z + 1) % 4
MCOwner(a) == Hash(a, 1) % Size

Apply(moves) == Replay(moves)
MCRoots == {Identity, Apply(<<0>>), Apply(<<0, 3, 4>>), Apply(<<1, 2, 5, 0>>), Apply(<<2, 0, 3, 5, 1>>)}

MCSettings ==
    {[depth |-> 0, width |-> 1, shortlist |-> 1, mode |-> "qhat"],
     [depth |-> 4, width |-> 1, shortlist |-> 1, mode |-> "qhat"],
     [depth |-> 3, width |-> 2, shortlist |-> 6, mode |-> "qhat"],
     [depth |-> 5, width |-> 3, shortlist |-> 4, mode |-> "proposal"],
     [depth |-> 4, width |-> 4, shortlist |-> 2, mode |-> "qhat"]}

----------------------------------------------------------------------------
(* Properties                                                               *)

\* The slot that the record of a slot came from, layer by layer.
RecordOf(layer, slot) ==
    LET r == Holder(slot, common[0].ledger[layer]) IN
    records[r][layer][slot - First(r, common[0].ledger[layer]) + 1]
PathTo[layer \in Nat, slot \in Nat] ==
    IF layer = 0 THEN <<>>
    ELSE LET e == RecordOf(layer, slot) IN Append(PathTo[layer - 1, e.from], e.move)

Layer == Len(common[0].ledger)
BeamSize(layer) == IF layer = 0 THEN 1 ELSE common[0].ledger[layer]
Slots(layer) == 0..(BeamSize(layer) - 1)
Reached(path) == FoldLeft(Child, root, path)
Kept == UNION {{Reached(PathTo[l, s]) : s \in Slots(l)} : l \in 0..Layer}
StateIn(slot) ==
    LET r == Holder(slot, BeamSize(Layer)) IN parents[r][slot - First(r, BeamSize(Layer)) + 1]
BeamNow ==
    [i \in 1..BeamSize(Layer) |-> [state |-> StateIn(i - 1), path |-> PathTo[Layer, i - 1]]]

\* Where the search looks for something it is: every slice has its part of the
\* beam and of the order of the paths, the record of a slot at its holder leads
\* to the state of that slot, and a matrix that was kept is closed at its owner
\* (cnot.py:138-149, 205-231).
HeldWhereSought ==
    (\A r \in Ranks : at[r] \in {"goal", "trace", "radix", "exhausted"}) =>
        /\ \A r \in Ranks :
              /\ parents[r] # <<>> => begin[r] = First(r, BeamSize(Layer))
              /\ Len(parents[r]) = Cardinality({s \in Slots(Layer) : Holder(s, BeamSize(Layer)) = r})
        /\ \A s \in Slots(Layer) : Reached(PathTo[Layer, s]) = StateIn(s)
        /\ LET kept == Kept IN \A r \in Ranks : closed[r] = {a \in kept : Owner(a) = r}

\* The ranks together do what one place would do with the whole beam: the same
\* beams in the same order, and the same answer (cnot.py:193-232).
Beam == INSTANCE CnotBeam WITH
    wanted <- asked[0], step <- common[0].step, beam <- BeamNow, known <- Kept,
    answer <- [status |-> IF at[0] \in Ends THEN at[0] ELSE "searching",
               gates |-> IF at[0] = "solved" THEN common[0].gates ELSE <<>>]
ImplementsCnotBeam == Beam!Spec

\* Every rank returns or raises, whatever fails and however it was started.
EveryRankEnds == <>(\A r \in Ranks : at[r] \in Ends)
===============================================================================
