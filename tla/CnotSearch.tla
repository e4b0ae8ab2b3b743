------------------------------ MODULE CnotSearch ------------------------------
(***************************************************************************)
(* The distributed CNOT search (cnot.py, cnot_collectives.py,               *)
(* cnot_selection.py, cnot_stream5.py): every rank runs the same program    *)
(* on its slice of one beam and meets the others in collectives.            *)
(*                                                                         *)
(* A rank works alone until it posts what it brings to a collective; the    *)
(* collective takes place when all ranks wait in the same one, and each     *)
(* goes on with its result.  Ranks that wait in different collectives, or   *)
(* for a rank that has left, wait for ever.                                 *)
(***************************************************************************)
EXTENDS CnotDomain

CONSTANTS
    Size,               \* ranks of the world
    Roots, Scorers, Devices,
    Settings,           \* [depth, width, shortlist, mode] of a search
    Owner(_),           \* the rank that a matrix hashes to
    Limit,              \* rows that fit the offsets of Stream 5
    Base, ScoreDigits, WordDigits,   \* the radix of the cutoff, digits of its two keys
    MayFail,            \* ranks whose model, library or validation may fail
    MayDisagree,        \* ranks that may be started with other settings
    MayMisplace         \* ranks that may be on another CUDA device than their matrix

Ranks == 0..(Size - 1)

ASSUME CnotAssumption ==
    /\ N \in Nat \ {0, 1} /\ Size \in Nat \ {0} /\ Limit \in Nat
    /\ Settings \subseteq [depth : Nat, width : Nat \ {0}, shortlist : Nat \ {0},
                             mode : {"qhat", "proposal"}]
    /\ Base \in Nat \ {0, 1} /\ ScoreDigits \in Nat /\ WordDigits \in Nat
    /\ MayFail \subseteq Ranks /\ MayDisagree \subseteq Ranks /\ MayMisplace \subseteq Ranks
    /\ Devices \subseteq {"cpu", "cuda"}

VARIABLES
    root, scorer, device,   \* what every rank was given alike
    asked,      \* the settings each rank was given
    at,         \* the stage of a rank, or how it ended
    posted,     \* what it brings to the collective of that stage: <<>> or <<value>>
    common,     \* what it derived from collectives alone
    parents, lex, begin,   \* its slice of the beam, in slot order
    closed,     \* the matrices it owns that were ever in the beam
    rows,       \* the records it works on: candidates, then its part of the new beam
    due,        \* how many rows were announced to it
    chosen, boundary,      \* of the cutoff: taken, unresolved
    records     \* its slices of the history

inputs == <<root, scorer, device, asked>>
slice == <<parents, lex, begin, records>>
vars == <<inputs, at, posted, common, slice, closed, rows, due, chosen, boundary>>

\* A rank that is in one of these has returned, or raised.
Ends == {"solved", "exhausted", "depth_limit", "raised", "inconsistent"}

\* Known to every rank: the layer, the sizes of the beams, the state of the
\* cutoff, and the path while it is traced back.
Start == [step |-> 0, ledger |-> <<>>, total |-> 0, count |-> 1, pass |-> 0, remaining |-> 0,
          slot |-> 0, gates |-> <<>>, left |-> 0]

Init ==
    /\ root \in Roots /\ scorer \in Scorers /\ device \in Devices
    /\ asked \in [Ranks -> Settings]
    /\ \E wanted \in Settings : \A r \in Ranks \ MayDisagree : asked[r] = wanted
    /\ at = [r \in Ranks |-> "enter"] /\ posted = [r \in Ranks |-> <<>>]
    /\ common = [r \in Ranks |-> Start]
    /\ parents = [r \in Ranks |-> IF r = 0 THEN <<root>> ELSE <<>>]
    /\ lex = [r \in Ranks |-> IF r = 0 THEN <<0>> ELSE <<>>]
    /\ begin = [r \in Ranks |-> 0]
    /\ closed = [r \in Ranks |-> {}] /\ rows = [r \in Ranks |-> {}] /\ due = [r \in Ranks |-> 0]
    /\ chosen = [r \in Ranks |-> {}] /\ boundary = [r \in Ranks |-> {}]
    /\ records = [r \in Ranks |-> <<>>]

----------------------------------------------------------------------------
(* Where things are                                                         *)

\* The beam is cut into slices: who holds a slot, and where a slice begins.
Holder(slot, count) == (slot * Size) \div count
First(r, count) == (r * count + Size - 1) \div Size

\* The size of the beam that layer i of the history was expanded from.
Previous(ledger, i) == IF i = 1 THEN 1 ELSE ledger[i - 1]
Larger(a, b) == IF a > b THEN a ELSE b
Smaller(a, b) == IF a < b THEN a ELSE b

\* The slot of the i-th parent of a rank.
IndexInSlice(r, i) == i - 1             \* mutant: counted from its own slice
SlotOf(r, i) == begin[r] + i - 1

----------------------------------------------------------------------------
(* What a rank brings to a collective                                       *)

\* The completion of one of its parents that comes first, or none.
NoGoal == <<1000000, -1>>                                      \* 2**63 - 1
Goal(r) ==
    LET hits == {i \in DOMAIN parents[r] : Completions(parents[r][i]) # {}} IN
    IF hits = {} THEN NoGoal
    ELSE LET hit == CHOOSE i \in hits : \A j \in hits : lex[r][i] <= lex[r][j]
             move == CHOOSE m \in Completions(parents[r][hit]) : TRUE
         IN <<lex[r][hit] * Alphabet + move, SlotOf(r, hit)>>

\* The record of the slot that is traced, at the rank that holds it.
Edge(r) ==
    LET c == common[r] count == c.ledger[c.left] IN
    IF Holder(c.slot, count) # r THEN <<>>
    ELSE <<records[r][c.left][c.slot - First(r, count) + 1]>>

\* Rows to send: candidates to the owner of their matrix, winners to the slice
\* of their slot.
Target(leg, r, row) ==
    IF leg = "candidates" THEN Owner(row.state)
    ELSE Holder(row.slot, Larger(1, common[r].count))
SentTo(leg, r, q) == {row \in rows[r] : Target(leg, r, row) = q}

Digit(row, pass) ==
    IF pass < ScoreDigits
    THEN (Value(scorer, row.state) \div Base^(ScoreDigits - 1 - pass)) % Base
    ELSE (row.word \div Base^(WordDigits - 1 - (pass - ScoreDigits))) % Base
Histogram(r) ==
    [d \in 0..(Base - 1) |-> Cardinality({x \in boundary[r] : Digit(x, common[r].pass) = d})]

Scored(r) == {[value |-> Value(scorer, x.state), word |-> x.word] : x \in chosen[r]}

----------------------------------------------------------------------------
(* Stages                                                                   *)

\* Rows are exchanged twice per layer.  Stream 5, which carries them between
\* CUDA devices, first asks whether they fit its offsets, on both sides.
Legs == {"candidates", "frontier"}
Fit(leg) == IF leg = "candidates" THEN "candidates fit" ELSE "frontier fits"
Counts(leg) == IF leg = "candidates" THEN "candidate counts" ELSE "frontier counts"
Room(leg) == IF leg = "candidates" THEN "room for candidates" ELSE "room for frontier"
Rows(leg) == leg
Stream5 == device = "cuda" /\ Size > 1
ExchangeFrom(leg) == IF Stream5 THEN Fit(leg) ELSE Counts(leg)

\* The stages that only ask whether any rank failed.
Checked == {"load", "unique", "validate", "domain", "expand", "distinct"}
              \cup {Fit(leg) : leg \in Legs} \cup {Room(leg) : leg \in Legs}
StartLayer(r, c) == IF c.step < asked[r].depth THEN "goal" ELSE "depth_limit"
AfterChecked(r, s) ==
    CASE s = "load" -> "unique"
      [] s = "unique" -> "identifier"
      [] s = "validate" -> "settings"
      [] s = "domain" -> StartLayer(r, common[r])
      [] s = "expand" -> ExchangeFrom("candidates")
      [] s = "distinct" -> "count"
      [] s = Fit("candidates") -> Counts("candidates")
      [] s = Fit("frontier") -> Counts("frontier")
      [] s = Room("candidates") -> Rows("candidates")
      [] s = Room("frontier") -> Rows("frontier")

----------------------------------------------------------------------------
(* What a rank does by itself                                               *)

\* On CUDA with peers the transport is set up first.  A rank whose current
\* device is not its matrix's raises by itself.
Enter(r) ==
    /\ at[r] = "enter"
    /\ \/ at' = [at EXCEPT ![r] = IF Stream5 THEN "load" ELSE "validate"]
       \/ r \in MayMisplace /\ Stream5 /\ at' = [at EXCEPT ![r] = "raised"]
    /\ UNCHANGED <<inputs, posted, common, slice, closed, rows, due, chosen, boundary>>

Post(r, value) == posted' = [posted EXCEPT ![r] = <<value>>]
Ready(r, s) == at[r] = s /\ posted[r] = <<>>

\* Work under World.checked: it yields a result, or a failure to report.
Failing(r) == IF r \in MayFail THEN BOOLEAN ELSE {FALSE}
Check(r) ==
    /\ \E s \in {"load", "unique", "validate"} : Ready(r, s)
    /\ \E failed \in Failing(r) : Post(r, failed)
    /\ UNCHANGED <<inputs, at, common, slice, closed, rows, due, chosen, boundary>>

Domain(r) ==
    /\ Ready(r, "domain")
    /\ \E failed \in Failing(r) : Post(r, failed)
    /\ closed' = [closed EXCEPT ![r] = IF Owner(root) = r THEN {root} ELSE {}]
    /\ UNCHANGED <<inputs, at, common, slice, rows, due, chosen, boundary>>

\* The shortlisted moves of every parent.
Shortlisted(r) ==
    {o \in [i : DOMAIN parents[r], m : MoveIds] :
        Place(scorer, asked[r], parents[r][o.i], o.m) < asked[r].shortlist}
Candidates(r) ==
    {[from |-> SlotOf(r, o.i), word |-> lex[r][o.i] * Alphabet + o.m,
      turn |-> SlotOf(r, o.i) * Alphabet + Place(scorer, asked[r], parents[r][o.i], o.m),
      source |-> r, move |-> o.m, state |-> Child(parents[r][o.i], o.m)] : o \in Shortlisted(r)}
Expand(r) ==
    /\ Ready(r, "expand")
    /\ \E failed \in Failing(r) :
          Post(r, failed) /\ rows' = [rows EXCEPT ![r] = IF failed THEN @ ELSE Candidates(r)]
    /\ UNCHANGED <<inputs, at, common, slice, closed, due, chosen, boundary>>

\* The first of the equal candidates, in generation order, unless it is closed.
FirstByWord(r) ==      \* mutant: as they came, not as they were generated
    {x \in rows[r] : x.state \notin closed[r]
        /\ \A y \in rows[r] : y.state = x.state => x.word <= y.word}
FirstUnseen(r) ==
    {x \in rows[r] : x.state \notin closed[r]
        /\ \A y \in rows[r] : y.state = x.state => x.turn <= y.turn}
Deduplicate(r) ==
    /\ Ready(r, "distinct")
    /\ \E failed \in Failing(r) :
          Post(r, failed) /\ rows' = [rows EXCEPT ![r] = IF failed THEN @ ELSE FirstUnseen(r)]
    /\ UNCHANGED <<inputs, at, common, slice, closed, due, chosen, boundary>>

\* The other stages bring what the rank has.
Arrive(r) ==
    /\ posted[r] = <<>>
    /\ \/ at[r] \in {"identifier", "stats"} /\ Post(r, TRUE)
       \/ at[r] = "settings" /\ Post(r, asked[r])
       \/ at[r] = "goal" /\ Post(r, Goal(r))
       \/ at[r] = "trace" /\ Post(r, Edge(r))
       \/ \E leg \in Legs :
             \/ at[r] = Fit(leg) /\ Post(r, Cardinality(rows[r]) > Limit)
             \/ at[r] = Counts(leg)
                   /\ Post(r, [q \in Ranks |-> Cardinality(SentTo(leg, r, q))])
             \/ at[r] = Room(leg) /\ Post(r, due[r] > Limit)
             \/ at[r] = Rows(leg) /\ Post(r, [q \in Ranks |-> SentTo(leg, r, q)])
       \/ at[r] = "count" /\ Post(r, Cardinality(rows[r]))
       \/ at[r] = "radix" /\ Post(r, Histogram(r))
       \/ at[r] = "winners" /\ Post(r, Scored(r))
    /\ UNCHANGED <<inputs, at, common, slice, closed, rows, due, chosen, boundary>>

----------------------------------------------------------------------------
(* The collectives                                                          *)

Meet(s) ==
    /\ \A r \in Ranks : at[r] = s /\ posted[r] # <<>>
    /\ posted' = [r \in Ranks |-> <<>>]
Brought(r) == posted[r][1]
SumOver(f) == FoldFunctionOnSet(LAMBDA x, y : x + y, 0, f, Ranks)

\* World.checked: the failure of one rank is the failure of all.
OwnFailure(r) == Brought(r)     \* mutant: the failure is not reduced
AnyFailed(r) == \E q \in Ranks : Brought(q)
CheckedTogether(s) ==
    /\ Meet(s)
    /\ at' = [r \in Ranks |-> IF AnyFailed(r) THEN "raised" ELSE AfterChecked(r, s)]
    /\ UNCHANGED <<inputs, common, slice, closed, rows, due, chosen, boundary>>

Identify ==
    /\ Meet("identifier") /\ at' = [r \in Ranks |-> "validate"]
    /\ UNCHANGED <<inputs, common, slice, closed, rows, due, chosen, boundary>>

\* All ranks must have been given the same search.
Unchecked == FALSE              \* mutant: the settings are not compared
Differ == \E q \in Ranks : Brought(q) # Brought(0)
AgreeOnSettings ==
    /\ Meet("settings")
    /\ at' = [r \in Ranks |->
          IF Differ THEN "raised" ELSE IF root = Identity THEN "solved" ELSE "domain"]
    /\ UNCHANGED <<inputs, common, slice, closed, rows, due, chosen, boundary>>

\* The end of the trace: the construction is replayed from the identity.
Traced(c) ==
    IF c.left > 0 THEN "trace"
    ELSE IF c.slot = 0 /\ Replay(c.gates) = root THEN "solved" ELSE "inconsistent"

Least(p, q) == p[1] < q[1] \/ (p[1] = q[1] /\ p[2] <= q[2])
Best == CHOOSE g \in {Brought(r) : r \in Ranks} : \A r \in Ranks : Least(g, Brought(r))
Found(c) ==
    IF Best[2] < 0 THEN c
    ELSE [c EXCEPT !.gates = <<Best[1] % Alphabet>>, !.slot = Best[2], !.left = Len(c.ledger)]
SeekGoal ==
    /\ Meet("goal")
    /\ common' = [r \in Ranks |-> Found(common[r])]
    /\ at' = [r \in Ranks |->
          IF Best[2] >= 0 THEN Traced(Found(common[r]))
          ELSE IF common[r].step + 1 = asked[r].depth THEN "depth_limit" ELSE "expand"]
    /\ UNCHANGED <<inputs, slice, closed, rows, due, chosen, boundary>>

\* One layer back: the holder of the slot broadcasts its record.
EdgeSeen(c) == Brought(Holder(c.slot, c.ledger[c.left]))[1]
Back(c) ==
    [c EXCEPT !.slot = EdgeSeen(c).from, !.gates = Append(@, EdgeSeen(c).move), !.left = @ - 1]
TraceBack ==
    /\ Meet("trace")
    /\ common' = [r \in Ranks |-> Back(common[r])]
    /\ at' = [r \in Ranks |->
          LET c == common[r] e == EdgeSeen(c) IN
          IF e.source # Holder(e.from, Previous(c.ledger, c.left)) THEN "inconsistent"
          ELSE Traced(Back(c))]
    /\ UNCHANGED <<inputs, slice, closed, rows, due, chosen, boundary>>

\* Every rank learns how much it will receive, then receives it.
Announce(leg) ==
    /\ Meet(Counts(leg))
    /\ due' = [r \in Ranks |-> SumOver([q \in Ranks |-> Brought(q)[r]])]
    /\ at' = [r \in Ranks |-> IF Stream5 THEN Room(leg) ELSE Rows(leg)]
    /\ UNCHANGED <<inputs, common, slice, closed, rows, chosen, boundary>>

Exchange(leg) ==
    /\ Meet(Rows(leg))
    /\ rows' = [r \in Ranks |-> UNION {Brought(q)[r] : q \in Ranks}]
    /\ at' = [r \in Ranks |-> IF leg = "candidates" THEN "distinct" ELSE "stats"]
    /\ UNCHANGED <<inputs, common, slice, closed, due, chosen, boundary>>

\* global_winners: with no more states than the width all are taken, else the
\* cutoff is found digit by digit, of the score first and then of the word.
CountAll ==
    /\ Meet("count")
    /\ LET total == SumOver([r \in Ranks |-> Brought(r)]) IN
       /\ common' = [r \in Ranks |->
             [common[r] EXCEPT !.total = total, !.pass = 0, !.remaining = asked[r].width]]
       /\ at' = [r \in Ranks |-> IF total > asked[r].width THEN "radix" ELSE "winners"]
       /\ chosen' = [r \in Ranks |-> IF total > asked[r].width THEN {} ELSE rows[r]]
    /\ boundary' = rows
    /\ UNCHANGED <<inputs, slice, closed, rows, due>>

Counted(d) == SumOver([r \in Ranks |-> Brought(r)[d]])
Prefix(d) == FoldFunctionOnSet(LAMBDA x, y : x + y, 0, [e \in 0..(Base - 1) |-> Counted(e)], 0..d)
Cutoff(c) ==
    CHOOSE d \in 0..(Base - 1) :
        Prefix(d) >= c.remaining /\ \A e \in 0..(d - 1) : Prefix(e) < c.remaining
StillOpen(c) == c.remaining - (Prefix(Cutoff(c)) - Counted(Cutoff(c)))
Exact(c) == StillOpen(c) = Counted(Cutoff(c))
Taken(r) ==
    {x \in boundary[r] : Digit(x, common[r].pass) < Cutoff(common[r])
        \/ (Exact(common[r]) /\ Digit(x, common[r].pass) = Cutoff(common[r]))}
RadixPass ==
    /\ Meet("radix")
    /\ chosen' = [r \in Ranks |-> chosen[r] \cup Taken(r)]
    /\ boundary' = [r \in Ranks |->
          {x \in boundary[r] : Digit(x, common[r].pass) = Cutoff(common[r])}]
    /\ common' = [r \in Ranks |->
          [common[r] EXCEPT !.remaining = StillOpen(common[r]), !.pass = @ + 1]]
    /\ at' = [r \in Ranks |->
          IF Exact(common[r]) \/ common[r].pass + 1 = ScoreDigits + WordDigits
          THEN "winners" ELSE "radix"]
    /\ UNCHANGED <<inputs, slice, closed, rows, due>>

\* The beam: winners by score and word.  The owner of a winner closes its
\* matrix and sends it to the slice of its slot.
Winners == UNION {Brought(r) : r \in Ranks}
Before(w, v) == w.value < v.value \/ (w.value = v.value /\ w.word < v.word)
Record(x) ==
    [slot |-> Cardinality({w \in Winners :
                   Before(w, [value |-> Value(scorer, x.state), word |-> x.word])}),
     lex |-> Cardinality({w \in Winners : w.word < x.word}),
     from |-> x.from, source |-> x.source, move |-> x.move, state |-> x.state]
GatherWinners ==
    /\ Meet("winners")
    /\ common' = [r \in Ranks |-> [common[r] EXCEPT !.count = Cardinality(Winners)]]
    /\ at' = [r \in Ranks |->
          IF Cardinality(Winners) = Smaller(common[r].total, asked[r].width)
          THEN ExchangeFrom("frontier") ELSE "inconsistent"]
    /\ closed' = [r \in Ranks |-> closed[r] \cup {x.state : x \in chosen[r]}]
    /\ rows' = [r \in Ranks |-> {Record(x) : x \in chosen[r]}]
    /\ UNCHANGED <<inputs, slice, due, chosen, boundary>>

\* The layer is written down; its slices are the parents of the next.
InSlotOrder(r) == SetToSortSeq(rows[r], LAMBDA x, y : x.slot < y.slot)
NextLayer(c) == [c EXCEPT !.step = @ + 1, !.ledger = Append(@, c.count)]
CommitLayer ==
    /\ Meet("stats")
    /\ \/ /\ \E r \in Ranks : common[r].count = 0
          /\ at' = [r \in Ranks |-> "exhausted"]
          /\ UNCHANGED <<common, slice>>
       \/ /\ \A r \in Ranks : common[r].count > 0
          /\ common' = [r \in Ranks |-> NextLayer(common[r])]
          /\ at' = [r \in Ranks |-> StartLayer(r, NextLayer(common[r]))]
          /\ begin' = [r \in Ranks |-> First(r, common[r].count)]
          /\ LET mine == [r \in Ranks |-> InSlotOrder(r)] IN
             /\ parents' = [r \in Ranks |-> [i \in DOMAIN mine[r] |-> mine[r][i].state]]
             /\ lex' = [r \in Ranks |-> [i \in DOMAIN mine[r] |-> mine[r][i].lex]]
             /\ records' = [r \in Ranks |-> Append(records[r],
                   [i \in DOMAIN mine[r] |-> [from |-> mine[r][i].from,
                       source |-> mine[r][i].source, move |-> mine[r][i].move]])]
    /\ UNCHANGED <<inputs, closed, rows, due, chosen, boundary>>

----------------------------------------------------------------------------
Step(r) == Enter(r) \/ Check(r) \/ Domain(r) \/ Expand(r) \/ Deduplicate(r) \/ Arrive(r)
Collective ==
    \/ \E s \in Checked : CheckedTogether(s)
    \/ Identify \/ AgreeOnSettings \/ SeekGoal \/ TraceBack
    \/ \E leg \in Legs : Announce(leg) \/ Exchange(leg)
    \/ CountAll \/ RadixPass \/ GatherWinners \/ CommitLayer

Next == (\E r \in Ranks : Step(r)) \/ Collective

\* Every rank runs, and a collective that all have entered takes place.
Spec == Init /\ [][Next]_vars
FairSpec == Spec /\ (\A r \in Ranks : WF_vars(Step(r))) /\ WF_vars(Collective)

----------------------------------------------------------------------------
(* Properties                                                               *)

\* All ranks are in the same stage with the same knowledge, apart from entering:
\* no rank waits in a collective that another one left out, or for a rank that
\* has ended (cnot_collectives.py:49, cnot.py:175-231).
InStep ==
    \A q, r \in Ranks : at[q] # "enter" /\ at[r] # "enter" =>
        at[q] = at[r] /\ common[q] = common[r]
===============================================================================
