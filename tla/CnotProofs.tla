------------------------------ MODULE CnotProofs ------------------------------
(***************************************************************************)
(* The ranks of the CNOT search stay in step, however many they are, and    *)
(* every slot of a beam lies in the slice of the rank that is asked for it. *)
(***************************************************************************)
EXTENDS CnotSearch, TLAPS

\* Before the settings are compared, and once the search has ended, ranks may
\* have been given different ones.
FirstStage == IF Stream5 THEN "load" ELSE "validate"
Early == {"enter", "load", "unique", "identifier", "validate", "settings", "raised", "solved"}

Functions == DOMAIN at = Ranks /\ DOMAIN posted = Ranks
SameKnowledge == \A q, r \in Ranks : common[q] = common[r]
EnterFirst ==
    \A r \in Ranks : at[r] = "enter" => \A q \in Ranks : at[q] \in {"enter", FirstStage}
SameStage == \A q, r \in Ranks : at[q] # "enter" /\ at[r] # "enter" => at[q] = at[r]
SettingsPosted ==
    \A r \in Ranks : at[r] = "settings" /\ posted[r] # <<>> => posted[r] = <<asked[r]>>
SettingsAgreed ==
    \A p \in Ranks : at[p] \notin Early => \A q, r \in Ranks : asked[q] = asked[r]

StepInv ==
    /\ Functions /\ SameKnowledge /\ EnterFirst /\ SameStage
    /\ SettingsPosted /\ SettingsAgreed

LEMMA InitStepInv == Init => StepInv
  BY DEF Init, StepInv, Functions, SameKnowledge, EnterFirst, SameStage, SettingsPosted,
         SettingsAgreed, Early

\* A rank that posts stays in its stage.
LEMMA PostKeeps ==
  ASSUME NEW r \in Ranks, NEW v, StepInv, Post(r, v), at[r] = "settings" => v = asked[r],
         UNCHANGED <<inputs, at, common>>
  PROVE  StepInv'
  BY DEF StepInv, Functions, SameKnowledge, EnterFirst, SameStage, SettingsPosted,
         SettingsAgreed, Post, inputs, FirstStage, Stream5

LEMMA StepKeeps ==
  ASSUME MayMisplace = {}, StepInv, NEW r \in Ranks, Step(r)
  PROVE  StepInv'
<1>1. CASE Enter(r)
  BY <1>1 DEF Enter, StepInv, Functions, SameKnowledge, EnterFirst, SameStage, SettingsPosted,
     SettingsAgreed, Early, inputs, FirstStage, Stream5
<1>2. CASE Check(r)
  BY <1>2, PostKeeps DEF Check, Ready
<1>3. CASE Domain(r)
  BY <1>3, PostKeeps DEF Domain, Ready
<1>4. CASE Expand(r)
  BY <1>4, PostKeeps DEF Expand, Ready
<1>5. CASE Deduplicate(r)
  BY <1>5, PostKeeps DEF Deduplicate, Ready
<1>6. CASE Arrive(r)
  <2>1. CASE at[r] = "settings"
    <3>1. Post(r, asked[r])
      BY <1>6, <2>1 DEF Arrive, Legs, Fit, Counts, Room, Rows
    <3>2. QED
      BY <1>6, <3>1, PostKeeps DEF Arrive
  <2>2. CASE at[r] # "settings"
    <3>1. \E v : Post(r, v)
      BY <1>6 DEF Arrive
    <3>2. QED
      BY <1>6, <2>2, <3>1, PostKeeps DEF Arrive
  <2>3. QED
    BY <2>1, <2>2
<1>7. QED
  BY <1>1, <1>2, <1>3, <1>4, <1>5, <1>6 DEF Step

\* A collective takes all ranks to one stage if what it computes for a rank
\* depends on its knowledge and settings only.
LEMMA TogetherKeeps ==
  ASSUME StepInv, NEW s, Meet(s), s # "enter", UNCHANGED inputs, Ranks # {},
         DOMAIN at' = Ranks,
         \A q, r \in Ranks : at'[q] = at'[r],
         \A q, r \in Ranks : common'[q] = common'[r],
         \A r \in Ranks : at'[r] # "enter",
         (\E r \in Ranks : at'[r] \notin Early) => \A q, r \in Ranks : asked[q] = asked[r]
  PROVE  StepInv'
  BY DEF StepInv, Functions, SameKnowledge, EnterFirst, SameStage, SettingsPosted,
         SettingsAgreed, Meet, inputs, FirstStage, Stream5


LEMMA CollectiveKeeps ==
  ASSUME StepInv, Collective
  PROVE  StepInv'
<1>0. 0 \in Ranks
  BY CnotAssumption DEF Ranks
<1> USE <1>0
<1>1. ASSUME NEW s \in Checked, CheckedTogether(s)
      PROVE  StepInv'
  <2>1. \A r \in Ranks : at[r] = s
    BY <1>1 DEF CheckedTogether, Meet
  <2>2. s \notin Early => \A q, r \in Ranks : asked[q] = asked[r]
    BY <2>1 DEF StepInv, SettingsAgreed
  <2>3. \A q, r \in Ranks : common[q] = common[r]
    BY DEF StepInv, SameKnowledge
  <2>4. s \notin {"load", "unique", "validate"} => s \notin Early
    BY <1>1 DEF Checked, Early, Legs, Fit, Room
  <2>5. \A q, r \in Ranks : AnyFailed(q) = AnyFailed(r)
    BY DEF AnyFailed
  <2>6. \A q, r \in Ranks : AfterChecked(q, s) = AfterChecked(r, s)
    BY <1>1, <2>2, <2>3, <2>4 DEF AfterChecked, StartLayer
  <2>7. \A r \in Ranks : AfterChecked(r, s) # "enter"
    BY <1>1 DEF AfterChecked, StartLayer, Checked, Legs, Fit, Room, Counts, Rows, ExchangeFrom
  <2>8. s \in {"load", "unique", "validate"} => \A r \in Ranks : AfterChecked(r, s) \in Early
    BY DEF AfterChecked, Early, Fit, Room
  <2>9. s # "enter"
    BY <1>1 DEF Checked, Legs, Fit, Room
  <2>10. /\ at' = [r \in Ranks |-> IF AnyFailed(r) THEN "raised" ELSE AfterChecked(r, s)]
         /\ Meet(s) /\ UNCHANGED <<inputs, common>>
    BY <1>1 DEF CheckedTogether
  <2>11. \A r \in Ranks : at'[r] = IF AnyFailed(r) THEN "raised" ELSE AfterChecked(r, s)
    BY <2>10
  <2>12. (\E r \in Ranks : at'[r] \notin Early) => s \notin {"load", "unique", "validate"}
    BY <2>8, <2>11 DEF Early
  <2>13. QED
    BY <2>2, <2>3, <2>4, <2>5, <2>6, <2>7, <2>9, <2>10, <2>11, <2>12, TogetherKeeps
<1>2. CASE Identify
  BY <1>2, TogetherKeeps DEF Identify, StepInv, SameKnowledge, Early, inputs
<1>3. CASE AgreeOnSettings
  <2>1. \A r \in Ranks : Brought(r) = asked[r]
    BY <1>3 DEF AgreeOnSettings, Meet, StepInv, SettingsPosted, Brought
  <2>2. ~Differ => \A q, r \in Ranks : asked[q] = asked[r]
    BY <2>1 DEF Differ
  <2>3. QED
    BY <1>3, <2>2, TogetherKeeps DEF AgreeOnSettings, StepInv, SameKnowledge, Early, inputs
<1>4. ASSUME NEW s, s \notin Early, Meet(s)
      PROVE  \A q, r \in Ranks : common[q] = common[r] /\ asked[q] = asked[r]
  BY <1>4 DEF Meet, StepInv, SameKnowledge, SettingsAgreed
<1>5. CASE SeekGoal
  <2>1. \A q, r \in Ranks : common[q] = common[r] /\ asked[q] = asked[r]
    BY <1>4, <1>5 DEF SeekGoal, Early
  <2>2. \A r \in Ranks : Traced(Found(common[r])) # "enter"
    BY DEF Traced
  <2>3. QED
    BY <1>5, <2>1, <2>2, TogetherKeeps DEF SeekGoal
<1>6. CASE TraceBack
  <2>1. \A q, r \in Ranks : common[q] = common[r] /\ asked[q] = asked[r]
    BY <1>4, <1>6 DEF TraceBack, Early
  <2>2. \A r \in Ranks : Traced(Back(common[r])) # "enter"
    BY DEF Traced
  <2>3. QED
    BY <1>6, <2>1, <2>2, TogetherKeeps DEF TraceBack
<1>7. ASSUME NEW leg \in Legs, Announce(leg) \/ Exchange(leg)
      PROVE  StepInv'
  <2>1. Counts(leg) \notin Early /\ Rows(leg) \notin Early
    BY DEF Counts, Rows, Legs, Early
  <2>2. \A q, r \in Ranks : common[q] = common[r] /\ asked[q] = asked[r]
    BY <1>4, <1>7, <2>1 DEF Announce, Exchange
  <2>3. Room(leg) # "enter" /\ Rows(leg) # "enter" /\ Counts(leg) # "enter"
    BY DEF Counts, Rows, Room, Legs
  <2>4. CASE Announce(leg)
    BY <2>2, <2>3, <2>4, TogetherKeeps DEF Announce
  <2>5. CASE Exchange(leg)
    BY <2>2, <2>3, <2>5, TogetherKeeps DEF Exchange
  <2>6. QED
    BY <1>7, <2>4, <2>5
<1>8. CASE CountAll
  <2>1. \A q, r \in Ranks : common[q] = common[r] /\ asked[q] = asked[r]
    BY <1>4, <1>8 DEF CountAll, Early
  <2>2. QED
    BY <1>8, <2>1, TogetherKeeps DEF CountAll
<1>9. CASE RadixPass
  <2>1. \A q, r \in Ranks : common[q] = common[r] /\ asked[q] = asked[r]
    BY <1>4, <1>9 DEF RadixPass, Early
  <2>2. QED
    BY <1>9, <2>1, TogetherKeeps DEF RadixPass
<1>10. CASE GatherWinners
  <2>1. \A q, r \in Ranks : common[q] = common[r] /\ asked[q] = asked[r]
    BY <1>4, <1>10 DEF GatherWinners, Early
  <2>2. ExchangeFrom("frontier") # "enter"
    BY DEF ExchangeFrom, Fit, Counts
  <2>3. QED
    BY <1>10, <2>1, <2>2, TogetherKeeps DEF GatherWinners
<1>11. CASE CommitLayer
  <2>1. \A q, r \in Ranks : common[q] = common[r] /\ asked[q] = asked[r]
    BY <1>4, <1>11 DEF CommitLayer, Early
  <2>2. \A r \in Ranks : StartLayer(r, NextLayer(common[r])) # "enter"
    BY DEF StartLayer
  <2>3. \A q, r \in Ranks :
           StartLayer(q, NextLayer(common[q])) = StartLayer(r, NextLayer(common[r]))
    BY <2>1 DEF StartLayer
  <2>4. QED
    BY <1>11, <2>1, <2>2, <2>3, TogetherKeeps DEF CommitLayer
<1>12. QED
  BY <1>1, <1>2, <1>3, <1>5, <1>6, <1>7, <1>8, <1>9, <1>10, <1>11 DEF Collective

\* Whatever fails and however the ranks were started, they stay in the same stage
\* with the same knowledge, for every number of ranks, as long as none raises
\* outside of World.checked when it enters (cnot_collectives.py:23, 48-61).
THEOREM RanksInStep ==
  ASSUME MayMisplace = {}
  PROVE  Spec => []InStep
<1>1. StepInv /\ [Next]_vars => StepInv'
  <2> SUFFICES ASSUME StepInv, [Next]_vars
               PROVE  StepInv'
    OBVIOUS
  <2>1. CASE UNCHANGED vars
    BY <2>1 DEF vars, inputs, StepInv, Functions, SameKnowledge, EnterFirst, SameStage,
       SettingsPosted, SettingsAgreed, FirstStage, Stream5
  <2>2. QED
    BY <2>1, StepKeeps, CollectiveKeeps DEF Next
<1>2. StepInv => InStep
  BY DEF StepInv, SameStage, SameKnowledge, InStep
<1>3. QED
  BY <1>1, <1>2, InitStepInv, PTL DEF Spec

----------------------------------------------------------------------------
(* Slices                                                                   *)

LEMMA Quotient ==
  ASSUME NEW a \in Nat, NEW b \in Nat \ {0}
  PROVE  /\ a \div b \in Nat
         /\ b * (a \div b) <= a
         /\ a < b * (a \div b) + b
  BY Z3

LEMMA Multiples ==
  ASSUME NEW k \in Nat \ {0}, NEW x \in Int, NEW y \in Int
  PROVE  /\ x <= y <=> k * x <= k * y
         /\ k * (x + 1) = k * x + k
  BY Z3

\* The slices are a partition of the slots, in rank order, and the record of a
\* slot is sought at the rank whose slice it is in: `target` and `begin` of
\* _reconstruct and _search round in opposite ways (cnot.py:138-142, 213, 227).
THEOREM SlotInItsSlice ==
  ASSUME NEW count \in Nat \ {0}, NEW slot \in 0..(count - 1), NEW r \in Ranks
  PROVE  /\ Holder(slot, count) \in Ranks
         /\ Holder(slot, count) = r <=> First(r, count) <= slot /\ slot < First(r + 1, count)
<1> DEFINE h == Holder(slot, count)
<1>0. Size \in Nat \ {0} /\ r \in Nat /\ slot \in Nat
  BY CnotAssumption DEF Ranks
<1>1. slot * Size \in Nat /\ h \in Nat /\ count * h <= slot * Size /\ slot * Size < count * h + count
  BY <1>0, Quotient DEF Holder
<1>2. ASSUME NEW q \in Nat
      PROVE  First(q, count) <= slot <=> q * count <= slot * Size
  <2> DEFINE f == First(q, count)
  <2>1. f \in Nat /\ Size * f <= q * count + Size - 1 /\ q * count + Size - 1 < Size * f + Size
    <3>1. q * count \in Nat /\ q * count + Size - 1 \in Nat
      BY <1>0
    <3>2. QED
      BY <1>0, <3>1, Quotient DEF First
  <2>2. f <= slot <=> Size * f <= Size * slot
    BY <1>0, <2>1, Multiples
  <2>3. slot + 1 <= f <=> Size * slot + Size <= Size * f
    BY <1>0, <2>1, Multiples
  <2>4. Size * slot = slot * Size
    BY <1>0
  <2>5. Size * slot \in Nat /\ Size * f \in Nat /\ q * count \in Nat
    BY <1>0, <2>1
  <2> HIDE DEF f
  <2>6. f <= slot <=> q * count <= slot * Size
    BY <1>0, <2>1, <2>2, <2>3, <2>4, <2>5
  <2>7. QED
    BY <2>6 DEF f
<1>3. First(r, count) <= slot <=> count * r <= slot * Size
  BY <1>0, <1>2
<1>4. First(r + 1, count) <= slot <=> count * r + count <= slot * Size
  <2>1. (r + 1) * count = count * r + count
    BY <1>0
  <2>2. QED
    BY <1>0, <1>2, <2>1
<1>5. First(r + 1, count) \in Int
  BY <1>0, Quotient DEF First
<1> HIDE DEF h
<1>6. h < Size
  <2>1. slot * Size < count * Size
    BY <1>0, Multiples
  <2>2. Size <= h => count * Size <= count * h
    BY <1>0, <1>1, Multiples
  <2>3. count * Size \in Nat /\ count * h \in Nat
    BY <1>0, <1>1
  <2>4. QED
    BY <1>0, <1>1, <2>1, <2>2, <2>3
<1>7. h = r <=> count * r <= slot * Size /\ slot * Size < count * r + count
  <2>1. h < r => count * h + count <= count * r
    BY <1>0, <1>1, Multiples
  <2>2. r < h => count * r + count <= count * h
    BY <1>0, <1>1, Multiples
  <2>3. count * r \in Nat /\ count * h \in Nat
    BY <1>0, <1>1
  <2>4. QED
    BY <1>0, <1>1, <2>1, <2>2, <2>3
<1>8. slot < First(r + 1, count) <=> ~(First(r + 1, count) <= slot)
  BY <1>0, <1>5
<1>9. ~(count * r + count <= slot * Size) <=> slot * Size < count * r + count
  BY <1>0, <1>1
<1>10. QED
  BY <1>0, <1>1, <1>3, <1>4, <1>6, <1>7, <1>8, <1>9 DEF Ranks, h
===============================================================================
