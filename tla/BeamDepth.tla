------------------------------ MODULE BeamDepth ------------------------------
(***************************************************************************)
(* What a search promises of its depths: each one turns the candidates      *)
(* generated from its parents into a correct next beam in one step, or the  *)
(* search ends there, because a goal was found or because it failed.        *)
(***************************************************************************)
EXTENDS Candidates

CONSTANTS Generated  \* Generated[d]: the candidates of depth d

VARIABLES depthsDone, beam, ended

abstractVars == <<depthsDone, beam, ended>>

Init == depthsDone = 0 /\ beam = {} /\ ended = FALSE

FinishDepth ==
    /\ ~ended
    /\ depthsDone' = depthsDone + 1
    /\ depthsDone' \in DOMAIN Generated
    /\ beam' \subseteq Cand
    /\ IsBeamOf(beam', Generated[depthsDone'])
    /\ UNCHANGED ended

End == ~ended /\ ended' = TRUE /\ UNCHANGED <<depthsDone, beam>>

Next == FinishDepth \/ End

Spec == Init /\ [][Next]_abstractVars
=============================================================================
