---------------------------- MODULE TimingStats ----------------------------
(***************************************************************************)
(* What the tuners make of repeated measurements (calibration_stats.py).    *)
(* A cohort of repeats is its estimate: the median and the interval of the  *)
(* bootstrap, on a grid coarser than the improvement that is asked for.     *)
(***************************************************************************)
EXTENDS Integers

\* A cohort without an estimate: scattered, incomplete, throttled or incorrect.
Unstable == [low |-> 0, mid |-> 0, high |-> 0]

Estimates == {c \in [low : Nat \ {0}, mid : Nat, high : Nat] : c.low <= c.mid /\ c.mid <= c.high}

Stable(cohort) == cohort # Unstable

\* A gain is believed when even the slow end of the interval is faster.
Separated(cohort, reference) == Stable(cohort) /\ cohort.high < reference.low

\* The choice among samples, each a profile with its cohort in field "time":
\* the baseline unless a separated candidate exists, then one of least median.
AnySeparated(samples, baseline) ==       \* mutant: the first candidate that is separated
    LET faster == {s \in samples : Separated(s.time, baseline.time)}
    IN  IF faster = {} THEN {baseline} ELSE faster
Select(samples, baseline) ==
    LET faster == {s \in samples : Separated(s.time, baseline.time)}
    IN  IF faster = {} THEN {baseline}
        ELSE {s \in faster : \A t \in faster : s.time.mid <= t.time.mid}
=============================================================================
