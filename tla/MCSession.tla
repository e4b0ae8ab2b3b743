------------------------------- MODULE MCSession -------------------------------
(***************************************************************************)
(* Sessions for TLC: one thread that searches with two workers and may be   *)
(* killed with its process, two threads with one worker, and two threads    *)
(* that submit up to two jobs to each of two contexts.                      *)
(***************************************************************************)
EXTENDS Sessions

MCThreads == {"t1", "t2"}
MCRanks == {"r1", "r2"}
MCWorkers == {"r1"}
MCIdentities == {"i1", "i2"}
================================================================================
