--------------------------- MODULE MCRunScheduler ---------------------------
(***************************************************************************)
(* Small instances of RunScheduler: the .cfg files choose the commands at  *)
(* work on the run and what may go wrong.                                  *)
(***************************************************************************)
EXTENDS RunSchedulerInvariant, TLC

CONSTANTS w1, w2, c1, l1

Symmetry == Permutations(Worker)
=============================================================================
