-------------------------- MODULE MCChildSupervision --------------------------
(* Instances of ChildSupervision for TLC.                                  *)
EXTENDS ChildSupervision, TLC

CONSTANTS l1, l2

MCLanes == {l1, l2}
=============================================================================
