----------------------------- MODULE MCA2ATasks -----------------------------
(* A2ATasks on a small instance. *)
EXTENDS A2ATasks

CONSTANTS r1, r2
=============================================================================
