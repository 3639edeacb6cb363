-------------------------- MODULE MCPrimaryArbiter --------------------------
(***************************************************************************)
(* A small instance of PrimaryArbiter: two commands at a time, of any      *)
(* kind, and two responses that compete.                                   *)
(***************************************************************************)
EXTENDS PrimaryArbiter

CONSTANTS p1, p2, r1, r2
=============================================================================
