---------------------------- MODULE MCHostLaunch ----------------------------
(* HostLaunch on small instances. *)
EXTENDS HostLaunch, TLC

CONSTANTS h1, h2, h3

\* The commands of one process are those of any other.
Symmetry == Permutations(Proc)
=============================================================================
