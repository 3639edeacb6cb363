--------------------------- MODULE MCArbiterInputs ---------------------------
(***************************************************************************)
(* ArbiterInputs with two contents, so that every edit is a change.        *)
(***************************************************************************)
EXTENDS ArbiterInputs, TLC

CONSTANTS c1, c2

MCContent == {c1, c2}

Symmetry == Permutations(MCContent)
=============================================================================
