----------------------------- MODULE MCRunStore -----------------------------
(***************************************************************************)
(* Small instances of RunStore: which processes there are, where the       *)
(* history begins, and what may go wrong is chosen in the .cfg files.  The *)
(* processes of RunStore are interchangeable: any may call any operation.  *)
(***************************************************************************)
EXTENDS RunStoreInvariant, TLC

CONSTANTS p1, p2, l1

Symmetry == Permutations({p1, p2})
=============================================================================
