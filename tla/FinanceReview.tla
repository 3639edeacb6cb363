---------------------------- MODULE FinanceReview ----------------------------
(***************************************************************************)
(* What a finance review promises, whatever is killed, repeated or         *)
(* rewritten: its inputs are pinned once, it accepts one R1 set, then one  *)
(* R2 set, and ends with the fold of these two.  FinanceLifecycle          *)
(* implements it.                                                          *)
(***************************************************************************)
EXTENDS FinanceFold

CONSTANTS
    Outputs,   \* the output sets a phase may have
    Nothing    \* not there yet

VARIABLES in, status, r1, r2, result

review == <<in, status, r1, r2, result>>

Init ==
    /\ in = Nothing
    /\ status = Nothing
    /\ r1 = Nothing
    /\ r2 = Nothing
    /\ result = Nothing

Create ==
    /\ status = Nothing
    /\ in' \in Input
    /\ status' = "R1Running"
    /\ UNCHANGED <<r1, r2, result>>

AcceptR1 ==
    /\ status = "R1Running"
    /\ status' = "R2Running"
    /\ r1' \in Outputs
    /\ \A s \in School : Cites(in, r1'[s])
    /\ UNCHANGED <<in, r2, result>>

AcceptR2 ==
    /\ status = "R2Running"
    /\ status' = "Merging"
    /\ r2' \in Outputs
    /\ Folds(r1, r2')
    /\ \A s \in School : Cites(in, r2'[s])
    /\ UNCHANGED <<in, r1, result>>

Complete ==
    /\ status = "Merging"
    /\ status' = "Completed"
    /\ result' = Result(in, r1, r2)
    /\ UNCHANGED <<in, r1, r2>>

Next == Create \/ AcceptR1 \/ AcceptR2 \/ Complete

Spec == Init /\ [][Next]_review
==============================================================================
