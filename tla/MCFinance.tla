----------------------------- MODULE MCFinance -----------------------------
(* FinanceLifecycle on small instances. *)
EXTENDS FinanceLifecycle

CONSTANTS p1, p2, s1, s2, w1, e1

Ans(says, closes, open) ==
    [says |-> says, closes |-> closes, open |-> open, invalidates |-> closes # {}]

MCRule ==
    [s \in School |-> IF s = s1 THEN [mode |-> "mandatory", holds |-> TRUE]
                     ELSE [mode |-> "conditional", holds |-> FALSE]]

\* s1 is concerned: it may object, with and without evidence that closes the
\* objection, or wrongly say it is not.  s2 is not concerned.
MCAnswers ==
    [s \in School |->
        IF s = s1
        THEN {Ans("clear", {}, FALSE), Ans("not_applicable", {}, FALSE),
              Ans("contradicted", {}, TRUE), Ans("contradicted", {e1}, FALSE)}
        ELSE {Ans("not_applicable", {}, FALSE)}]

\* With the item in the evidence index, accepted, and without it.
MCInput(items) ==
    [listed |-> items, accepted |-> items, incomplete |-> {}, primary |-> {}]
MCInputs == {MCInput(items) : items \in SUBSET Evidence}

\* The item is in the index, and everybody agrees.
MCCited == {MCInput({e1})}
MCAgreeing ==
    [s \in School |-> {Ans(IF s = s1 THEN "clear" ELSE "not_applicable", {}, FALSE)}]
============================================================================
