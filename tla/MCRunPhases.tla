---------------------------- MODULE MCRunPhases ----------------------------
(***************************************************************************)
(* Small instances of RunPhases.  Two answers of the first round let it    *)
(* agree or not, and one of them raises a high-risk residual, which no     *)
(* answer of the second round repeats; an arbiter omits it or closes it.   *)
(***************************************************************************)
EXTENDS RunPhases, TLC

CONSTANTS l1, l2, cc

Says(v) == [verdict |-> v, sure |-> TRUE, residuals |-> <<>>]

Raises(v, closed) ==
    [verdict |-> v, sure |-> TRUE,
     residuals |-> "risk" :> [high |-> TRUE, disposition |-> "verified",
                              closed |-> closed]]

MCAnswers ==
    [ph \in Phases |->
        CASE ph = "R1" -> {Says("go"), Raises("stop", FALSE)}
          [] ph = "R2" -> {Says("go")}
          [] ph = "R3" -> {Says("go"), Raises("stop", TRUE)}]
=============================================================================
