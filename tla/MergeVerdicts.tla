--------------------------- MODULE MergeVerdicts ---------------------------
(***************************************************************************)
(* How the verdicts of the two arbiters, and what the lanes raised before  *)
(* them, become one result (src/run.rs, merge_verdicts).  An answer is a   *)
(* verdict (of an arbiter: its recommendation) and residuals by id; of a   *)
(* residual only the severity class, the disposition and the closure are   *)
(* kept here, the rest of its fields decide nothing.                       *)
(***************************************************************************)

Disposition == {"verified", "falsified", "unresolved", "escalated", "discarded"}

Residual == [high : BOOLEAN, disposition : Disposition, closed : BOOLEAN]

Conservative(r) == [r EXCEPT !.disposition = "unresolved", !.closed = FALSE]

\* What the arbiters make of a residual one or both of them report.
Judged(p, c, id) ==
    IF id \notin DOMAIN c THEN p[id]
    ELSE IF id \notin DOMAIN p \/ p[id] = c[id] THEN c[id]
    ELSE Conservative(p[id])

Conflicting(p, c) == {id \in DOMAIN p \cap DOMAIN c : p[id] # c[id]}

\* The high-risk variants of a residual in the answers of the lanes.
HighRisk(outs, id) ==
    {o.residuals[id] : o \in {a \in outs : /\ id \in DOMAIN a.residuals
                                           /\ a.residuals[id].high}}

HighRiskIds(outs) ==
    {id \in UNION {DOMAIN o.residuals : o \in outs} : HighRisk(outs, id) # {}}

\* What was high-risk in an earlier round and no arbiter mentions.
Omitted(p, c, outs) == HighRiskIds(outs) \ (DOMAIN p \cup DOMAIN c)

\* primary, counterpart: the arbiters' verdicts; outs: the lanes' answers.
Merge(primary, counterpart, outs) ==
    LET p == primary.residuals
        c == counterpart.residuals
        kept == Omitted(p, c, outs)
    IN  [verdict |-> primary.verdict,
         residuals |->
             [id \in DOMAIN p \cup DOMAIN c \cup kept |->
                 IF id \in kept
                 THEN Conservative(CHOOSE r \in HighRisk(outs, id) : TRUE)
                 ELSE Judged(p, c, id)],
         dissent |-> \/ primary.verdict # counterpart.verdict
                     \/ Conflicting(p, c) # {}
                     \/ kept # {}
                     \/ \E id \in HighRiskIds(outs) :
                            \E r, s \in HighRisk(outs, id) : r # s]
=============================================================================
