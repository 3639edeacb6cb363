----------------------------- MODULE FinanceFold -----------------------------
(***************************************************************************)
(* The deterministic merge of a finance review (src/finance.rs): what the  *)
(* schools said of a claim in R1 and R2 is folded, and code, not an        *)
(* arbiter, decides the posture.  One claim stands for them all: each is   *)
(* folded by itself and the posture asks for all of them.                  *)
(***************************************************************************)
EXTENDS Naturals

\* The modes a claim may have for a school, with the predicate's result.
Rules ==
    {[mode |-> "mandatory", holds |-> TRUE], [mode |-> "conditional", holds |-> TRUE],
     [mode |-> "conditional", holds |-> FALSE], [mode |-> "out_of_scope", holds |-> FALSE]}

CONSTANTS
    School,        \* the fixed schools
    Rule,          \* what the claim preregisters for each school
    Evidence       \* the items an evidence index may list

ASSUME FoldAssumption == School # {} /\ Rule \in [School -> Rules]

Applicable == {s \in School : Rule[s].mode # "out_of_scope" /\ Rule[s].holds}

Dispositions ==
    {"clear", "not_applicable", "insufficient_evidence", "contradicted",
     "quarantined", "expired"}

\* What a school answers: its disposition, the evidence a registered closure
\* rule cites, whether it leaves a material residual open and whether it
\* names a code that invalidates the claim.
Answer == [says : Dispositions, closes : SUBSET Evidence, open : BOOLEAN,
           invalidates : BOOLEAN]

\* What is pinned when the review is created: the items of the evidence index,
\* those of them that are accepted and those whose provenance is incomplete,
\* and what there is against the primary.
Input ==
    {i \in [listed : SUBSET Evidence, accepted : SUBSET Evidence,
            incomplete : SUBSET Evidence,
            primary : SUBSET {"primary_not_accepted", "primary_expired",
                              "primary_provenance_incomplete"}] :
        i.accepted \cup i.incomplete \subseteq i.listed}

Rank(d) ==
    CASE d = "clear" -> 0
      [] d = "not_applicable" -> 1
      [] d = "insufficient_evidence" -> 2
      [] d = "contradicted" -> 3
      [] d = "quarantined" -> 4
      [] d = "expired" -> 5

Blocking(a) == a.says \notin {"clear", "not_applicable"}

\* A school may only cite evidence the index admits.
Cites(in, a) == a.closes \subseteq in.accepted

Closes(in, a) == a.closes # {} /\ Cites(in, a)

\* Mutated: what a school says last counts.
UnresolvedInR2(in, first, second) ==
    {a \in {second} : Blocking(a) /\ ~Closes(in, a)}

\* A blocker of either phase stays one unless it is closed itself.
Unresolved(in, first, second) ==
    {a \in {first, second} : Blocking(a) /\ ~Closes(in, a)}

\* The fold refuses a school that is applicable and says it is not, or the
\* other way round.
Fits(s, a) == (s \in Applicable) <=> (a.says # "not_applicable")

Folds(r1, r2) == \A s \in School : Fits(s, r1[s]) /\ Fits(s, r2[s])

Folded(in, s, first, second) ==
    IF s \notin Applicable THEN "not_applicable"
    ELSE LET blockers == Unresolved(in, first, second)
         IN  IF blockers = {} THEN "clear"
             ELSE (CHOOSE a \in blockers :
                      \A b \in blockers : Rank(b.says) <= Rank(a.says)).says

\* What of any output, R1 or R2, counts against publication.
OpenResiduals(r1, r2) == {s \in School : r1[s].open \/ r2[s].open}
Invalidations(r1, r2) == {s \in School : r1[s].invalidates \/ r2[s].invalidates}

\* Why a result is not published, empty for PUBLISH_BOUNDED.
Reasons(in, r1, r2) ==
    in.primary
    \cup {"evidence_provenance_incomplete" : e \in in.incomplete}
    \cup {Rule[s].mode : s \in {t \in Applicable : Folded(in, t, r1[t], r2[t]) # "clear"}}
    \cup {"open_material_residual" : s \in OpenResiduals(r1, r2)}
    \cup {"active_invalidation" : s \in Invalidations(r1, r2)}

Result(in, r1, r2) ==
    [folded |-> [s \in School |-> Folded(in, s, r1[s], r2[s])],
     reasons |-> Reasons(in, r1, r2)]

Reason ==
    {"primary_not_accepted", "primary_expired", "primary_provenance_incomplete",
     "evidence_provenance_incomplete", "mandatory", "conditional",
     "open_material_residual", "active_invalidation"}

Results == [folded : [School -> Dispositions], reasons : SUBSET Reason]

Published(result) == result.reasons = {}
==============================================================================
