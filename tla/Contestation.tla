---------------------------- MODULE Contestation ----------------------------
(***************************************************************************)
(* Which lanes of the first round have to be heard again (src/run.rs,      *)
(* r1_contestation).  An answer of a lane is its verdict, whether its      *)
(* confidence reaches the floor, and the residuals it raises, by id.       *)
(***************************************************************************)
EXTENDS Integers, FiniteSets

\* The ids of residuals that any lane raises.
RaisedIn(out) == UNION {DOMAIN out[l].residuals : l \in DOMAIN out}

Raising(out, id) == {l \in DOMAIN out : id \in DOMAIN out[l].residuals}

\* Rules 1 and 2: two lanes differ in the verdict, or in the disposition of a
\* residual both raise.
Disagree(a, b) ==
    \/ a.verdict # b.verdict
    \/ \E id \in DOMAIN a.residuals \cap DOMAIN b.residuals :
           a.residuals[id].disposition # b.residuals[id].disposition

\* Rule 4: most lanes raise a residual, and not all of them do.
HalfSeen(out) ==
    \E id \in RaisedIn(out) :
        /\ 2 * Cardinality(Raising(out, id)) > Cardinality(DOMAIN out)
        /\ Raising(out, id) # DOMAIN out

\* The contested lanes; rule 3 is the confidence floor.
Contested(out) ==
    IF HalfSeen(out)
    THEN DOMAIN out
    ELSE {l \in DOMAIN out : \/ ~out[l].sure
                             \/ \E k \in DOMAIN out : Disagree(out[l], out[k])}
=============================================================================
