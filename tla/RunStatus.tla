------------------------------ MODULE RunStatus ------------------------------
(***************************************************************************)
(* The statuses of a QUINTE run (enum RunStatus of src/model.rs) and the   *)
(* edges a status may follow (transition_allowed of src/store.rs).  No     *)
(* state: every module about one run extends this one.                     *)
(***************************************************************************)

\* The statuses that name a stage of the scheduler, in the order of a run.
Stages ==
    {"Queued", "Preflight", "R1Running", "R1Gate", "R2Packet", "R2Running",
     "R2Gate", "R3Cc", "WaitingPrimaryArbiter", "Merging"}

\* RunStatus::terminal.
TerminalStatus == {"Completed", "Degraded", "Failed", "FailedPolicy", "Cancelled"}

Terminal(s) == s \in TerminalStatus

RunStatuses == Stages \cup TerminalStatus \cup {"Cancelling"}

\* The statuses transition() treats as part of a cancellation.
CancelStatus == {"Cancelling", "Cancelled"}

\* The statuses that publish result.json: verify_result_integrity answers
\* for these two and for no other.
PublicStatus == {"Completed", "Degraded"}

\* The statuses every non-terminal status may move to.
AbortStatus == {"Failed", "FailedPolicy"} \cup CancelStatus

\* The edges of the normal flow.
StageEdges ==
    {<<"Queued", "Preflight">>,
     <<"Preflight", "R1Running">>,
     <<"R1Running", "R1Gate">>,
     <<"R1Gate", "R2Packet">>,
     <<"R1Gate", "R2Running">>,
     <<"R1Gate", "R2Gate">>,
     <<"R2Packet", "R2Running">>,
     <<"R2Packet", "R2Gate">>,
     <<"R2Running", "R2Gate">>,
     <<"R2Gate", "R3Cc">>,
     <<"R2Gate", "WaitingPrimaryArbiter">>,
     <<"R3Cc", "WaitingPrimaryArbiter">>,
     <<"R3Cc", "Merging">>,
     <<"WaitingPrimaryArbiter", "Merging">>,
     <<"Merging", "Completed">>,
     <<"Merging", "Degraded">>}

\* transition_allowed: a status may repeat itself, abort from any
\* non-terminal status, and otherwise follows the normal flow.
TransitionAllowed(from, to) ==
    \/ from = to
    \/ to \in AbortStatus /\ from \notin TerminalStatus
    \/ <<from, to>> \in StageEdges

\* Mutated: a late failure is taken as it comes.
EffectiveAsAsked(s, current, requested) == s

\* Once a cancellation is requested, everything but a cancellation turns
\* into "Cancelled".
Effective(s, current, requested) ==
    IF (requested \/ current = "Cancelling") /\ s \notin CancelStatus
    THEN "Cancelled"
    ELSE s
=============================================================================
