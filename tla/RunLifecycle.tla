---------------------------- MODULE RunLifecycle ----------------------------
(***************************************************************************)
(* What the store promises its callers about one run: a status that moves  *)
(* along the edges of transition_allowed, one atomic step at a time, and a *)
(* cancellation that cannot be taken back.  Locks, files, stale copies and *)
(* killed processes are out of sight here; RunStore shows they stay so.    *)
(***************************************************************************)
EXTENDS RunStatus

CONSTANT StartStatus

VARIABLES status, cancelRequested

vars == <<status, cancelRequested>>

Init ==
    /\ status \in StartStatus
    /\ cancelRequested = FALSE

\* The request may reach a run that fails at the same moment, never one whose
\* result is public.
RequestCancellation ==
    /\ status \notin PublicStatus
    /\ cancelRequested' = TRUE
    /\ UNCHANGED status

\* A cancelling run only finishes its cancellation; a cancellation needs a
\* request; a request rules a result out.
Move(to) ==
    /\ status \notin TerminalStatus
    /\ TransitionAllowed(status, to)
    /\ status = "Cancelling" => to \in CancelStatus
    /\ to \in CancelStatus => cancelRequested
    /\ to \in PublicStatus => ~cancelRequested
    /\ status' = to
    /\ UNCHANGED cancelRequested

Next ==
    \/ RequestCancellation
    \/ \E to \in RunStatuses : Move(to)

Spec == Init /\ [][Next]_vars
=============================================================================
