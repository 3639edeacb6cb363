---------------------------- MODULE RunScheduler ----------------------------
(***************************************************************************)
(* The commands that share one run, as callers of RunStore: the scheduler  *)
(* (advance, run by the background worker and by `quinte resume`), `quinte *)
(* cancel`, and the commands that only load the manifest.                  *)
(*                                                                         *)
(* The scheduler is a straight line that skips what the run directory      *)
(* already holds, so that it can be entered again after a crash at any     *)
(* point.  `artifacts` are the files it tests for; a lane phase is one     *)
(* step that accepts all its outputs or fails.  mem.data counts the        *)
(* arbiter's fields of the manifest: 1 with a challenge, 2 with a staged   *)
(* submission, 3 with an accepted one.                                     *)
(***************************************************************************)
EXTENDS RunStore

CONSTANTS
    Worker,        \* processes that run advance()
    Canceller,     \* processes that run cancel(), once each
    Reader,        \* processes that run load_manifest() again and again
    AutoPrimary,   \* policy.auto_primary_arbiter
    MaxSessions    \* bound: calls of advance()

ASSUME ProcAssumption == Proc = Worker \cup Canceller \cup Reader
ASSUME SchedulerAssumption ==
    /\ AutoPrimary \in BOOLEAN
    /\ MaxSessions \in Nat
    /\ StartStatus \subseteq {"Queued"}

VARIABLES
    at,            \* where each command stands
    artifacts,     \* the files of the run directory advance() tests for
    sessions       \* history: calls of advance()

schedVars == <<at, artifacts, sessions>>
allVars == <<vars, schedVars>>

\* "contested" is not a file: r1_contestation recomputes it from the R1 files.
Artifacts ==
    {"R1", "contested", "skipped", "packet", "R2", "cc", "request", "response"}

Challenged == 1
Staged == 2
Accepted == 3

SchedInit ==
    /\ Init
    /\ at = [p \in Proc |-> "idle"]
    /\ artifacts = {}
    /\ sessions = 0

\* p stands at a location, outside any store operation.
At(p, loc) == at[p] = loc /\ op[p] = "none"

To(p, loc) == at' = [at EXCEPT ![p] = loc] /\ UNCHANGED sessions

Only(p, loc) == To(p, loc) /\ UNCHANGED <<vars, artifacts>>

\* `if store.transition(..)? == Cancelled { return }`.
GoesOn(p) == ok[p] /\ mem[p].status # "Cancelled"

Request(p, s, loc) == Transition(p, s) /\ To(p, loc) /\ UNCHANGED artifacts

-----------------------------------------------------------------------------
(* advance(): entry.                                                       *)

BeginAdvance(w) ==
    /\ At(w, "idle")
    /\ sessions < MaxSessions
    /\ TakeRunLock(w)
    /\ at' = [at EXCEPT ![w] = "reconcile"]
    /\ sessions' = sessions + 1
    /\ UNCHANGED artifacts

\* reconcile_orphan_processes, then load_manifest.
ReconcileOrphan(w) ==
    /\ At(w, "reconcile")
    /\ \E l \in Lane : UnregisterProcess(w, l)
    /\ UNCHANGED schedVars

\* "cannot recover run while verified orphan process .. is alive".
ReconcileFails(w) ==
    /\ At(w, "reconcile")
    /\ processes # {}
    /\ DropRunLock(w)
    /\ \E loc \in {"record", "idle"} : To(w, loc)
    /\ UNCHANGED artifacts

BeginLoad(w) ==
    /\ At(w, "reconcile")
    /\ processes = {}
    /\ Load(w)
    /\ To(w, "loaded")
    /\ UNCHANGED artifacts

Loaded(w) == At(w, "loaded") /\ ok[w]

AlreadyTerminal(w) ==
    /\ Loaded(w)
    /\ Terminal(mem[w].status)
    /\ Only(w, "exit")

\* verify_resume_integrity finds a changed input.
IntegrityDrift(w) ==
    /\ Loaded(w)
    /\ ~Terminal(mem[w].status)
    /\ Request(w, "FailedPolicy", "exit")

Preflight(w) ==
    /\ Loaded(w)
    /\ mem[w].status \in {"Queued", "Preflight"}
    /\ Request(w, "Preflight", "preflight")

Resume(w) ==
    /\ Loaded(w)
    /\ ~Terminal(mem[w].status)
    /\ mem[w].status \notin {"Queued", "Preflight"}
    /\ Only(w, "r1")

\* An adapter is missing, or the sandbox is.
PreflightFails(w) ==
    /\ At(w, "preflight")
    /\ GoesOn(w)
    /\ \E s \in {"Failed", "FailedPolicy"} : Request(w, s, "exit")

PreflightPasses(w) ==
    /\ At(w, "preflight")
    /\ GoesOn(w)
    /\ Only(w, "r1")

-----------------------------------------------------------------------------
(* Lane phases: R1, R2, the counterpart arbiter, the primary arbiter.      *)

\* Where a phase runs, what it leaves behind, and where advance() goes next.
Phases ==
    {[loc |-> "r1run", file |-> "R1", next |-> "r1gate"],
     [loc |-> "r2run", file |-> "R2", next |-> "r2gate"],
     [loc |-> "ccrun", file |-> "cc", next |-> "arbiter"]}
PhaseLocs == {"r1run", "r2run", "ccrun", "parun"}

\* Is w in a lane phase?  The primary arbiter is entered without a transition.
InPhase(w) == at[w] \in PhaseLocs /\ op[w] = "none" /\ GoesOn(w)

SpawnChild(w) ==
    /\ InPhase(w)
    /\ BeginRegistration(w)
    /\ UNCHANGED schedVars

RegisterChild(w) ==
    /\ at[w] \in PhaseLocs
    /\ \E l \in Lane : RegisterProcess(w, l)
    /\ UNCHANGED schedVars

ReapChild(w) ==
    /\ InPhase(w)
    /\ \E l \in Lane : UnregisterProcess(w, l)
    /\ UNCHANGED schedVars

\* Every lane was joined, no cancellation was seen, every output was accepted.
\* Whether R1 is contested is a fact about the accepted R1 files.
PhaseAccepted(w) ==
    /\ InPhase(w)
    /\ processes = {}
    /\ ~cancelRequested
    /\ \E ph \in Phases :
          /\ ph.loc = at[w]
          /\ \/ artifacts' = artifacts \cup {ph.file}
             \/ /\ ph.file = "R1"
                /\ artifacts' = artifacts \cup {"R1", "contested"}
          /\ To(w, ph.next)
    /\ UNCHANGED vars

\* A lane exhausts its attempts, or run_phase notices a cancellation: both are
\* errors, and fail_run leaves it to transition() to tell them apart.
PhaseFailed(w) ==
    /\ InPhase(w)
    /\ processes = {}
    /\ Request(w, "Failed", "exit")

\* The arbiters notice a cancellation themselves: cancel_run.
ArbiterCancelled(w) ==
    /\ InPhase(w)
    /\ at[w] \in {"ccrun", "parun"}
    /\ processes = {}
    /\ cancelRequested
    /\ Request(w, "Cancelled", "exit")

-----------------------------------------------------------------------------
(* advance(): R1 to the counterpart arbiter.  Each part is skipped when its *)
(* artifact is there, and each gate when the status is already past it.     *)

RunR1(w) ==
    /\ At(w, "r1")
    /\ "R1" \notin artifacts
    /\ Request(w, "R1Running", "r1run")

LoadR1(w) ==
    /\ At(w, "r1")
    /\ "R1" \in artifacts
    /\ Only(w, "r1gate")

\* Mutated: a resumed run passes the gate once more.
EveryStatus == RunStatuses

BeforeR1Gate == {"Queued", "Preflight", "R1Running"}

R1Gate(w) ==
    /\ At(w, "r1gate")
    /\ mem[w].status \in BeforeR1Gate
    /\ Request(w, "R1Gate", "contest")

PassR1Gate(w) ==
    /\ At(w, "r1gate")
    /\ mem[w].status \notin BeforeR1Gate
    /\ Only(w, "contest")

\* Nothing contested: r2/skipped.json records the decision, and R2 is empty.
SkipR2(w) ==
    /\ At(w, "contest")
    /\ GoesOn(w)
    /\ "skipped" \in artifacts \/ "contested" \notin artifacts
    /\ artifacts' = artifacts \cup {"skipped"}
    /\ To(w, "r2gate")
    /\ UNCHANGED vars

Contested(w) ==
    /\ At(w, "contest")
    /\ GoesOn(w)
    /\ "skipped" \notin artifacts
    /\ "contested" \in artifacts

R2Packet(w) ==
    /\ Contested(w)
    /\ "packet" \notin artifacts
    /\ Request(w, "R2Packet", "packet")

WriteR2Packet(w) ==
    /\ At(w, "packet")
    /\ GoesOn(w)
    /\ artifacts' = artifacts \cup {"packet"}
    /\ To(w, "r2")
    /\ UNCHANGED vars

KeepR2Packet(w) ==
    /\ Contested(w)
    /\ "packet" \in artifacts
    /\ Only(w, "r2")

RunR2(w) ==
    /\ At(w, "r2")
    /\ "R2" \notin artifacts
    /\ Request(w, "R2Running", "r2run")

LoadR2(w) ==
    /\ At(w, "r2")
    /\ "R2" \in artifacts
    /\ Only(w, "r2gate")

BeforeR2Gate == BeforeR1Gate \cup {"R1Gate", "R2Packet", "R2Running"}

R2Gate(w) ==
    /\ At(w, "r2gate")
    /\ mem[w].status \in BeforeR2Gate
    /\ Request(w, "R2Gate", "r3")

PassR2Gate(w) ==
    /\ At(w, "r2gate")
    /\ mem[w].status \notin BeforeR2Gate
    /\ Only(w, "r3")

RunCounterpart(w) ==
    /\ At(w, "r3")
    /\ GoesOn(w)
    /\ "cc" \notin artifacts
    /\ Request(w, "R3Cc", "ccrun")

LoadCounterpart(w) ==
    /\ At(w, "r3")
    /\ GoesOn(w)
    /\ "cc" \in artifacts
    /\ Only(w, "arbiter")

-----------------------------------------------------------------------------
(* advance(): the primary arbiter.                                         *)

\* Mutated: a receipt stays in memory.
Unsaved(w) == EditManifest(w)

Persist(w) == SaveManifest(w)

SubmissionIs(w, n) == At(w, "arbiter") /\ mem[w].data = n

\* The challenge is saved before anybody is asked to answer it.
CreateChallenge(w) ==
    /\ SubmissionIs(w, 0)
    /\ Persist(w)
    /\ UNCHANGED schedVars

\* Manual handoff: publish the request and stop.
PublishRequest(w) ==
    /\ SubmissionIs(w, Challenged)
    /\ ~AutoPrimary
    /\ artifacts' = artifacts \cup {"request"}
    /\ To(w, "await")
    /\ UNCHANGED vars

AwaitPrimary(w) ==
    /\ At(w, "await")
    /\ Request(w, "WaitingPrimaryArbiter", "exit")

RunPrimary(w) ==
    /\ SubmissionIs(w, Challenged)
    /\ AutoPrimary
    /\ Only(w, "parun")

\* stage_primary_response: the receipt is saved, then the response is written,
\* then the receipt is marked accepted and the challenge consumed.
StageResponse(w) ==
    /\ InPhase(w)
    /\ at[w] = "parun"
    /\ processes = {}
    /\ ~cancelRequested
    /\ Persist(w)
    /\ To(w, "staged")
    /\ UNCHANGED artifacts

WriteResponse(w) ==
    /\ At(w, "staged")
    /\ artifacts' = artifacts \cup {"response"}
    /\ To(w, "accepting")
    /\ UNCHANGED vars

AcceptResponse(w) ==
    /\ At(w, "accepting")
    /\ Persist(w)
    /\ To(w, "recover")
    /\ UNCHANGED artifacts

LoadSubmission(w) ==
    /\ At(w, "arbiter")
    /\ mem[w].data >= Staged
    /\ Only(w, "recover")

\* Mutated: the receipt counts for the response.
ResponseAssumed == TRUE

ResponseFound == "response" \in artifacts

\* recover_primary_arbiter_submission, after a crash between two of the above.
RecoverAccepts(w) ==
    /\ At(w, "recover")
    /\ mem[w].data = Staged
    /\ ResponseFound
    /\ EditManifest(w)
    /\ UNCHANGED schedVars

RecoverWaits(w) ==
    /\ At(w, "recover")
    /\ mem[w].data = Staged
    /\ ~ResponseFound
    /\ Request(w, "WaitingPrimaryArbiter", "exit")

Merge(w) ==
    /\ At(w, "recover")
    /\ mem[w].data = Accepted
    /\ Request(w, "Merging", "merge")

-----------------------------------------------------------------------------
(* advance(): finalization and return.                                     *)

Finalize(w) ==
    /\ At(w, "merge")
    /\ GoesOn(w)
    /\ BeginFinalization(w)
    /\ To(w, "publish")
    /\ UNCHANGED artifacts

FinalizeCancelled(w) ==
    /\ At(w, "merge")
    /\ GoesOn(w)
    /\ pidsLock = NoProc
    /\ cancelRequested
    /\ Request(w, "Cancelled", "exit")

PublishResult(w) ==
    /\ at[w] = "publish"
    /\ WriteResult(w)
    /\ UNCHANGED schedVars

Complete(w) ==
    /\ at[w] = "publish"
    /\ op[w] = "published"
    /\ Request(w, "Completed", "finalized")

\* The guard and the run lock are dropped together when advance() returns.
DropGuard(w) ==
    /\ At(w, "finalized")
    /\ EndFinalization(w)
    /\ To(w, "exit")
    /\ UNCHANGED artifacts

Cancelled(w) ==
    /\ at[w] \in PhaseLocs \cup {"preflight", "contest", "packet", "r3", "merge"}
    /\ op[w] = "none"
    /\ ok[w]
    /\ mem[w].status = "Cancelled"
    /\ Only(w, "exit")

ReturnOk(w) ==
    /\ At(w, "exit")
    /\ ok[w]
    /\ DropRunLock(w)
    /\ To(w, "idle")
    /\ UNCHANGED artifacts

RecordLocs == {"record", "recordLoad", "recordLoaded", "recordExit"}

\* A load or a transition failed: advance() returns its error.  A worker then
\* tries to record the failure, `quinte resume` only reports it.
ReturnError(w) ==
    /\ at[w] \notin {"idle", "reconcile", "finalized"} \cup RecordLocs
    /\ op[w] = "none"
    /\ ~ok[w]
    /\ DropRunLock(w)
    /\ \E loc \in {"record", "idle"} : To(w, loc)
    /\ UNCHANGED artifacts

(* record_worker_failure. *)

\* Mutated: the failure is recorded without the run lock.
RecordBeginUnlocked(w) ==
    /\ At(w, "record")
    /\ Only(w, "recordLoad")

RecordBegin(w) ==
    /\ At(w, "record")
    /\ TakeRunLock(w)
    /\ To(w, "recordLoad")
    /\ UNCHANGED artifacts

\* Somebody else advances the run already.
RecordGivesUp(w) ==
    /\ At(w, "record")
    /\ runLock # NoProc
    /\ Only(w, "idle")

RecordLoad(w) ==
    /\ At(w, "recordLoad")
    /\ Load(w)
    /\ To(w, "recordLoaded")
    /\ UNCHANGED artifacts

Settled(s) == Terminal(s) \/ s \in {"WaitingPrimaryArbiter", "Cancelling"}

RecordNothing(w) ==
    /\ At(w, "recordLoaded")
    /\ ok[w]
    /\ Settled(mem[w].status)
    /\ Only(w, "recordExit")

RecordFailure(w) ==
    /\ At(w, "recordLoaded")
    /\ ok[w]
    /\ ~Settled(mem[w].status)
    /\ Request(w, "Failed", "recordExit")

\* Its own failure is ignored.
RecordReturn(w) ==
    /\ \/ At(w, "recordExit")
       \/ At(w, "recordLoaded") /\ ~ok[w]
    /\ DropRunLock(w)
    /\ To(w, "idle")
    /\ UNCHANGED artifacts

-----------------------------------------------------------------------------
(* cancel(): it takes no run lock.                                         *)

\* Mutated: the request is left to transition(), which writes it too late.
CancelLoadOnly(c) ==
    /\ At(c, "idle")
    /\ Load(c)
    /\ To(c, "reloaded")
    /\ UNCHANGED artifacts

CancelLoad(c) ==
    /\ At(c, "idle")
    /\ Load(c)
    /\ To(c, "cancelLoaded")
    /\ UNCHANGED artifacts

CancelRequest(c) ==
    /\ At(c, "cancelLoaded")
    /\ ok[c]
    /\ ~Terminal(mem[c].status)
    /\ RequestCancellation(c)
    /\ To(c, "requested")
    /\ UNCHANGED artifacts

CancelTooLate(c) ==
    /\ At(c, "cancelLoaded")
    /\ ok[c]
    /\ ~Terminal(mem[c].status)
    /\ RequestCancellationTooLate(c)
    /\ To(c, "done")
    /\ UNCHANGED artifacts

CancelReload(c) ==
    /\ At(c, "requested")
    /\ Load(c)
    /\ To(c, "reloaded")
    /\ UNCHANGED artifacts

CancelMark(c) ==
    /\ At(c, "reloaded")
    /\ ok[c]
    /\ Request(c, "Cancelling", "marked")

\* Mutated: the end is always left to a scheduler.
AlwaysSupervised(c) == TRUE

Supervised(c) == snapshot[c] # {}

\* Supervised children are terminated, and the scheduler that supervises them
\* is left to finish the cancellation.
CancelChildren(c) ==
    /\ At(c, "marked")
    /\ ok[c]
    /\ ~Terminal(mem[c].status)
    /\ Supervised(c)
    /\ Only(c, "done")

CancelFinish(c) ==
    /\ At(c, "marked")
    /\ ok[c]
    /\ ~Terminal(mem[c].status)
    /\ ~Supervised(c)
    /\ Request(c, "Cancelled", "finished")

\* The run is found terminal, or was just cancelled.
CancelReturns(c) ==
    /\ at[c] \in {"cancelLoaded", "marked", "finished"}
    /\ op[c] = "none"
    /\ ok[c]
    /\ at[c] # "finished" => Terminal(mem[c].status)
    /\ Only(c, "done")

CancelFails(c) ==
    /\ at[c] \in {"cancelLoaded", "reloaded", "marked", "finished"}
    /\ op[c] = "none"
    /\ ~ok[c]
    /\ Only(c, "failed")

-----------------------------------------------------------------------------
(* status, wait, inspect: load_manifest(), whose error is only reported.   *)

ReaderLoad(r) ==
    /\ At(r, "idle")
    /\ Load(r)
    /\ To(r, "read")
    /\ UNCHANGED artifacts

ReaderReturns(r) ==
    /\ At(r, "read")
    /\ Leave(r)
    /\ To(r, "idle")
    /\ UNCHANGED artifacts

ReaderFails(r) ==
    /\ At(r, "read")
    /\ ~ok[r]
    /\ mem[r] = NoManifest
    /\ Only(r, "idle")

-----------------------------------------------------------------------------
\* The store operation a command has begun goes on.
StoreStep(p) ==
    /\ LoadStep(p) \/ TransitionStep(p) \/ CancellationStep(p)
    /\ UNCHANGED schedVars

Kill(p) ==
    /\ Crash(p)
    /\ at' = [at EXCEPT ![p] = IF p \in Canceller THEN "failed" ELSE "idle"]
    /\ UNCHANGED <<artifacts, sessions>>

Lanes(w) ==
    \/ SpawnChild(w) \/ RegisterChild(w) \/ ReapChild(w)
    \/ PhaseAccepted(w) \/ PhaseFailed(w) \/ ArbiterCancelled(w)

Advance(w) ==
    \/ ReconcileOrphan(w) \/ ReconcileFails(w) \/ BeginLoad(w)
    \/ AlreadyTerminal(w) \/ IntegrityDrift(w) \/ Preflight(w) \/ Resume(w)
    \/ PreflightFails(w) \/ PreflightPasses(w)
    \/ Lanes(w)
    \/ RunR1(w) \/ LoadR1(w) \/ R1Gate(w) \/ PassR1Gate(w)
    \/ SkipR2(w) \/ R2Packet(w) \/ WriteR2Packet(w) \/ KeepR2Packet(w)
    \/ RunR2(w) \/ LoadR2(w) \/ R2Gate(w) \/ PassR2Gate(w)
    \/ RunCounterpart(w) \/ LoadCounterpart(w)
    \/ CreateChallenge(w) \/ PublishRequest(w) \/ AwaitPrimary(w)
    \/ RunPrimary(w)
    \/ StageResponse(w) \/ WriteResponse(w) \/ AcceptResponse(w)
    \/ LoadSubmission(w) \/ RecoverAccepts(w) \/ RecoverWaits(w)
    \/ Merge(w) \/ Finalize(w) \/ FinalizeCancelled(w)
    \/ PublishResult(w) \/ Complete(w) \/ DropGuard(w)
    \/ Cancelled(w) \/ ReturnOk(w) \/ ReturnError(w)
    \/ RecordBegin(w) \/ RecordGivesUp(w) \/ RecordLoad(w)
    \/ RecordNothing(w) \/ RecordFailure(w) \/ RecordReturn(w)

Cancel(c) ==
    \/ CancelLoad(c) \/ CancelRequest(c) \/ CancelTooLate(c) \/ CancelReload(c)
    \/ CancelMark(c) \/ CancelChildren(c) \/ CancelFinish(c)
    \/ CancelReturns(c) \/ CancelFails(c)

Read(r) == ReaderLoad(r) \/ ReaderReturns(r) \/ ReaderFails(r)

SchedNext ==
    \/ \E w \in Worker : BeginAdvance(w) \/ Advance(w)
    \/ \E c \in Canceller : Cancel(c)
    \/ \E r \in Reader : Read(r)
    \/ \E p \in Proc : StoreStep(p) \/ Kill(p)

SchedSpec == SchedInit /\ [][SchedNext]_allVars

(***************************************************************************)
(* Fairness.  A command that was started runs on; nobody has to start one. *)
(* A phase ends although its children come and go: every lane has a budget *)
(* of attempts (max_attempts) and every attempt a timeout, so "no child is *)
(* running" comes back until the phase is over.                            *)
(***************************************************************************)
PhaseEnds(w) == PhaseAccepted(w) \/ PhaseFailed(w) \/ ArbiterCancelled(w)

Fairness ==
    /\ \A w \in Worker : WF_allVars(Advance(w)) /\ SF_allVars(PhaseEnds(w))
    /\ \A c \in Canceller : WF_allVars(Cancel(c))
    /\ \A p \in Proc : WF_allVars(StoreStep(p))

FairSchedSpec == SchedSpec /\ Fairness

-----------------------------------------------------------------------------
(***************************************************************************)
(* Properties.                                                             *)
(***************************************************************************)

\* No command ever meets "illegal run transition", wherever a crash left the
\* run and whatever it skips on its second way through advance().
TransitionsAreLegal ==
    \A p \in Proc :
        op[p] = "decide" /\ ~Terminal(cur[p].status)
        => LET requested == cancelRequested \/ want[p] = "Cancelling"
           IN  TransitionAllowed(cur[p].status,
                                 Effective(want[p], cur[p].status, requested))

\* A published result rests on everything it is merged from, however many
\* sessions of advance() it took: R1, R2 unless its skip was recorded, the
\* counterpart arbiter, and a response accepted in the manifest.
ResultHasEvidence ==
    manifest.status \in PublicStatus
        => /\ {"R1", "cc", "response"} \subseteq artifacts
           /\ "R2" \in artifacts \/ "skipped" \in artifacts
           /\ manifest.data = Accepted

\* The challenge a published request asks for is in the manifest: saved first,
\* so that no crash exposes an orphan.  A cancelled run may differ: its
\* save_manifest calls are skipped silently.
RequestIsOwned ==
    "request" \in artifacts /\ ~cancelRequested => manifest.data >= Challenged

\* The commands keep the rules RunStore's clients keep, so what is shown there
\* holds for them.
StoreRules == Spec

\* A cancellation that returned without an error ends the run: the canceller
\* does, or the scheduler whose children it terminated.
CancellationEnds ==
    \A c \in Canceller : at[c] = "done" ~> Terminal(manifest.status)

\* A session of advance() comes back and drops the run lock: commands that
\* wait for each other's locks do not wait forever.
SessionEnds == \A w \in Worker : at[w] = "reconcile" ~> at[w] = "idle"
=============================================================================
