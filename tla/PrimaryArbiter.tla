--------------------------- MODULE PrimaryArbiter ---------------------------
(***************************************************************************)
(* The handshake with the primary arbiter (src/run.rs): the challenge, the *)
(* submission of a response, its acceptance, the result merged from it,    *)
(* and the amendment of that result later on.                              *)
(*                                                                         *)
(* The commands are `quinte resume` or a worker (advance, from the point   *)
(* where the counterpart arbiter was heard), `primary-arbiter submit`,     *)
(* `primary-arbiter amend` and a check of the result.  The first three run *)
(* under .run.lock and may be killed between any two writes.  The store is *)
(* taken as RunLifecycle describes it, a transition or a save_manifest     *)
(* being one step; `quinte cancel` appears as the steps it makes there.    *)
(*                                                                         *)
(* A response is one that passed the checks of the file a client hands in  *)
(* (schema, degenerate verdict, evidence references).  It stands for its   *)
(* own digest and for the result merged from it.                           *)
(***************************************************************************)
EXTENDS RunStatus, Naturals

CONSTANTS
    Proc,        \* processes that run a command
    Response,    \* the responses clients may submit, or amend with
    MaxKills,    \* bound: processes killed
    NoProc,      \* the holder of a free lock
    NoResponse   \* no response

ASSUME ArbiterAssumption ==
    /\ NoProc \notin Proc
    /\ NoResponse \notin Response
    /\ MaxKills \in Nat

MaybeResponse == Response \cup {NoResponse}

\* What the handshake keeps in manifest.json: the challenge, the receipt of a
\* submission (its state and the response's digest) and result_sha256.
Manifests ==
    [status : RunStatuses,
     challenge : {"none", "open", "consumed"},
     receipt : {"none", "staging", "accepted"},
     bound : MaybeResponse,
     digest : MaybeResponse]

VARIABLES
    auto,             \* policy.auto_primary_arbiter
    manifest,         \* manifest.json
    request,          \* r3/primary-arbiter-request.json exists
    response,         \* r3/primary-arbiter-response.json
    result,           \* result.json
    cancelRequested,  \* cancel.requested exists
    expired,          \* the challenge's 24 hours are over
    runLock, guard,   \* .run.lock and .active-pids.lock
    at,               \* where a command stands
    mem,              \* its in-memory manifest
    input,            \* the response it was given, or got from the lane
    accepted,         \* history: "primary_arbiter.accepted" events, up to 2
    amended,          \* history: amend wrote a result
    torn,             \* history: amend was killed before it saved the digest
    kills             \* history: processes killed

files == <<request, response, result>>
history == <<accepted, amended, torn, kills>>
vars == <<auto, manifest, files, cancelRequested, expired, runLock, guard, at,
          mem, input, history>>

Init ==
    /\ auto \in BOOLEAN
    /\ manifest = [status |-> "R3Cc", challenge |-> "none", receipt |-> "none",
                   bound |-> NoResponse, digest |-> NoResponse]
    /\ request = FALSE
    /\ response = NoResponse
    /\ result = NoResponse
    /\ cancelRequested = FALSE
    /\ expired = FALSE
    /\ runLock = NoProc
    /\ guard = NoProc
    /\ at = [p \in Proc |-> "idle"]
    /\ mem = [p \in Proc |-> manifest]
    /\ input = [p \in Proc |-> NoResponse]
    /\ accepted = 0
    /\ amended = FALSE
    /\ torn = FALSE
    /\ kills = 0

-----------------------------------------------------------------------------
(* The store, as its callers see it.                                       *)

To(p, loc) == at' = [at EXCEPT ![p] = loc]

Knows(p, m) == mem' = [mem EXCEPT ![p] = m]

SaveSkipped ==
    Terminal(manifest.status) \/ manifest.status = "Cancelling" \/ cancelRequested

\* save_manifest.
Save(p, m) ==
    /\ Knows(p, m)
    /\ manifest' = IF SaveSkipped THEN manifest ELSE m

\* transition(): a cancellation rewrites the manifest on disk, anything else
\* the caller's; a terminal run is handed back.
MoveTo(p, m, s) ==
    LET to == Effective(s, manifest.status, cancelRequested)
        base == IF to \in CancelStatus THEN manifest ELSE m
    IN  /\ \/ /\ Terminal(manifest.status)
              /\ manifest' = manifest
           \/ /\ ~Terminal(manifest.status)
              /\ TransitionAllowed(manifest.status, to)
              /\ manifest' = [base EXCEPT !.status = to]
        /\ Knows(p, manifest')

\* The command returns and drops its locks.
Leave(p) ==
    /\ To(p, "idle")
    /\ runLock' = NoProc
    /\ guard' = IF guard = p THEN NoProc ELSE guard
    /\ input' = [input EXCEPT ![p] = NoResponse]

Return(p) ==
    /\ Leave(p)
    /\ UNCHANGED <<auto, manifest, files, cancelRequested, expired, mem, history>>

\* It returns after a last transition.
ReturnWith(p, m, s) ==
    /\ MoveTo(p, m, s)
    /\ Leave(p)
    /\ UNCHANGED <<auto, files, cancelRequested, expired, history>>

Lock(p, loc) ==
    /\ runLock = NoProc
    /\ runLock' = p
    /\ Knows(p, manifest)
    /\ To(p, loc)
    /\ UNCHANGED <<auto, manifest, files, cancelRequested, expired, guard, history>>

\* A step of the command's own, which keeps its locks.
Keeps == UNCHANGED <<auto, cancelRequested, expired, runLock, guard>>

-----------------------------------------------------------------------------
(* What recover_primary_arbiter_submission looks at and does.              *)

\* The response on disk, if any, is the one the receipt names; an accepted one
\* is there, and its challenge is consumed.  verify_resume_integrity fails the
\* run otherwise, which NeverDrifts shows it need not do for what the commands
\* themselves leave behind; files that others change are in RunScheduler
\* (IntegrityDrift).
Intact(m) ==
    m.receipt # "none"
    => /\ response # NoResponse => response = m.bound
       /\ m.receipt = "accepted"
              => response # NoResponse /\ m.challenge = "consumed"

\* Mutated: a submission is ready as soon as it has a receipt.
ReceiptIsReady(m) == m.receipt # "none"

Ready(m) == m.receipt # "none" /\ response # NoResponse

\* Mutated: acceptance leaves the challenge open.
AcceptOnly(m) == [m EXCEPT !.receipt = "accepted"]

Accept(m) == [m EXCEPT !.receipt = "accepted", !.challenge = "consumed"]

Stage(m, r) == [m EXCEPT !.receipt = "staging", !.bound = r]

\* validate_new_primary_arbiter_response: only a new submission is refused for
\* its challenge.
ChallengeIsOpen(m) == m.challenge = "open" /\ ~expired

-----------------------------------------------------------------------------
(* primary-arbiter submit.                                                 *)

\* submit_primary_arbiter_verdict binds the verdict to the challenge of a
\* manifest it loads without the lock, and then takes the lock.
BeginSubmit(p, r) ==
    /\ at[p] = "idle"
    /\ manifest.challenge # "none"
    /\ Lock(p, "submit")
    /\ input' = [input EXCEPT ![p] = r]

\* Mutated: a later response replaces an earlier one; a repeated one is refused.
LastSubmissionWins(p) == FALSE
RepeatRefused(p) == mem[p].receipt # "none"

\* "already has a different scheduler-owned submission".
OtherSubmission(p) == mem[p].bound # input[p]

\* Mutated: a receipt is no obstacle.
MayStageAgain(p) ==
    mem[p].status = "WaitingPrimaryArbiter" /\ ChallengeIsOpen(mem[p])

MayStage(p) ==
    /\ mem[p].receipt = "none"
    /\ mem[p].status = "WaitingPrimaryArbiter"
    /\ ChallengeIsOpen(mem[p])

SubmitRefused(p) ==
    /\ at[p] = "submit"
    /\ IF mem[p].receipt = "none" THEN ~MayStage(p) ELSE OtherSubmission(p)
    /\ Return(p)

StageSubmission(p) ==
    /\ at[p] = "submit"
    /\ MayStage(p)
    /\ Save(p, Stage(mem[p], input[p]))
    /\ To(p, "staged")
    /\ Keeps /\ UNCHANGED <<files, input, history>>

\* An identical retry goes on from the receipt, whatever the status and
\* the challenge are by now.
Resubmit(p) ==
    /\ at[p] = "submit"
    /\ mem[p].receipt # "none"
    /\ ~OtherSubmission(p)
    /\ To(p, "staged")
    /\ Keeps /\ UNCHANGED <<manifest, files, mem, input, history>>

WriteResponse(p) ==
    /\ at[p] \in {"staged", "autoStaged"}
    /\ response' = input[p]
    /\ To(p, IF at[p] = "staged" THEN "written" ELSE "autoWritten")
    /\ Keeps /\ UNCHANGED <<manifest, request, result, mem, input, history>>

NotYetAccepted(p) == mem[p].receipt # "accepted"

\* The receipt is accepted and saved.  submit records the acceptance, unless
\* the receipt said so already; the automatic path records nothing.
AcceptResponse(p) ==
    /\ at[p] \in {"written", "autoWritten"}
    /\ Save(p, Accept(mem[p]))
    /\ To(p, IF at[p] = "autoWritten" THEN "advance"
             ELSE IF NotYetAccepted(p) THEN "record" ELSE "release")
    /\ Keeps /\ UNCHANGED <<files, input, history>>

RecordAcceptance(p) ==
    /\ at[p] = "record"
    /\ accepted' = IF accepted < 2 THEN accepted + 1 ELSE 2
    /\ To(p, "release")
    /\ Keeps
    /\ UNCHANGED <<manifest, files, mem, input, amended, torn, kills>>

\* drop(_lock); advance(..): somebody else may get the lock in between.
Release(p) ==
    /\ at[p] = "release"
    /\ To(p, "again")
    /\ runLock' = NoProc
    /\ UNCHANGED <<auto, manifest, files, cancelRequested, expired, guard, mem,
                   input, history>>

AdvanceAgain(p) ==
    /\ at[p] = "again"
    /\ Lock(p, "advance")
    /\ input' = [input EXCEPT ![p] = NoResponse]

AdvanceBusy(p) ==
    /\ at[p] = "again"
    /\ runLock # NoProc
    /\ To(p, "idle")
    /\ input' = [input EXCEPT ![p] = NoResponse]
    /\ Keeps /\ UNCHANGED <<manifest, files, mem, history>>

-----------------------------------------------------------------------------
(* advance(), from the accepted counterpart arbiter on.                    *)

BeginAdvance(p) ==
    /\ at[p] = "idle"
    /\ Lock(p, "advance")
    /\ UNCHANGED input

AdvanceTerminal(p) ==
    /\ at[p] = "advance"
    /\ Terminal(mem[p].status)
    /\ Return(p)

Advancing(p) == at[p] = "advance" /\ ~Terminal(mem[p].status)

Unanswered(p) == Advancing(p) /\ mem[p].receipt = "none"

\* The challenge is saved before the request is published.
CreateChallenge(p) ==
    /\ Unanswered(p)
    /\ mem[p].challenge = "none"
    /\ Save(p, [mem[p] EXCEPT !.challenge = "open"])
    /\ Keeps /\ UNCHANGED <<files, at, input, history>>

PublishRequest(p) ==
    /\ Unanswered(p)
    /\ mem[p].challenge # "none"
    /\ ~auto
    /\ request' = TRUE
    /\ To(p, "handoff")
    /\ Keeps /\ UNCHANGED <<manifest, response, result, mem, input, history>>

Handoff(p) ==
    /\ at[p] = "handoff"
    /\ ReturnWith(p, mem[p], "WaitingPrimaryArbiter")

\* The automatic lane answers: stage_primary_response.
StageAutomatic(p) ==
    /\ Unanswered(p)
    /\ auto
    /\ ChallengeIsOpen(mem[p])
    /\ \E r \in Response :
          /\ input' = [input EXCEPT ![p] = r]
          /\ Save(p, Stage(mem[p], r))
    /\ To(p, "autoStaged")
    /\ Keeps /\ UNCHANGED <<files, history>>

\* The lane fails; its packet or its response is refused; or it noticed a
\* cancellation.
AutomaticFails(p) ==
    /\ Unanswered(p)
    /\ auto
    /\ mem[p].challenge # "none"
    /\ \/ ReturnWith(p, mem[p], "Failed")
       \/ ReturnWith(p, mem[p], "FailedPolicy")
       \/ cancelRequested /\ ReturnWith(p, mem[p], "Cancelled")

\* A receipt without its response: the client has to submit it again.
AwaitResubmission(p) ==
    /\ Advancing(p)
    /\ mem[p].receipt = "staging"
    /\ ~Ready(mem[p])
    /\ ReturnWith(p, mem[p], "WaitingPrimaryArbiter")

\* A staged response that is there is accepted, and saved with the transition.
Merge(p) ==
    /\ Advancing(p)
    /\ Ready(mem[p])
    /\ MoveTo(p, Accept(mem[p]), "Merging")
    /\ To(p, "merge")
    /\ Keeps /\ UNCHANGED <<files, input, history>>

MergeCancelled(p) ==
    /\ at[p] = "merge"
    /\ mem[p].status = "Cancelled"
    /\ Return(p)

\* finalization_guard, and the test for a cancellation under it.
Finalize(p) ==
    /\ at[p] = "merge"
    /\ mem[p].status # "Cancelled"
    /\ guard = NoProc
    /\ IF cancelRequested
       THEN ReturnWith(p, mem[p], "Cancelled")
       ELSE /\ guard' = p
            /\ To(p, "publish")
            /\ UNCHANGED <<auto, manifest, files, cancelRequested, expired,
                           runLock, mem, input, history>>

\* write_run_result; its digest goes to the in-memory manifest.
PublishResult(p) ==
    /\ at[p] = "publish"
    /\ result' = response
    /\ Knows(p, [mem[p] EXCEPT !.digest = response])
    /\ To(p, "published")
    /\ Keeps /\ UNCHANGED <<manifest, request, response, input, history>>

Complete(p) ==
    /\ at[p] = "published"
    /\ ReturnWith(p, mem[p], "Completed")

-----------------------------------------------------------------------------
(* primary-arbiter amend, and verify_result_integrity.                     *)

BeginAmend(p, r) ==
    /\ at[p] = "idle"
    /\ Lock(p, "amend")
    /\ input' = [input EXCEPT ![p] = r]

MayAmend(p) == mem[p].status = "Completed"

AmendRefused(p) ==
    /\ at[p] = "amend"
    /\ ~MayAmend(p)
    /\ Return(p)

AmendResult(p) ==
    /\ at[p] = "amend"
    /\ MayAmend(p)
    /\ result' = input[p]
    /\ amended' = TRUE
    /\ Knows(p, [mem[p] EXCEPT !.digest = input[p]])
    /\ To(p, "amending")
    /\ Keeps
    /\ UNCHANGED <<manifest, request, response, input, accepted, torn, kills>>

\* Mutated: the digest goes through save_manifest.
AmendThroughSave(p) == Save(p, mem[p])

\* save_manifest_after_terminal.
SaveAfterTerminal(p) == manifest' = mem[p] /\ Knows(p, mem[p])

AmendDigest(p) ==
    /\ at[p] = "amending"
    /\ SaveAfterTerminal(p)
    /\ torn' = FALSE
    /\ Leave(p)
    /\ UNCHANGED <<auto, files, cancelRequested, expired, accepted, amended, kills>>

Published(m) == m.status \in PublicStatus

\* Without a lock: load_manifest, then one read of result.json.
BeginVerify(p) ==
    /\ at[p] = "idle"
    /\ Published(manifest)
    /\ Knows(p, manifest)
    /\ To(p, "verify")
    /\ Keeps /\ UNCHANGED <<manifest, files, input, history>>

Verify(p) ==
    /\ at[p] = "verify"
    /\ To(p, IF result = mem[p].digest THEN "idle" ELSE "mismatch")
    /\ Keeps /\ UNCHANGED <<manifest, files, mem, input, history>>

ReportMismatch(p) ==
    /\ at[p] = "mismatch"
    /\ To(p, "idle")
    /\ Keeps /\ UNCHANGED <<manifest, files, mem, input, history>>

-----------------------------------------------------------------------------
(* quinte cancel, time, and processes that are killed.                     *)

Others == UNCHANGED <<auto, request, response, runLock, guard, at, mem, input,
                      history>>

\* request_cancellation, under .active-pids.lock.
RequestCancellation ==
    /\ guard = NoProc
    /\ ~Terminal(manifest.status)
    /\ cancelRequested' = TRUE
    /\ result' = NoResponse
    /\ Others /\ UNCHANGED <<manifest, expired>>

\* The transitions to cancelling and to cancelled.
Cancel ==
    /\ cancelRequested
    /\ ~Terminal(manifest.status)
    /\ manifest' = [manifest EXCEPT
                      !.status = IF manifest.status = "Cancelling"
                                 THEN "Cancelled"
                                 ELSE "Cancelling"]
    /\ Others /\ UNCHANGED <<cancelRequested, result, expired>>

Expire ==
    /\ manifest.challenge # "none"
    /\ ~expired
    /\ expired' = TRUE
    /\ Others /\ UNCHANGED <<manifest, result, cancelRequested>>

Kill(p) ==
    /\ at[p] # "idle"
    /\ kills < MaxKills
    /\ kills' = kills + 1
    /\ torn' = (torn \/ at[p] = "amending")
    /\ at' = [at EXCEPT ![p] = "idle"]
    /\ input' = [input EXCEPT ![p] = NoResponse]
    /\ runLock' = IF runLock = p THEN NoProc ELSE runLock
    /\ guard' = IF guard = p THEN NoProc ELSE guard
    /\ UNCHANGED <<auto, manifest, files, cancelRequested, expired, mem, accepted,
                   amended>>

-----------------------------------------------------------------------------
Submit(p) ==
    \/ SubmitRefused(p) \/ StageSubmission(p) \/ Resubmit(p)
    \/ WriteResponse(p) \/ AcceptResponse(p) \/ RecordAcceptance(p)
    \/ Release(p) \/ AdvanceAgain(p) \/ AdvanceBusy(p)

Advance(p) ==
    \/ AdvanceTerminal(p)
    \/ CreateChallenge(p) \/ PublishRequest(p) \/ Handoff(p)
    \/ StageAutomatic(p) \/ AutomaticFails(p) \/ AwaitResubmission(p)
    \/ Merge(p) \/ MergeCancelled(p) \/ Finalize(p)
    \/ PublishResult(p) \/ Complete(p)

Amend(p) == AmendRefused(p) \/ AmendResult(p) \/ AmendDigest(p)

GoesOn(p) == Submit(p) \/ Advance(p) \/ Amend(p) \/ Verify(p) \/ ReportMismatch(p)

Begin(p) ==
    \/ BeginAdvance(p)
    \/ BeginVerify(p)
    \/ \E r \in Response : BeginSubmit(p, r) \/ BeginAmend(p, r)

Next ==
    \/ \E p \in Proc : Begin(p) \/ GoesOn(p) \/ Kill(p)
    \/ RequestCancellation \/ Cancel \/ Expire

Spec == Init /\ [][Next]_vars

(***************************************************************************)
(* Fairness.  A command that was started runs on.  A client whose submit   *)
(* did not return hands in the identical response again until the run has  *)
(* ended, and its commands do not lose the run lock to another command for *)
(* ever: neither when it submits nor in the advance() at the end of it.    *)
(***************************************************************************)
Retry(p) ==
    /\ manifest.receipt # "none"
    /\ ~Terminal(manifest.status)
    /\ BeginSubmit(p, manifest.bound)

Fairness ==
    /\ \A p \in Proc : WF_vars(GoesOn(p)) /\ SF_vars(AdvanceAgain(p))
    /\ SF_vars(\E p \in Proc : Retry(p))

FairSpec == Spec /\ Fairness

-----------------------------------------------------------------------------
(***************************************************************************)
(* Properties.                                                             *)
(***************************************************************************)

\* The first response the manifest was bound to stays the only one, through
\* crashes, retries and competing submissions ("without accepting a different
\* response").
OneResponse ==
    [][manifest.receipt # "none"
       => manifest'.receipt # "none" /\ manifest'.bound = manifest.bound]_vars

\* No crash, retry or cancellation makes a command find its own files changed
\* ("response changed after scheduler staging", "unconsumed challenge").
NeverDrifts ==
    \A p \in Proc : at[p] \in {"submit", "advance"} => Intact(mem[p])

\* A completed run shows the accepted response, until it is amended; however
\* often that was submitted, its acceptance was recorded once at most.
ResultIsAccepted ==
    manifest.status = "Completed"
        => /\ manifest.receipt = "accepted"
           /\ manifest.challenge = "consumed"
           /\ amended \/ result = manifest.bound
           /\ accepted < 2

\* A result that does not have the digest the manifest names is an amend's: one
\* is between its two writes or was killed there, and the next one repairs it.
\* Nor does a check, which reads the two files without a lock, see a mismatch
\* in a run nobody amends.
MismatchMeansAmend ==
    /\ manifest.status = "Completed"
          => \/ result = manifest.digest
             \/ torn
             \/ \E p \in Proc : at[p] = "amending"
    /\ \A p \in Proc : at[p] = "mismatch" => amended

\* "An identical retry can recover either crash window": a manual run whose
\* response is staged ends, though the challenge may have expired.
RetryRecovers ==
    ~auto /\ manifest.receipt = "staging" ~> Terminal(manifest.status)

\* The handshake treats the store as RunLifecycle says, which is what RunStore
\* implements: its saves carry no status of their own, whatever they skip, and its
\* transitions and cancellations are those callers may rely on.
Lifecycle == INSTANCE RunLifecycle WITH StartStatus <- {"R3Cc"},
                                        status <- manifest.status
LifecycleSpec == Lifecycle!Spec
=============================================================================
