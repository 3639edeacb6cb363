---------------------------- MODULE ArbiterInputs ----------------------------
(***************************************************************************)
(* What the arbiters of R3 are asked about (src/run.rs): the accepted      *)
(* lanes of R1 and R2, the evidence packet made from them and the verdict  *)
(* of the counterpart arbiter are bound by r3/input-receipt.json, the      *)
(* receipt by the manifest and the challenge, and every command checks the *)
(* chain before it goes on.                                                *)
(*                                                                         *)
(* One command at a time holds .run.lock (RunStore), and may be killed     *)
(* between any two writes.  Somebody else may edit a file of the run at    *)
(* any time, between commands or under one.  A digest is the thing itself. *)
(* The accepted.json files of the lanes count as one file.  The response's *)
(* own file, its acceptance and the challenge's expiry are PrimaryArbiter; *)
(* a verdict stands for one whose content is valid.                        *)
(***************************************************************************)
EXTENDS RunStatus, Naturals

CONSTANTS
    Content,    \* what an artifact may say
    Missing,    \* an artifact that is not there
    MaxKills,   \* bound: commands killed
    MaxEdits    \* bound: files edited

\* What is missing has no content, and the bounds are numbers: a hypothesis of
\* the theorems.
InputsAssumption ==
    /\ Missing \notin Content
    /\ MaxKills \in Nat
    /\ MaxEdits \in Nat

\* lanes/*/accepted.json, r3/evidence-packet.json and r3/cc-response.json.
Artifact == {"lanes", "evidence", "cc"}

Artifacts == [Artifact -> Content \cup {Missing}]

NoArtifacts == [a \in Artifact |-> Missing]

\* A receipt has the time it was issued, here its number.
Receipts == [issued : Nat, names : Artifacts]
NoReceipt == [issued |-> 0, names |-> NoArtifacts]

\* What the challenge, a response and primary-arbiter-packet.json bind.
Bindings == [receipt : Receipts, evidence : Content \cup {Missing}]
NoBinding == [receipt |-> NoReceipt, evidence |-> Missing]

Packets == [binding : Bindings, cc : Content \cup {Missing}]
NoPacket == [binding |-> NoBinding, cc |-> Missing]

Manifests ==
    [status : RunStatuses, receipt : Receipts, challenge : Bindings,
     answer : Bindings]

VARIABLES
    auto,             \* policy.auto_primary_arbiter
    manifest,         \* manifest.json
    inputs,           \* the artifacts on disk
    receipt,          \* r3/input-receipt.json
    packet,           \* r3/primary-arbiter-packet.json
    request,          \* r3/primary-arbiter-request.json
    result,           \* result.json: the artifacts it was made from
    cancelRequested,  \* cancel.requested exists
    at,               \* where the command stands
    mem,              \* its in-memory manifest
    loaded,           \* the lanes it loaded
    issued,           \* history: receipts written
    kills,            \* history: commands killed
    edits,            \* history: files edited
    late              \* history: a file was edited under a command

files == <<inputs, receipt, packet, request, result>>
history == <<issued, kills, edits, late>>
vars == <<auto, manifest, files, cancelRequested, at, mem, loaded, history>>

Init ==
    /\ auto \in BOOLEAN
    /\ manifest = [status |-> "R2Gate", receipt |-> NoReceipt,
                   challenge |-> NoBinding, answer |-> NoBinding]
    /\ \E c \in Content : inputs = [NoArtifacts EXCEPT !["lanes"] = c]
    /\ receipt = NoReceipt
    /\ packet = NoPacket
    /\ request = NoBinding
    /\ result = NoArtifacts
    /\ cancelRequested = FALSE
    /\ at = "idle"
    /\ mem = manifest
    /\ loaded = Missing
    /\ issued = 0
    /\ kills = 0
    /\ edits = 0
    /\ late = FALSE

-----------------------------------------------------------------------------
(* The checks.                                                             *)

\* verify_r3_input_receipt.
ReceiptHolds(m) == receipt = m.receipt /\ inputs = receipt.names

PacketOf(m) ==
    [binding |-> [receipt |-> m.receipt, evidence |-> inputs["evidence"]],
     cc |-> inputs["cc"]]

\* verify_primary_arbiter_packet: a packet needs a receipt to be compared with.
PacketHolds(m) ==
    packet # NoPacket => m.receipt # NoReceipt /\ packet = PacketOf(m)

\* validate_primary_arbiter_response_binding.
Binds(m, answer) ==
    /\ answer = m.challenge
    /\ answer = [receipt |-> m.receipt, evidence |-> inputs["evidence"]]

\* verify_resume_integrity.
ResumeIntegrity(m) ==
    /\ m.receipt # NoReceipt => ReceiptHolds(m)
    /\ PacketHolds(m)
    /\ m.answer # NoBinding => Binds(m, m.answer)

-----------------------------------------------------------------------------
(* The store, as a command that holds the lock sees it (RunLifecycle).     *)

Save(m) ==
    /\ mem' = m
    /\ manifest' = IF \/ Terminal(manifest.status)
                      \/ manifest.status = "Cancelling"
                      \/ cancelRequested
                   THEN manifest ELSE m

MoveTo(m, s) ==
    LET to == Effective(s, manifest.status, cancelRequested)
        base == IF to \in CancelStatus THEN manifest ELSE m
    IN  /\ IF Terminal(manifest.status)
           THEN manifest' = manifest
           ELSE /\ TransitionAllowed(manifest.status, to)
                /\ manifest' = [base EXCEPT !.status = to]
        /\ mem' = manifest'

\* The command ends with a transition.
End(m, s) ==
    /\ MoveTo(m, s)
    /\ at' = "idle"
    /\ UNCHANGED <<auto, files, cancelRequested, loaded, history>>

\* The command goes on at loc.
Go(loc) == at' = loc /\ UNCHANGED <<auto, cancelRequested, kills, edits, late>>

\* A test of the command's own: it changes nothing else.
Pass(loc) ==
    /\ Go(loc)
    /\ UNCHANGED <<manifest, files, mem, loaded, issued>>

-----------------------------------------------------------------------------
(* advance(), from the accepted lanes of R1 and R2 on.                     *)

Advance ==
    /\ at = "idle"
    /\ ~Terminal(manifest.status)
    /\ mem' = manifest
    /\ ResumeIntegrity(manifest)
    /\ Go("load")
    /\ UNCHANGED <<manifest, files, loaded, issued>>

AdvanceDrifts ==
    /\ at = "idle"
    /\ ~Terminal(manifest.status)
    /\ ~ResumeIntegrity(manifest)
    /\ End(manifest, "FailedPolicy")

\* load_phase for both rounds; the evidence packet is written once.
WriteEvidence ==
    /\ at = "load"
    /\ loaded' = inputs["lanes"]
    /\ inputs' = IF inputs["evidence"] = Missing
                 THEN [inputs EXCEPT !["evidence"] = inputs["lanes"]]
                 ELSE inputs
    /\ Go("counterpart")
    /\ UNCHANGED <<manifest, receipt, packet, request, result, mem, issued>>

CounterpartHeard ==
    /\ at = "counterpart"
    /\ inputs["cc"] # Missing
    /\ Pass("receipt")

AskCounterpart ==
    /\ at = "counterpart"
    /\ inputs["cc"] = Missing
    /\ MoveTo(mem, "R3Cc")
    /\ Go(IF mem'.status = "Cancelled" THEN "idle" ELSE "asked")
    /\ UNCHANGED <<files, loaded, issued>>

CounterpartAnswers ==
    /\ at = "asked"
    /\ \E c \in Content : inputs' = [inputs EXCEPT !["cc"] = c]
    /\ Go("receipt")
    /\ UNCHANGED <<manifest, receipt, packet, request, result, mem, loaded, issued>>

CounterpartFails ==
    /\ at = "asked"
    /\ End(mem, "Failed")

NeedsReceipt == mem.receipt = NoReceipt

\* ensure_r3_input_receipt: the receipt is bound in memory only.
IssueReceipt ==
    /\ at = "receipt"
    /\ NeedsReceipt
    /\ issued' = issued + 1
    /\ receipt' = [issued |-> issued', names |-> inputs]
    /\ mem' = [mem EXCEPT !.receipt = receipt']
    /\ Go("bound")
    /\ UNCHANGED <<manifest, inputs, packet, request, result, loaded>>

ReceiptStands ==
    /\ at = "receipt"
    /\ ~NeedsReceipt
    /\ ReceiptHolds(mem)
    /\ Pass("bound")

ReceiptDrifts ==
    /\ at = "receipt"
    /\ ~NeedsReceipt
    /\ ~ReceiptHolds(mem)
    /\ End(mem, "FailedPolicy")

Unanswered == at = "bound" /\ mem.answer = NoBinding

SaveChallenge(m) == Save(m)

\* The challenge is saved, and the receipt with it.
CreateChallenge ==
    /\ Unanswered
    /\ mem.challenge = NoBinding
    /\ SaveChallenge([mem EXCEPT !.challenge =
           [receipt |-> mem.receipt, evidence |-> inputs["evidence"]]])
    /\ Go("challenged")
    /\ UNCHANGED <<files, loaded, issued>>

ChallengeStands ==
    /\ Unanswered
    /\ mem.challenge # NoBinding
    /\ Pass("challenged")

\* ensure_primary_arbiter_packet.
WritePacket ==
    /\ at = "challenged"
    /\ auto
    /\ PacketHolds(mem)
    /\ packet' = PacketOf(mem)
    /\ Go("lane")
    /\ UNCHANGED <<manifest, inputs, receipt, request, result, mem, loaded, issued>>

PacketDrifts ==
    /\ at = "challenged"
    /\ auto
    /\ ~PacketHolds(mem)
    /\ End(mem, "FailedPolicy")

Answer(m) == [m EXCEPT !.answer = m.challenge]

\* bound_primary_response and stage_primary_response.
LaneAnswers ==
    /\ at = "lane"
    /\ Binds(mem, mem.challenge)
    /\ Save(Answer(mem))
    /\ Go("answered")
    /\ UNCHANGED <<files, loaded, issued>>

\* The lane fails or notices a cancellation, or its answer binds no longer
\* what is on disk.
LaneEnds ==
    /\ at = "lane"
    /\ \/ End(mem, "Failed")
       \/ cancelRequested /\ End(mem, "Cancelled")
       \/ ~Binds(mem, mem.challenge) /\ End(mem, "FailedPolicy")

PublishRequest ==
    /\ at = "challenged"
    /\ ~auto
    /\ request' = mem.challenge
    /\ Go("requested")
    /\ UNCHANGED <<manifest, inputs, receipt, packet, result, mem, loaded, issued>>

Handoff ==
    /\ at = "requested"
    /\ End(mem, "WaitingPrimaryArbiter")

AnswerFound ==
    /\ at = "bound"
    /\ mem.answer # NoBinding
    /\ Pass("answered")

Merge ==
    /\ at = "answered"
    /\ Binds(mem, mem.answer)
    /\ MoveTo(mem, "Merging")
    /\ Go(IF mem'.status = "Cancelled" THEN "idle" ELSE "merge")
    /\ UNCHANGED <<files, loaded, issued>>

AnswerDrifts ==
    /\ at = "answered"
    /\ ~Binds(mem, mem.answer)
    /\ End(mem, "FailedPolicy")

\* An answer that stops binding here is an error of advance(), which a worker
\* records as its failure.
MergeFails ==
    /\ at = "merge"
    /\ ~Binds(mem, mem.answer)
    /\ \/ Pass("idle")
       \/ End(mem, "Failed")

\* finalization_guard: no cancellation is requested from here on.
Finalize ==
    /\ at = "merge"
    /\ Binds(mem, mem.answer)
    /\ IF cancelRequested THEN End(mem, "Cancelled") ELSE Pass("publish")

\* write_run_result reads the counterpart's verdict again.
PublishResult ==
    /\ at = "publish"
    /\ result' = [lanes |-> loaded, evidence |-> mem.answer.evidence,
                  cc |-> inputs["cc"]]
    /\ Go("published")
    /\ UNCHANGED <<manifest, inputs, receipt, packet, request, mem, loaded, issued>>

Complete ==
    /\ at = "published"
    /\ End(mem, "Completed")

AdvanceStep ==
    \/ Advance \/ AdvanceDrifts \/ WriteEvidence
    \/ CounterpartHeard \/ AskCounterpart \/ CounterpartAnswers \/ CounterpartFails
    \/ IssueReceipt \/ ReceiptStands \/ ReceiptDrifts
    \/ CreateChallenge \/ ChallengeStands
    \/ WritePacket \/ PacketDrifts \/ LaneAnswers \/ LaneEnds
    \/ PublishRequest \/ Handoff \/ AnswerFound
    \/ Merge \/ AnswerDrifts \/ MergeFails \/ Finalize \/ PublishResult \/ Complete

-----------------------------------------------------------------------------
(* primary-arbiter submit and amend, each under the lock.                  *)

\* The client answers the request it reads; its response names what that binds.
\* A refused one changes nothing.  advance() follows, as a command of its own.
Submit ==
    /\ at = "idle"
    /\ request # NoBinding
    /\ ResumeIntegrity(manifest)
    /\ manifest.answer = NoBinding
    /\ manifest.status = "WaitingPrimaryArbiter"
    /\ Binds(manifest, request)
    /\ Save([manifest EXCEPT !.answer = request])
    /\ UNCHANGED <<auto, files, cancelRequested, at, loaded, history>>

SubmitDrifts ==
    /\ at = "idle"
    /\ request # NoBinding
    /\ ~Terminal(manifest.status)
    /\ ~ResumeIntegrity(manifest)
    /\ End(manifest, "FailedPolicy")

\* An amendment merges another verdict with the lanes and the counterpart's
\* verdict as they are, provided that the receipt holds.
Amend ==
    /\ at = "idle"
    /\ manifest.status = "Completed"
    /\ ReceiptHolds(manifest)
    /\ result' = [inputs EXCEPT !["evidence"] = result["evidence"]]
    /\ UNCHANGED <<auto, manifest, inputs, receipt, packet, request,
                   cancelRequested, at, mem, loaded, history>>

-----------------------------------------------------------------------------
(* Everybody else.                                                         *)

RequestCancel ==
    /\ at \notin {"publish", "published"}
    /\ ~Terminal(manifest.status)
    /\ cancelRequested' = TRUE
    /\ UNCHANGED <<auto, manifest, files, at, mem, loaded, history>>

CancelMoves ==
    /\ cancelRequested
    /\ \E s \in CancelStatus :
          /\ ~Terminal(manifest.status)
          /\ manifest' = [manifest EXCEPT !.status = s]
    /\ UNCHANGED <<auto, files, cancelRequested, at, mem, loaded, history>>

Kill ==
    /\ at # "idle"
    /\ kills < MaxKills
    /\ kills' = kills + 1
    /\ at' = "idle"
    /\ UNCHANGED <<auto, manifest, files, cancelRequested, mem, loaded, issued,
                   edits, late>>

\* An artifact, the receipt or the packet gets another content.
Edit ==
    /\ edits < MaxEdits
    /\ edits' = edits + 1
    /\ late' = (late \/ at # "idle")
    /\ \E a \in Artifact, c \in Content :
          \/ /\ inputs[a] \notin {Missing, c}
             /\ inputs' = [inputs EXCEPT ![a] = c]
             /\ UNCHANGED <<receipt, packet>>
          \/ /\ receipt # NoReceipt /\ receipt.names[a] # c
             /\ receipt' = [receipt EXCEPT !.names[a] = c]
             /\ UNCHANGED <<inputs, packet>>
          \/ /\ packet # NoPacket /\ packet.cc # c
             /\ packet' = [packet EXCEPT !.cc = c]
             /\ UNCHANGED <<inputs, receipt>>
    /\ UNCHANGED <<auto, manifest, request, result, cancelRequested, at, mem,
                   loaded, issued, kills>>

Next ==
    \/ AdvanceStep \/ Submit \/ SubmitDrifts \/ Amend
    \/ RequestCancel \/ CancelMoves \/ Kill \/ Edit

Spec == Init /\ [][Next]_vars

-----------------------------------------------------------------------------
(* Properties.                                                             *)

\* Each file and manifest, the one in memory included, has the shape the code
\* gives it (struct R3InputReceipt, PrimaryArbiterChallenge of model.rs).
TypeOK ==
    /\ manifest \in Manifests
    /\ mem \in Manifests
    /\ inputs \in Artifacts
    /\ receipt \in Receipts
    /\ packet \in Packets
    /\ request \in Bindings
    /\ result \in Artifacts

\* What a run leaves behind when it is killed, cancelled and resumed never
\* looks like an edit: FailedPolicy for a drift means that somebody edited a
\* file.  A receipt issued again after a crash, and a packet or a response
\* written in between, are where resume (run.rs:2388) could be mistaken.
NoFalseDrift == manifest.status = "FailedPolicy" => edits > 0

\* A result, published or amended, is made from the artifacts the receipt in
\* the manifest names, and the verdict answers that evidence packet, unless a
\* file changed while a command was at work: one that is edited between two
\* commands never gets into a result (run.rs:4546 reads cc-response.json long
\* after it was bound).
ResultOfBoundInputs ==
    result # NoArtifacts /\ ~late => result = manifest.receipt.names

\* Once the manifest binds a receipt and a challenge it keeps them, whatever
\* is killed, cancelled, edited or resumed: nobody is asked twice about
\* different inputs (run.rs:4108 issues a receipt only where there is none).
BindingIsKept ==
    [][/\ manifest.receipt # NoReceipt => manifest'.receipt = manifest.receipt
       /\ manifest.challenge # NoBinding
              => manifest'.challenge = manifest.challenge]_vars

\* To the store these commands are callers that RunLifecycle describes, though
\* what they have in memory when they save may be older than the manifest.
Lifecycle == INSTANCE RunLifecycle WITH StartStatus <- {"R2Gate"},
                                        status <- manifest.status
LifecycleSpec == Lifecycle!Spec
=============================================================================
