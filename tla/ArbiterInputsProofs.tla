------------------------- MODULE ArbiterInputsProofs -------------------------
(***************************************************************************)
(* Proofs about ArbiterInputs.                                             *)
(***************************************************************************)
EXTENDS ArbiterInputs, TLAPS

Sites ==
    {"idle", "load", "counterpart", "asked", "receipt", "bound", "challenged",
     "lane", "requested", "answered", "merge", "publish", "published"}

\* The packet has been written; the counterpart has been heard.
Prepared == Sites \ {"idle", "load"}
Heard == Sites \ {"idle", "load", "counterpart", "asked"}

Typed ==
    /\ TypeOK
    /\ at \in Sites
    /\ loaded \in Content \cup {Missing}
    /\ issued \in Nat
    /\ edits \in Nat
    /\ cancelRequested \in BOOLEAN
    /\ late \in BOOLEAN

\* What is there when a command has come so far.
Order ==
    /\ inputs["lanes"] # Missing
    /\ at \in Prepared => inputs["evidence"] # Missing /\ loaded # Missing
    /\ at \in Heard => inputs["cc"] # Missing
    /\ at = "asked" => inputs["cc"] = Missing
    /\ at = "published" => result # NoArtifacts
    /\ manifest.status = "Completed" => result # NoArtifacts
    /\ mem.status = "Completed" => result # NoArtifacts
    /\ manifest.status = "Cancelling" => cancelRequested
    /\ mem.status = "Cancelling" => cancelRequested
    /\ late => edits > 0

\* A manifest binds complete artifacts, and nothing before it has a receipt.
Chained(m) ==
    /\ m.receipt # NoReceipt => \A a \in Artifact : m.receipt.names[a] # Missing
    /\ m.receipt = NoReceipt => m.challenge = NoBinding /\ m.answer = NoBinding

\* A command knows of every binding in the manifest.
Knows ==
    at # "idle" =>
        /\ manifest.receipt # NoReceipt => mem.receipt = manifest.receipt
        /\ manifest.challenge # NoBinding => mem.challenge = manifest.challenge
        /\ at \in {"bound", "challenged", "lane", "requested", "answered"}
               => mem.receipt # NoReceipt
        /\ at \in {"challenged", "lane", "requested"} => mem.challenge # NoBinding
        /\ at \in {"merge", "publish", "published"}
               => mem.receipt = manifest.receipt

Chain == Chained(manifest) /\ Chained(mem) /\ Knows

\* As long as no file changed under a command, the artifacts are those its
\* receipt names.
Fresh ==
    ~late =>
        /\ at # "idle" /\ mem.receipt # NoReceipt => ReceiptHolds(mem)
        /\ at \in Prepared => loaded = inputs["lanes"]
        /\ at = "publish" => /\ mem.receipt # NoReceipt
                             /\ mem.answer.evidence = inputs["evidence"]
        /\ result # NoArtifacts => /\ manifest.receipt # NoReceipt
                                   /\ result = manifest.receipt.names

Stopped == cancelRequested \/ Terminal(manifest.status)

\* The manifest as it is in memory when its receipt is new.
NewReceipt ==
    /\ at = "bound"
    /\ manifest.receipt = NoReceipt
    /\ mem = [manifest EXCEPT !.receipt = receipt]
    /\ receipt # NoReceipt
    /\ inputs = receipt.names

\* As long as no file changed at all, and the run is not over, the manifest
\* agrees with the files.
Agrees ==
    /\ ResumeIntegrity(manifest)
    /\ manifest.challenge # NoBinding
           => manifest.challenge = [receipt |-> manifest.receipt,
                                    evidence |-> inputs["evidence"]]
    /\ at # "idle" => mem = manifest \/ NewReceipt
    /\ at \in {"answered", "merge"} => mem.answer # NoBinding

Clean ==
    edits = 0 =>
        /\ manifest.status # "FailedPolicy"
        /\ mem.status # "FailedPolicy"
        /\ ~Stopped => Agrees

Inv == Typed /\ Order /\ Chain /\ Fresh /\ Clean

-----------------------------------------------------------------------------
(* The store's two ways to write the manifest.                             *)

\* A transition leaves a run that is over alone, turns into "Cancelled" when a
\* cancellation was requested, and otherwise writes the caller's manifest
\* (store.rs, transition).
LEMMA Moving ==
    ASSUME NEW m \in Manifests, NEW s \in RunStatuses \ {"Cancelling"},
           manifest \in Manifests, MoveTo(m, s)
    PROVE  /\ mem' = manifest'
           /\ manifest' \in Manifests
           /\ \/ Terminal(manifest.status) /\ manifest' = manifest
              \/ /\ ~Terminal(manifest.status)
                 /\ manifest' = [manifest EXCEPT !.status = "Cancelled"]
              \/ /\ ~Terminal(manifest.status) /\ ~cancelRequested
                 /\ s # "Cancelled"
                 /\ manifest' = [m EXCEPT !.status = s]
<1> DEFINE to == Effective(s, manifest.status, cancelRequested)
<1>1. CASE Terminal(manifest.status)
    BY <1>1 DEF MoveTo
<1>2. CASE ~Terminal(manifest.status)
  <2>1. to \in {s, "Cancelled"} /\ to \in RunStatuses
        BY DEF Effective, RunStatuses, TerminalStatus
  <2>2. to # "Cancelled" => ~cancelRequested /\ to = s
        BY DEF Effective, CancelStatus
  <2>3. CASE to = "Cancelled"
    <3>1. manifest' = [manifest EXCEPT !.status = "Cancelled"] /\ mem' = manifest'
          BY <1>2, <2>3 DEF MoveTo, CancelStatus
    <3>2. QED  BY <1>2, <2>1, <2>3, <3>1 DEF Manifests
  <2>4. CASE to # "Cancelled"
    <3>1. manifest' = [m EXCEPT !.status = s] /\ mem' = manifest'
          BY <1>2, <2>2, <2>4 DEF MoveTo, CancelStatus
    <3>2. QED  BY <1>2, <2>2, <2>4, <3>1 DEF Manifests
  <2>5. QED  BY <2>3, <2>4
<1>3. QED  BY <1>1, <1>2

\* save_manifest writes the caller's manifest or nothing.
LEMMA Saving ==
    ASSUME NEW m \in Manifests, Save(m)
    PROVE  /\ mem' = m
           /\ \/ manifest' = manifest
              \/ manifest' = m /\ ~Stopped
           /\ ~Stopped /\ manifest.status # "Cancelling" => manifest' = m
BY DEF Save, Stopped

\* A command that ends with a transition, of the manifest it loaded or knows,
\* keeps the invariant, provided that it completes a run only with a result
\* and finds a drift only in an edited or stopped one.
LEMMA Ending ==
    ASSUME Inv, NEW m, NEW s,
           m # manifest => m = mem /\ at \notin {"idle", "bound"},
           s \in {"Failed", "FailedPolicy", "Cancelled", "Completed",
                  "WaitingPrimaryArbiter"},
           s = "Completed" => result # NoArtifacts,
           s = "FailedPolicy" /\ edits = 0 => Stopped,
           End(m, s)
    PROVE  Inv'
<1>1. m \in Manifests /\ manifest \in Manifests
      BY DEF Inv, Typed, TypeOK
<1>2. s \in RunStatuses \ {"Cancelling"}
      BY DEF RunStatuses, Stages, TerminalStatus
<1>3. /\ mem' = manifest'
      /\ manifest' \in Manifests
      /\ \/ Terminal(manifest.status) /\ manifest' = manifest
         \/ /\ ~Terminal(manifest.status)
            /\ manifest' = [manifest EXCEPT !.status = "Cancelled"]
         \/ /\ ~Terminal(manifest.status) /\ ~cancelRequested
            /\ s # "Cancelled"
            /\ manifest' = [m EXCEPT !.status = s]
      BY <1>1, <1>2, Moving DEF End
<1>4. at' = "idle" /\ UNCHANGED <<auto, files, cancelRequested, loaded, history>>
      BY DEF End
<1>5. manifest.receipt # NoReceipt => m.receipt = manifest.receipt
      BY DEF Inv, Chain, Knows
<1>6. Typed'
      BY <1>3, <1>4 DEF Inv, Typed, TypeOK, files, history, Sites
<1>7. Order'
      BY <1>1, <1>3, <1>4 DEF Inv, Order, files, history, Manifests, Prepared, Heard
<1>8. Chain'
      BY <1>1, <1>3, <1>4 DEF Inv, Chain, Chained, Knows, Manifests
<1>9. Fresh'
      BY <1>1, <1>3, <1>4, <1>5 DEF Inv, Fresh, Manifests, files, history, Prepared
<1>10. Clean'
  <2>1. edits = 0 => manifest'.status # "FailedPolicy" /\ mem'.status # "FailedPolicy"
        BY <1>1, <1>3 DEF Inv, Clean, Stopped, Manifests
  <2>2. ASSUME edits = 0, ~Stopped' PROVE Agrees'
    <3>1. ~Stopped /\ m = manifest
          BY <1>3, <1>4, <2>2 DEF Inv, Clean, Agrees, NewReceipt, Stopped, Manifests
    <3>2. /\ manifest'.receipt = manifest.receipt
          /\ manifest'.challenge = manifest.challenge
          /\ manifest'.answer = manifest.answer
          BY <1>1, <1>3, <3>1 DEF Manifests
    <3>3. Agrees
          BY <2>2, <3>1 DEF Inv, Clean
    <3>4. QED
          BY <1>4, <3>2, <3>3 DEF Agrees, ResumeIntegrity, ReceiptHolds, PacketHolds,
             PacketOf, Binds, files
  <2>3. QED  BY <1>4, <2>1, <2>2 DEF Clean, history
<1>11. QED  BY <1>6, <1>7, <1>8, <1>9, <1>10 DEF Inv

-----------------------------------------------------------------------------
(* The invariant is inductive.                                             *)

\* Every step of a command that goes on, of a client and of everybody else
\* keeps the invariant (run.rs:1498-1747 and 2047-2107).
LEMMA Going ==
    ASSUME InputsAssumption, Inv,
           \/ Advance \/ WriteEvidence \/ CounterpartHeard \/ AskCounterpart
           \/ CounterpartAnswers \/ IssueReceipt \/ ReceiptStands
           \/ CreateChallenge \/ ChallengeStands \/ WritePacket \/ LaneAnswers
           \/ PublishRequest \/ AnswerFound \/ Merge \/ PublishResult
           \/ Submit \/ Amend \/ RequestCancel \/ CancelMoves \/ Kill \/ Edit
    PROVE  Inv'
<1> USE DEF Inv, files, history, Sites, Prepared, Heard, Artifact
<1> USE DEF Artifacts, NoArtifacts, Receipts, NoReceipt, Bindings, NoBinding, Packets, NoPacket
<1>0. manifest \in Manifests /\ mem \in Manifests
      BY DEF Typed, TypeOK
<1>1. CASE Merge
  <2>1. Typed'
        BY <1>0, <1>1, Moving DEF Merge, RunStatuses, Stages, Typed, TypeOK, Go
  <2>2. Order'
        BY <1>0, <1>1, Moving DEF Merge, RunStatuses, Stages, Order, Manifests,
           Go
  <2>3. Chain'
        BY <1>0, <1>1, Moving DEF Merge, RunStatuses, Stages, Chain, Chained,
           Knows, Manifests, Go
  <2>4. Fresh'
        BY <1>0, <1>1, Moving DEF Merge, RunStatuses, Stages, Chain, Knows,
           Fresh, ReceiptHolds, Manifests, Go
  <2>5. Clean'
        BY <1>0, <1>1, Moving DEF Merge, RunStatuses, Stages, Clean, Agrees,
           NewReceipt, Stopped, ResumeIntegrity, ReceiptHolds, PacketHolds,
           PacketOf, Binds, Manifests, Go
  <2>6. QED  BY <2>1, <2>2, <2>3, <2>4, <2>5
<1>2. CASE AskCounterpart
  <2>1. Typed'
        BY <1>0, <1>2, Moving DEF AskCounterpart, RunStatuses, Stages, Typed,
           TypeOK, Go
  <2>2. Order'
        BY <1>0, <1>2, Moving DEF AskCounterpart, RunStatuses, Stages, Order,
           Manifests, Go
  <2>3. Chain'
        BY <1>0, <1>2, Moving DEF AskCounterpart, RunStatuses, Stages, Chain,
           Chained, Knows, Manifests, Go
  <2>4. Fresh'
        BY <1>0, <1>2, Moving DEF AskCounterpart, RunStatuses, Stages, Chain,
           Knows, Fresh, ReceiptHolds, Manifests, Go
  <2>5. Clean'
        BY <1>0, <1>2, Moving DEF AskCounterpart, RunStatuses, Stages, Clean,
           Agrees, NewReceipt, Stopped, ResumeIntegrity, ReceiptHolds,
           PacketHolds, PacketOf, Binds, Manifests, Go
  <2>6. QED  BY <2>1, <2>2, <2>3, <2>4, <2>5
<1>3. CASE IssueReceipt
  <2>1. Typed'
        BY <1>0, <1>3 DEF IssueReceipt, Typed, TypeOK, Manifests, Go
  <2>2. Order'
        BY <1>0, <1>3 DEF IssueReceipt, Order, Go
  <2>3. Chain'
        BY <1>0, <1>3 DEF IssueReceipt, NeedsReceipt, Order, Chain, Chained,
           Knows, Go
  <2>4. Fresh'
        BY <1>0, <1>3 DEF IssueReceipt, Fresh, ReceiptHolds, Go
  <2>5. Clean'
        BY <1>0, <1>3 DEF IssueReceipt, NeedsReceipt, Clean, Agrees, NewReceipt,
           Stopped, ResumeIntegrity, PacketHolds, Binds, Manifests, Go
  <2>6. QED  BY <2>1, <2>2, <2>3, <2>4, <2>5
<1>4. CASE CreateChallenge
  <2>1. Typed'
        BY <1>0, <1>4, Saving DEF CreateChallenge, SaveChallenge, Typed, TypeOK,
           Manifests, Go
  <2>2. Order'
        BY <1>0, <1>4, Saving DEF CreateChallenge, Unanswered, SaveChallenge,
           Typed, TypeOK, Order, Manifests, Go
  <2>3. Chain'
    <3> DEFINE c == [receipt |-> mem.receipt, evidence |-> inputs["evidence"]]
               m == [mem EXCEPT !.challenge = c]
    <3>1. /\ at' = "challenged"
          /\ mem.receipt # NoReceipt /\ mem.challenge = NoBinding
          /\ manifest.receipt # NoReceipt => mem.receipt = manifest.receipt
          /\ manifest.challenge = NoBinding
          BY <1>4 DEF CreateChallenge, Unanswered, Go, Chain, Knows
    <3>2. c \in Bindings /\ c # NoBinding
          BY <3>1 DEF Typed, TypeOK, Manifests
    <3>3. m \in Manifests /\ Save(m)
          BY <1>0, <1>4, <3>2 DEF CreateChallenge, SaveChallenge, Manifests
    <3>4. mem' = m /\ (manifest' = manifest \/ manifest' = m)
          BY <3>3, Saving
    <3>5. m.receipt = mem.receipt /\ m.challenge = c /\ m.answer = mem.answer
          BY <1>0 DEF Manifests
    <3>6. QED
          BY <3>1, <3>2, <3>4, <3>5 DEF Chain, Chained, Knows
  <2>4. Fresh'
        BY <1>0, <1>4, Saving DEF CreateChallenge, Unanswered, SaveChallenge,
           Chain, Knows, Fresh, ReceiptHolds, Manifests, Go
  <2>5. Clean'
        BY <1>0, <1>4, Saving DEF CreateChallenge, Unanswered, SaveChallenge,
           Typed, TypeOK, Order, Clean, Agrees, NewReceipt, Stopped,
           ResumeIntegrity, ReceiptHolds, PacketHolds, PacketOf, Manifests, Go
  <2>6. QED  BY <2>1, <2>2, <2>3, <2>4, <2>5
<1>5. CASE LaneAnswers
  <2>1. Typed'
        BY <1>0, <1>5, Saving DEF LaneAnswers, Answer, Typed, TypeOK, Manifests,
           Go
  <2>2. Order'
        BY <1>0, <1>5, Saving DEF LaneAnswers, Answer, Order, Manifests, Go
  <2>3. Chain'
        BY <1>0, <1>5, Saving DEF LaneAnswers, Answer, Chain, Chained, Knows,
           Manifests, Go
  <2>4. Fresh'
        BY <1>0, <1>5, Saving DEF LaneAnswers, Answer, Chain, Knows, Fresh,
           ReceiptHolds, Manifests, Go
  <2>5. Clean'
        BY <1>0, <1>5, Saving DEF LaneAnswers, Answer, Order, Clean, Agrees,
           NewReceipt, Stopped, ResumeIntegrity, ReceiptHolds, PacketHolds,
           PacketOf, Binds, Manifests, Go
  <2>6. QED  BY <2>1, <2>2, <2>3, <2>4, <2>5
<1>6. CASE Submit
  <2>1. Typed'
        BY <1>0, <1>6, Saving DEF Submit, Typed, TypeOK, Manifests
  <2>2. Order'
        BY <1>0, <1>6, Saving DEF Submit, Typed, TypeOK, Order, Manifests
  <2>3. Chain'
        BY <1>0, <1>6, Saving DEF Submit, Typed, TypeOK, Chain, Chained, Knows,
           Binds, Manifests
  <2>4. Fresh'
        BY <1>0, <1>6, Saving DEF Submit, Typed, TypeOK, Fresh, Manifests
  <2>5. Clean'
    <3> DEFINE m == [manifest EXCEPT !.answer = request]
    <3>1. m \in Manifests /\ Save(m) /\ at = "idle" /\ at' = "idle"
          BY <1>0, <1>6 DEF Submit, Typed, TypeOK, Manifests
    <3>2. /\ mem' = m
          /\ manifest' = manifest \/ manifest' = m
          /\ ~Stopped /\ manifest.status # "Cancelling" => manifest' = m
          BY <3>1, Saving
    <3>3. ASSUME edits = 0, ~Stopped' PROVE Agrees'
      <4>1. ~Stopped /\ manifest' = m
            BY <1>0, <1>6, <3>2, <3>3 DEF Submit, Stopped, Order, Manifests
      <4>2. ResumeIntegrity(manifest) /\ Binds(manifest, request)
            BY <1>6 DEF Submit
      <4>3. ResumeIntegrity(manifest)'
            BY <1>0, <1>6, <4>1, <4>2 DEF Submit, ResumeIntegrity, ReceiptHolds, PacketHolds,
               PacketOf, Binds, Manifests
      <4>4. QED
            BY <1>0, <1>6, <3>1, <3>3, <4>1, <4>3 DEF Submit, Clean, Agrees, Manifests
    <3>4. QED  BY <1>0, <1>6, <3>2, <3>3 DEF Submit, Clean, Manifests
  <2>6. QED  BY <2>1, <2>2, <2>3, <2>4, <2>5
<1>7. CASE Edit
  <2>1. Typed'
        BY <1>0, <1>7 DEF InputsAssumption, Edit, Typed, TypeOK
  <2>2. Order'
        BY <1>0, <1>7 DEF InputsAssumption, Edit, Typed, TypeOK, Order
  <2>3. Chain'
        BY <1>0, <1>7 DEF InputsAssumption, Edit, Chain, Knows
  <2>4. Fresh'
        BY <1>0, <1>7 DEF InputsAssumption, Edit, Fresh
  <2>5. Clean'
        BY <1>0, <1>7 DEF InputsAssumption, Edit, Typed, Clean
  <2>6. QED  BY <2>1, <2>2, <2>3, <2>4, <2>5
\* The other steps write one file or none, or only the manifest's status.
<1> USE DEF Typed, TypeOK, Order, Chain, Chained, Knows, Fresh, Clean, Agrees
<1> USE DEF NewReceipt, Stopped, ResumeIntegrity, ReceiptHolds, PacketHolds
<1> USE DEF PacketOf, Binds, Manifests, Pass, Go
<1>8. CASE Advance
      BY <1>0, <1>8 DEF Advance
<1>9. CASE WriteEvidence
      BY <1>0, <1>9 DEF WriteEvidence, InputsAssumption
<1>10. CASE CounterpartHeard
      BY <1>0, <1>10 DEF CounterpartHeard
<1>11. CASE CounterpartAnswers
      BY <1>0, <1>11 DEF CounterpartAnswers, InputsAssumption
<1>12. CASE ReceiptStands
      BY <1>0, <1>12 DEF ReceiptStands, NeedsReceipt
<1>13. CASE ChallengeStands
      BY <1>0, <1>13 DEF ChallengeStands, Unanswered
<1>14. CASE WritePacket
      BY <1>0, <1>14 DEF WritePacket
<1>15. CASE PublishRequest
      BY <1>0, <1>15 DEF PublishRequest
<1>16. CASE AnswerFound
      BY <1>0, <1>16 DEF AnswerFound
<1>17. CASE PublishResult
      BY <1>0, <1>17 DEF PublishResult
<1>18. CASE Amend
      BY <1>0, <1>18 DEF Amend
<1>19. CASE RequestCancel
      BY <1>0, <1>19 DEF RequestCancel
<1>20. CASE CancelMoves
      BY <1>0, <1>20 DEF CancelMoves, RunStatuses, Stages, TerminalStatus,
         Terminal, CancelStatus
<1>21. CASE Kill
      BY <1>0, <1>21 DEF Kill
<1>22. QED
      BY <1>1, <1>2, <1>3, <1>4, <1>5, <1>6, <1>7, <1>8, <1>9, <1>10, <1>11,
         <1>12, <1>13, <1>14, <1>15, <1>16, <1>17, <1>18, <1>19, <1>20, <1>21

\* Inv is inductive.
LEMMA Inductive ==
    ASSUME InputsAssumption, Inv, [Next]_vars
    PROVE  Inv'
<1> DEFINE Ends == {"Failed", "FailedPolicy", "Cancelled", "Completed",
                    "WaitingPrimaryArbiter"}
<1>0. ASSUME NEW s \in Ends, End(manifest, s), s = "FailedPolicy",
             edits = 0 => Stopped
      PROVE  Inv'
      BY <1>0, Ending
<1>1. ASSUME NEW s \in Ends, End(mem, s), at \notin {"idle", "bound"},
             s = "Completed" => result # NoArtifacts,
             s = "FailedPolicy" /\ edits = 0 => Stopped
      PROVE  Inv'
      BY <1>1, Ending
<1>2. ASSUME NEW s \in Ends, End(mem, s), at \notin {"idle", "bound"},
             s \notin {"Completed", "FailedPolicy"}
      PROVE  Inv'
      BY <1>1, <1>2
<1>3. ASSUME at \notin {"idle", "bound"}, edits = 0, ~Stopped
      PROVE  /\ mem = manifest /\ ResumeIntegrity(mem)
             /\ mem.challenge # NoBinding
                    => mem.challenge = [receipt |-> mem.receipt,
                                        evidence |-> inputs["evidence"]]
             /\ at \in {"answered", "merge"} => mem.answer # NoBinding
      BY <1>3 DEF Inv, Clean, Agrees, NewReceipt
<1>4. CASE AdvanceDrifts \/ SubmitDrifts
  <2>1. at = "idle" /\ ~ResumeIntegrity(manifest) /\ End(manifest, "FailedPolicy")
        BY <1>4 DEF AdvanceDrifts, SubmitDrifts
  <2>2. edits = 0 => Stopped
        BY <2>1 DEF Inv, Clean, Agrees
  <2>3. QED  BY <1>0, <2>1, <2>2
<1>5. CASE CounterpartFails
      BY <1>2, <1>5 DEF CounterpartFails
<1>6. CASE ReceiptDrifts
      BY <1>1, <1>3, <1>6 DEF ReceiptDrifts, NeedsReceipt, ResumeIntegrity
<1>7. CASE PacketDrifts
      BY <1>1, <1>3, <1>7 DEF PacketDrifts, ResumeIntegrity
<1>8. CASE LaneEnds
  <2>1. CASE End(mem, "Failed")
        BY <1>2, <1>8, <2>1 DEF LaneEnds
  <2>2. CASE End(mem, "Cancelled")
        BY <1>2, <1>8, <2>2 DEF LaneEnds
  <2>3. CASE ~Binds(mem, mem.challenge) /\ End(mem, "FailedPolicy")
    <3>1. edits = 0 => Stopped
          BY <1>3, <1>8, <2>3 DEF LaneEnds, Binds, Inv, Chain, Knows
    <3>2. QED  BY <1>1, <1>8, <2>3, <3>1 DEF LaneEnds
  <2>4. QED  BY <1>8, <2>1, <2>2, <2>3 DEF LaneEnds
<1>9. CASE Handoff
      BY <1>2, <1>9 DEF Handoff
<1>10. CASE AnswerDrifts
      BY <1>1, <1>3, <1>10 DEF AnswerDrifts, ResumeIntegrity
<1>11. CASE MergeFails
  <2>1. CASE End(mem, "Failed")
        BY <1>2, <1>11, <2>1 DEF MergeFails
  <2>2. CASE Pass("idle")
        BY <1>11, <2>2 DEF MergeFails, Pass, Go, Inv, Typed, TypeOK, Order, Chain,
           Chained, Knows, Fresh, Clean, Stopped, Agrees, NewReceipt, ResumeIntegrity,
           ReceiptHolds, PacketHolds, PacketOf, Binds, files, history, Sites,
           Prepared, Heard
  <2>3. QED  BY <1>11, <2>1, <2>2 DEF MergeFails
<1>12. CASE Finalize
  <2>1. CASE cancelRequested
        BY <1>2, <1>12, <2>1 DEF Finalize
  <2>2. CASE ~cancelRequested
    <3>1. Binds(mem, mem.answer) /\ Pass("publish") /\ at = "merge"
          BY <1>12, <2>2 DEF Finalize
    <3>2. mem.receipt # NoReceipt
          BY <3>1 DEF Binds, Inv, Chain, Chained, Order, Prepared, Sites, NoBinding
    <3>3. mem.answer.evidence = inputs["evidence"]
          BY <3>1 DEF Binds
    <3>4. QED
          BY <3>1, <3>2, <3>3 DEF Pass, Go, Inv, Typed, TypeOK, Order, Chain, Chained,
             Knows, Fresh, Clean, Stopped, Agrees, NewReceipt, ResumeIntegrity,
             ReceiptHolds, PacketHolds, PacketOf, Binds, files, history, Sites,
             Prepared, Heard
  <2>3. QED  BY <2>1, <2>2
<1>13. CASE Complete
  <2>1. result # NoArtifacts
        BY <1>13 DEF Complete, Inv, Order
  <2>2. QED  BY <1>1, <1>13, <2>1 DEF Complete
<1>14. CASE UNCHANGED vars
      BY <1>14 DEF vars, Inv, Typed, TypeOK, Order, Chain, Chained, Knows, Fresh, Clean,
         Stopped, Agrees, NewReceipt, ResumeIntegrity, ReceiptHolds, PacketHolds,
         PacketOf, Binds, files, history
<1>15. QED
      BY <1>4, <1>5, <1>6, <1>7, <1>8, <1>9, <1>10, <1>11, <1>12, <1>13, <1>14,
         Going DEF Next, AdvanceStep

LEMMA Initially ==
    ASSUME InputsAssumption, Init
    PROVE  Inv
<1> USE DEF Init, InputsAssumption
<1>1. Typed
      BY DEF Typed, TypeOK, Sites, Manifests, Artifacts, NoArtifacts, Artifact, Receipts,
         NoReceipt, Bindings, NoBinding, Packets, NoPacket, RunStatuses, Stages
<1>2. Order
      BY DEF Order, Prepared, Heard, Sites, NoArtifacts, Artifact
<1>3. Chain /\ Fresh /\ Clean
      BY DEF Chain, Chained, Knows, Fresh, Clean, Agrees, ResumeIntegrity, PacketHolds,
         Prepared, Sites
<1>4. QED  BY <1>1, <1>2, <1>3 DEF Inv

-----------------------------------------------------------------------------
(* The theorems.                                                           *)

\* The invariant holds in every state: what a command has in memory, what the
\* manifest binds and what the files say fit together as far as edits allow
\* (run.rs:2388-2437, 4108-4190).
THEOREM InputsInvariance ==
    ASSUME InputsAssumption PROVE Spec => []Inv
<1>1. Init => Inv
      BY Initially, InputsAssumption
<1>2. Inv /\ [Next]_vars => Inv'
      BY Inductive, InputsAssumption
<1>3. QED  BY <1>1, <1>2, PTL DEF Spec

\* No kill, cancellation or resume makes verify_resume_integrity (run.rs:2388)
\* and the checks after it take the run's own files for edited ones.
THEOREM NeverMistaken ==
    ASSUME InputsAssumption PROVE Spec => []NoFalseDrift
<1>1. Inv => NoFalseDrift
      BY DEF Inv, Typed, Clean, NoFalseDrift
<1>2. QED  BY <1>1, InputsInvariance, PTL

\* What is edited between two commands never gets into a result, published
\* (run.rs:1730) or amended (run.rs:2091).
THEOREM ResultIsBound ==
    ASSUME InputsAssumption PROVE Spec => []ResultOfBoundInputs
<1>1. Inv => ResultOfBoundInputs
      BY DEF Inv, Fresh, ResultOfBoundInputs
<1>2. QED  BY <1>1, InputsInvariance, PTL

\* The receipt and the challenge of a manifest are never replaced
\* (run.rs:1546, 4117).
THEOREM BindingsArePermanent ==
    ASSUME InputsAssumption PROVE Spec => BindingIsKept
<1> DEFINE Kept == /\ manifest.receipt # NoReceipt => manifest'.receipt = manifest.receipt
                   /\ manifest.challenge # NoBinding
                          => manifest'.challenge = manifest.challenge
<1>1. ASSUME Inv, [Next]_vars PROVE Kept
  <2>1. manifest \in Manifests /\ mem \in Manifests
        BY <1>1 DEF Inv, Typed, TypeOK
  <2>2. ASSUME NEW m \in Manifests, NEW s \in RunStatuses \ {"Cancelling"}, MoveTo(m, s),
               m # manifest => m = mem /\ at # "idle"
        PROVE  Kept
    <3>1. \/ manifest' = manifest
          \/ manifest' = [manifest EXCEPT !.status = "Cancelled"]
          \/ manifest' = [m EXCEPT !.status = s]
          BY <2>1, <2>2, Moving
    <3>2. QED  BY <1>1, <2>1, <2>2, <3>1 DEF Inv, Chain, Knows, Manifests
  <2>3. ASSUME NEW m \in Manifests, NEW s, End(m, s),
               s \in {"Failed", "FailedPolicy", "Cancelled", "Completed",
                      "WaitingPrimaryArbiter"},
               m # manifest => m = mem /\ at # "idle"
        PROVE  Kept
        BY <2>2, <2>3 DEF End, RunStatuses, Stages, TerminalStatus
  <2>4. CASE \/ AdvanceDrifts \/ SubmitDrifts \/ CounterpartFails \/ ReceiptDrifts
             \/ PacketDrifts \/ LaneEnds \/ Handoff \/ AnswerDrifts \/ Complete
    <3>1. End(manifest, "FailedPolicy") => Kept
          BY <2>1, <2>3
    <3>2. ASSUME at # "idle", NEW s \in {"Failed", "FailedPolicy", "Cancelled",
                 "Completed", "WaitingPrimaryArbiter"}
          PROVE  End(mem, s) => Kept
          BY <2>1, <2>3, <3>2
    <3>3. CASE AdvanceDrifts \/ SubmitDrifts
          BY <3>1, <3>3 DEF AdvanceDrifts, SubmitDrifts
    <3>4. CASE ReceiptDrifts \/ PacketDrifts \/ AnswerDrifts
          BY <3>2, <3>4 DEF ReceiptDrifts, PacketDrifts, AnswerDrifts
    <3>5. CASE CounterpartFails \/ LaneEnds \/ Handoff \/ Complete
          BY <3>2, <3>5 DEF CounterpartFails, LaneEnds, Handoff, Complete
    <3>6. QED  BY <2>4, <3>3, <3>4, <3>5
  <2>5. CASE MergeFails \/ Finalize
        BY <2>1, <2>3, <2>5 DEF MergeFails, Finalize, Pass
  <2>6. CASE AskCounterpart \/ Merge
        BY <2>1, <2>2, <2>6 DEF AskCounterpart, Merge, RunStatuses, Stages
  <2>7. CASE CreateChallenge
        BY <1>1, <2>1, <2>7 DEF CreateChallenge, Unanswered, SaveChallenge, Save, Inv,
           Chain, Knows, Manifests
  <2>8. CASE LaneAnswers
        BY <1>1, <2>1, <2>8 DEF LaneAnswers, Answer, Save, Inv, Chain, Knows, Manifests
  <2>9. CASE Submit \/ CancelMoves
        BY <2>1, <2>9 DEF Submit, CancelMoves, Save, Manifests
  <2>10. CASE \/ Advance \/ WriteEvidence \/ CounterpartHeard \/ CounterpartAnswers
              \/ IssueReceipt \/ ReceiptStands \/ ChallengeStands \/ WritePacket
              \/ PublishRequest \/ AnswerFound \/ PublishResult \/ Amend
              \/ RequestCancel \/ Kill \/ Edit \/ UNCHANGED vars
        BY <2>10 DEF Advance, WriteEvidence, CounterpartHeard, CounterpartAnswers,
           IssueReceipt, ReceiptStands, ChallengeStands, WritePacket, PublishRequest,
           AnswerFound, PublishResult, Amend, RequestCancel, Kill, Edit, Pass, vars
  <2>11. QED
        BY <1>1, <2>4, <2>5, <2>6, <2>7, <2>8, <2>9, <2>10 DEF Next, AdvanceStep
<1>2. QED  BY <1>1, InputsInvariance, PTL DEF Spec, BindingIsKept

-----------------------------------------------------------------------------
(* The commands behave for others as RunLifecycle says.                    *)

Follows == [Lifecycle!Next]_(Lifecycle!vars)

\* Unless it is stopped, a run has the status its command knows: nobody else
\* writes one.
Abreast == at # "idle" /\ ~Stopped => mem.status = manifest.status

\* RunLifecycle names the same statuses and edges.
LEMMA SameStatuses ==
    /\ Lifecycle!RunStatuses = RunStatuses
    /\ Lifecycle!TerminalStatus = TerminalStatus
    /\ Lifecycle!CancelStatus = CancelStatus
    /\ Lifecycle!PublicStatus = PublicStatus
    /\ \A s, t : Lifecycle!TransitionAllowed(s, t) <=> TransitionAllowed(s, t)
<1>1. /\ Lifecycle!RunStatuses = RunStatuses
      /\ Lifecycle!TerminalStatus = TerminalStatus
      /\ Lifecycle!CancelStatus = CancelStatus
      /\ Lifecycle!PublicStatus = PublicStatus
      BY DEF Lifecycle!RunStatuses, RunStatuses, Lifecycle!Stages, Stages,
         Lifecycle!TerminalStatus, TerminalStatus, Lifecycle!CancelStatus, CancelStatus,
         Lifecycle!PublicStatus, PublicStatus
<1>2. Lifecycle!AbortStatus = AbortStatus /\ Lifecycle!StageEdges = StageEdges
      BY DEF Lifecycle!AbortStatus, AbortStatus, Lifecycle!StageEdges, StageEdges,
         Lifecycle!CancelStatus, CancelStatus
<1>3. QED  BY <1>1, <1>2 DEF Lifecycle!TransitionAllowed, TransitionAllowed

\* What leaves status and request alone is no step of the run's life.
LEMMA StatusStays ==
    ASSUME UNCHANGED cancelRequested, manifest'.status = manifest.status
    PROVE  Follows
BY DEF Follows, Lifecycle!vars

\* A transition is a move along an edge, into a cancellation if one is requested.
LEMMA MoveFollows ==
    ASSUME Inv, NEW m \in Manifests, NEW s \in RunStatuses \ {"Cancelling"},
           s = "Cancelled" => cancelRequested, MoveTo(m, s), UNCHANGED cancelRequested
    PROVE  Follows
<1> DEFINE to == Effective(s, manifest.status, cancelRequested)
<1>1. CASE Terminal(manifest.status)
      BY <1>1, StatusStays DEF MoveTo
<1>2. CASE ~Terminal(manifest.status)
  <2>1. /\ to \in RunStatuses
        /\ to \in CancelStatus <=> cancelRequested
        /\ manifest.status = "Cancelling" => to \in CancelStatus
        /\ to \in PublicStatus => ~cancelRequested
        BY DEF Effective, RunStatuses, TerminalStatus, CancelStatus, PublicStatus, Inv, Order
  <2>2. TransitionAllowed(manifest.status, to) /\ manifest'.status = to
        BY <1>2, <2>1 DEF MoveTo, Manifests, Inv, Typed, TypeOK
  <2> HIDE DEF to
  <2>3. Lifecycle!Move(to)
        BY <1>2, <2>1, <2>2, SameStatuses DEF Lifecycle!Move, Terminal
  <2>4. QED  BY <2>1, <2>3, SameStatuses DEF Follows, Lifecycle!Next
<1>3. QED  BY <1>1, <1>2

\* Every way a command ends with a transition.
LEMMA EndFollows ==
    ASSUME Inv, NEW m \in {manifest, mem}, NEW s,
           s \in {"Failed", "FailedPolicy", "Cancelled", "Completed",
                  "WaitingPrimaryArbiter"},
           s = "Cancelled" => cancelRequested, End(m, s)
    PROVE  Follows /\ Abreast'
<1>1. s \in RunStatuses \ {"Cancelling"} /\ m \in Manifests
      BY DEF RunStatuses, Stages, TerminalStatus, Inv, Typed, TypeOK
<1>2. QED  BY <1>1, MoveFollows DEF End, Abreast

\* One step, of the run's life and of what its command knows.
LEMMA StepFollows ==
    ASSUME Inv, Abreast, [Next]_vars
    PROVE  Follows /\ Abreast'
<1>1. manifest \in Manifests /\ mem \in Manifests
      BY DEF Inv, Typed, TypeOK
<1>2. CASE \/ AdvanceDrifts \/ CounterpartFails \/ ReceiptDrifts \/ PacketDrifts \/ LaneEnds
           \/ Handoff \/ AnswerDrifts \/ Complete \/ SubmitDrifts
      BY <1>2, EndFollows
      DEF AdvanceDrifts, CounterpartFails, ReceiptDrifts, PacketDrifts, LaneEnds, Handoff,
          AnswerDrifts, Complete, SubmitDrifts
<1>3. CASE MergeFails \/ Finalize
  <2>1. ASSUME NEW s \in {"Failed", "Cancelled"}, s = "Cancelled" => cancelRequested,
               End(mem, s)
        PROVE  Follows /\ Abreast'
        BY <2>1, EndFollows
  <2>2. CASE Pass("idle") \/ Pass("publish")
        BY <1>3, <2>2, StatusStays DEF MergeFails, Finalize, Pass, Go, Abreast, Stopped
  <2>3. CASE MergeFails
        BY <2>1, <2>2, <2>3 DEF MergeFails
  <2>4. CASE Finalize
        BY <2>1, <2>2, <2>4 DEF Finalize
  <2>5. QED  BY <1>3, <2>3, <2>4
<1>4. CASE AskCounterpart \/ Merge
  <2>1. PICK s \in {"R3Cc", "Merging"} : MoveTo(mem, s) /\ UNCHANGED cancelRequested
        BY <1>4 DEF AskCounterpart, Merge, Go
  <2>2. s \in RunStatuses \ {"Cancelling"} /\ s # "Cancelled"
        BY DEF RunStatuses, Stages
  <2>3. mem' = manifest'
        BY <1>1, <2>1, <2>2, Moving
  <2>4. QED  BY <1>1, <2>1, <2>2, <2>3, MoveFollows DEF Abreast
<1>5. CASE CreateChallenge \/ LaneAnswers \/ Submit
  <2>1. PICK m \in Manifests :
            /\ Save(m) /\ UNCHANGED cancelRequested
            /\ \/ at # "idle" /\ m.status = mem.status
               \/ at = "idle" /\ at' = "idle" /\ m.status = manifest.status
    <3>1. CASE CreateChallenge
      <4> DEFINE m == [mem EXCEPT !.challenge =
                          [receipt |-> mem.receipt, evidence |-> inputs["evidence"]]]
      <4>1. m \in Manifests /\ m.status = mem.status
            BY <1>1 DEF Manifests, Bindings, Artifacts, Artifact, Inv, Typed, TypeOK
      <4>2. QED  BY <3>1, <4>1 DEF CreateChallenge, SaveChallenge, Unanswered, Go
    <3>2. CASE LaneAnswers
      <4>1. Answer(mem) \in Manifests /\ Answer(mem).status = mem.status
            BY <1>1 DEF Answer, Manifests
      <4>2. QED  BY <3>2, <4>1 DEF LaneAnswers, Go
    <3>3. CASE Submit
      <4> DEFINE m == [manifest EXCEPT !.answer = request]
      <4>1. m \in Manifests /\ m.status = manifest.status
            BY <1>1 DEF Manifests, Inv, Typed, TypeOK
      <4>2. QED  BY <3>3, <4>1 DEF Submit
    <3>4. QED  BY <1>5, <3>1, <3>2, <3>3
  <2>2. manifest'.status = manifest.status
        BY <2>1, Saving DEF Abreast
  <2>3. mem'.status = m.status
        BY <2>1, Saving
  <2>4. QED  BY <2>1, <2>2, <2>3, StatusStays DEF Abreast, Stopped
<1>6. CASE \/ Advance \/ WriteEvidence \/ CounterpartHeard \/ CounterpartAnswers
           \/ IssueReceipt \/ ReceiptStands \/ ChallengeStands \/ WritePacket
           \/ PublishRequest \/ AnswerFound \/ PublishResult \/ Amend \/ Kill \/ Edit
           \/ UNCHANGED vars
  <2>1. UNCHANGED <<manifest, cancelRequested>>
        BY <1>6
        DEF Advance, WriteEvidence, CounterpartHeard, CounterpartAnswers, IssueReceipt,
            ReceiptStands, ChallengeStands, WritePacket, PublishRequest, AnswerFound,
            PublishResult, Amend, Kill, Edit, Pass, Go, vars
  <2>2. \/ at' = "idle"
        \/ mem' = manifest
        \/ at # "idle" /\ mem'.status = mem.status
        \/ at' = at /\ mem' = mem
        BY <1>1, <1>6
        DEF Advance, WriteEvidence, CounterpartHeard, CounterpartAnswers, IssueReceipt,
            ReceiptStands, ChallengeStands, WritePacket, PublishRequest, AnswerFound,
            PublishResult, Amend, Kill, Edit, Pass, Go, vars, Unanswered, Manifests
  <2>3. QED  BY <2>1, <2>2, StatusStays DEF Abreast, Stopped
<1>7. CASE RequestCancel
  <2>1. Lifecycle!RequestCancellation
        BY <1>7, SameStatuses
        DEF RequestCancel, Lifecycle!RequestCancellation, Terminal, TerminalStatus, PublicStatus
  <2>2. QED  BY <1>7, <2>1 DEF Follows, Lifecycle!Next, RequestCancel, Abreast, Stopped
<1>8. CASE CancelMoves
  <2>1. PICK s \in CancelStatus :
            ~Terminal(manifest.status) /\ manifest' = [manifest EXCEPT !.status = s]
        BY <1>8 DEF CancelMoves
  <2>2. /\ cancelRequested /\ UNCHANGED cancelRequested
        /\ s \in RunStatuses /\ s \notin PublicStatus
        /\ manifest'.status = s
        /\ TransitionAllowed(manifest.status, s)
        BY <1>1, <1>8, <2>1
        DEF CancelMoves, CancelStatus, RunStatuses, TerminalStatus, PublicStatus, Manifests,
            TransitionAllowed, AbortStatus, Terminal
  <2>3. Lifecycle!Move(s)
        BY <2>1, <2>2, SameStatuses DEF Lifecycle!Move, Terminal
  <2>4. QED  BY <2>2, <2>3, SameStatuses DEF Follows, Lifecycle!Next, Abreast, Stopped
<1>9. QED
      BY <1>2, <1>3, <1>4, <1>5, <1>6, <1>7, <1>8 DEF Next, AdvanceStep

\* Whatever is edited, killed and resumed, the status moves along the edges, never
\* out of a cancellation, never to a result once one is requested
\* (save_manifest, transition; run.rs:1498-1747).
THEOREM InputsFollowLifecycle ==
    ASSUME InputsAssumption PROVE Spec => LifecycleSpec
<1>1. Init => Lifecycle!Init /\ Abreast
      BY DEF Init, Lifecycle!Init, Abreast
<1>2. Inv /\ Abreast /\ [Next]_vars => [Lifecycle!Next]_(Lifecycle!vars) /\ Abreast'
      BY StepFollows DEF Follows
<1>3. QED
      BY <1>1, <1>2, InputsInvariance, PTL DEF Spec, LifecycleSpec, Lifecycle!Spec
=============================================================================
