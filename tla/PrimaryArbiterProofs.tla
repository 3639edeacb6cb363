------------------------ MODULE PrimaryArbiterProofs ------------------------
(***************************************************************************)
(* What the handshake with the primary arbiter promises, for any number of *)
(* processes, responses and kills.                                         *)
(*                                                                         *)
(* The argument.  Commands exclude each other by .run.lock, and as long as *)
(* no cancellation is requested what a command holds in memory is what is  *)
(* on disk (Fresh).  From then on its saves are skipped and the two drift  *)
(* apart, but a receipt on disk is in its memory too (Owns), so that it    *)
(* writes no response but the one the receipt names; and a run to which    *)
(* this happened completes no more.                                        *)
(***************************************************************************)
EXTENDS PrimaryArbiter, TLAPS

USE ArbiterAssumption

\* Where a command holds .run.lock.
Locked ==
    {"submit", "staged", "written", "record", "release", "advance", "handoff",
     "autoStaged", "autoWritten", "merge", "publish", "published", "amend", "amending"}

Writing == {"staged", "autoStaged", "written", "autoWritten"}

TypeOK ==
    /\ auto \in BOOLEAN
    /\ manifest \in Manifests
    /\ response \in MaybeResponse /\ result \in MaybeResponse
    /\ cancelRequested \in BOOLEAN
    /\ DOMAIN at = Proc
    /\ mem \in [Proc -> Manifests]
    /\ input \in [Proc -> MaybeResponse]
    /\ accepted \in 0 .. 2
    /\ amended \in BOOLEAN /\ torn \in BOOLEAN

\* The state of a cancellation, and what a run that ended without one has.
Ends ==
    /\ manifest.status # "Degraded"
    /\ manifest.status \in CancelStatus => cancelRequested
    /\ cancelRequested /\ Terminal(manifest.status) => manifest.status = "Cancelled"
    /\ ~cancelRequested /\ Terminal(manifest.status)
           => \/ manifest.receipt = "none"
              \/ manifest.receipt = "accepted" /\ manifest.challenge = "consumed"

\* Receipt and response belong together, and acceptances are counted.
Receipts ==
    /\ Intact(manifest)
    /\ ~cancelRequested =>
          /\ manifest.receipt = "none" => response = NoResponse
          /\ accepted < 2
          /\ manifest.receipt # "accepted" => accepted = 0

Results ==
    /\ ResultIsAccepted
    /\ manifest.status = "Completed" =>
          \/ result = manifest.digest
          \/ torn
          \/ \E p \in Proc : at[p] = "amending"
    /\ manifest.status = "Completed" /\ ~amended => result = manifest.digest

\* Until a cancellation is requested a command knows the manifest.
Fresh(p) ==
    at[p] \in Locked \ {"published", "amending"} /\ ~cancelRequested
        => mem[p] = manifest

\* And always the receipt.
Owns(p) ==
    at[p] \in Locked =>
        /\ manifest.receipt # "none"
               => mem[p].receipt # "none" /\ mem[p].bound = manifest.bound
        /\ manifest.receipt = "accepted" => mem[p].receipt = "accepted"

Submits(p) ==
    /\ at[p] \in Writing =>
          /\ input[p] \in Response
          /\ mem[p].receipt # "none" /\ mem[p].bound = input[p]
    /\ at[p] \in {"written", "autoWritten"} => response = input[p]
    /\ at[p] = "submit" => input[p] \in Response
    /\ at[p] = "record" /\ ~cancelRequested
           => accepted = 0 /\ manifest.receipt = "accepted"

\* A run that is merged has an accepted response.
Merged ==
    /\ manifest.status = "Merging"
    /\ manifest.receipt = "accepted" /\ manifest.challenge = "consumed"
    /\ response = manifest.bound /\ response # NoResponse

Merges(p) ==
    /\ at[p] = "merge" /\ ~cancelRequested => Merged
    /\ at[p] \in {"publish", "published"} => guard = p /\ ~cancelRequested /\ Merged
    /\ at[p] = "published" =>
          mem[p] = [manifest EXCEPT !.digest = response] /\ result = response

Amends(p) ==
    /\ at[p] = "amend" /\ mem[p].status = "Completed" => manifest.status = "Completed"
    /\ at[p] = "amending" =>
          /\ manifest.status = "Completed" /\ amended
          /\ mem[p] = [manifest EXCEPT !.digest = result]

Verifies(p) ==
    /\ at[p] = "verify" /\ ~amended
           => manifest.status = "Completed" /\ result = mem[p].digest
    /\ at[p] = "mismatch" => amended

Stand(p) ==
    /\ at[p] \in Locked => runLock = p
    /\ at[p] \in {"submit", "advance"} => Intact(mem[p])
    /\ Fresh(p) /\ Owns(p)
    /\ Submits(p) /\ Merges(p) /\ Amends(p) /\ Verifies(p)

Run == Ends /\ Receipts /\ Results

Inv == TypeOK /\ Run /\ \A p \in Proc : Stand(p)

-----------------------------------------------------------------------------
(* What one process does to another.                                       *)

\* Who holds or takes the lock is alone with it.
LEMMA Alone ==
    ASSUME Inv, NEW p \in Proc, runLock \in {p, NoProc}, NEW q \in Proc, q # p
    PROVE  at[q] \notin Locked
  BY DEF Inv, Stand

\* Under the lock others only verify, and find what they loaded.
LEMMA OthersStand ==
    ASSUME Inv, NEW p \in Proc, runLock \in {p, NoProc},
           \A q \in Proc \ {p} : at'[q] = at[q] /\ mem'[q] = mem[q],
           amended => amended',
           manifest.status = "Completed" /\ ~amended'
               => manifest'.status = "Completed" /\ result' = result,
           Stand(p)'
    PROVE  (\A q \in Proc : Stand(q))'
<1>1. ASSUME NEW q \in Proc, q # p PROVE Stand(q)'
  <2>1. at'[q] \notin Locked /\ at'[q] = at[q] /\ mem'[q] = mem[q]
    BY <1>1, Alone
  <2>2. Verifies(q)
    BY DEF Inv, Stand
  <2>3. Verifies(q)'
    BY <2>1, <2>2 DEF Verifies
  <2> QED
    BY <2>1, <2>3 DEF Stand, Locked, Writing, Fresh, Owns, Submits, Merges, Amends
<1> QED
  BY <1>1

\* A step that leaves the run alone may be anybody's.
LEMMA QuietStand ==
    ASSUME Inv, NEW p \in Proc,
           UNCHANGED <<manifest, response, result, cancelRequested, accepted, amended>>,
           \A q \in Proc \ {p} :
               /\ at'[q] = at[q] /\ mem'[q] = mem[q] /\ input'[q] = input[q]
               /\ runLock = q => runLock' = q
               /\ guard = q => guard' = q,
           Stand(p)'
    PROVE  (\A q \in Proc : Stand(q))'
<1>1. ASSUME NEW q \in Proc, q # p PROVE Stand(q)'
  <2>1. Stand(q)
    BY DEF Inv
  <2> QED
    BY <1>1, <2>1
    DEF Stand, Fresh, Owns, Submits, Merges, Merged, Amends, Verifies, Intact
<1> QED
  BY <1>1

LEMMA RunSame ==
    ASSUME Inv, UNCHANGED <<manifest, response, result, cancelRequested, accepted, amended>>,
           torn \/ (\E q \in Proc : at[q] = "amending")
               => torn' \/ (\E q \in Proc : at'[q] = "amending")
    PROVE  Run'
  BY DEF Inv, Run, Ends, Receipts, Intact, Results, ResultIsAccepted

\* What a command needs that holds no lock any more.
LEMMA IdleStands ==
    ASSUME NEW p \in Proc, at[p] \in {"idle", "again"}
    PROVE  Stand(p)
  BY DEF Stand, Locked, Writing, Fresh, Owns, Submits, Merges, Amends, Verifies

\* The step of a command that leaves the run alone.
LEMMA MoveKeeps ==
    ASSUME Inv, NEW p \in Proc, NEW l, at[p] # "amending", To(p, l), TypeOK',
           UNCHANGED <<manifest, response, result, cancelRequested, accepted, amended, torn>>,
           \A q \in Proc \ {p} :
               /\ mem'[q] = mem[q] /\ input'[q] = input[q]
               /\ runLock = q => runLock' = q
               /\ guard = q => guard' = q,
           Stand(p)'
    PROVE  Inv'
<1>1. \A q \in Proc \ {p} : at'[q] = at[q]
  BY DEF To, Inv, TypeOK
<1>2. torn \/ (\E q \in Proc : at[q] = "amending")
          => torn' \/ (\E q \in Proc : at'[q] = "amending")
  BY <1>1
<1> QED
  BY <1>1, <1>2, RunSame, QuietStand DEF Inv

LEMMA ReturnKeeps ==
    ASSUME Inv, NEW p \in Proc, at[p] \in Locked \ {"amending"}, Return(p)
    PROVE  Inv'
<1>1. /\ To(p, "idle") /\ at'[p] = "idle" /\ runLock = p
      /\ UNCHANGED <<manifest, response, result, cancelRequested, accepted, amended, torn, mem>>
      /\ TypeOK'
  BY DEF Return, Leave, To, Inv, TypeOK, MaybeResponse, Stand, history, files
<1>2. \A q \in Proc \ {p} :
          /\ mem'[q] = mem[q] /\ input'[q] = input[q]
          /\ runLock = q => runLock' = q
          /\ guard = q => guard' = q
  BY <1>1 DEF Return, Leave, Inv, TypeOK
<1>3. Stand(p)'
  BY <1>1 DEF Stand, Locked, Writing, Fresh, Owns, Submits, Merges, Amends, Verifies
<1> QED
  BY <1>1, <1>2, <1>3, MoveKeeps

\* What save_manifest comes to.
LEMMA SaveEffect ==
    ASSUME Inv, NEW p \in Proc, NEW m \in Manifests, Save(p, m)
    PROVE  /\ manifest' \in Manifests /\ mem' \in [Proc -> Manifests] /\ mem'[p] = m
           /\ \A q \in Proc \ {p} : mem'[q] = mem[q]
           /\ cancelRequested \/ Terminal(manifest.status) => manifest' = manifest
           /\ ~cancelRequested /\ ~Terminal(manifest.status) => manifest' = m
  BY DEF Save, SaveSkipped, Knows, Inv, TypeOK, Run, Ends, CancelStatus

\* What a transition comes to.
LEMMA MoveEffect ==
    ASSUME Inv, NEW p \in Proc, NEW m \in Manifests, NEW s \in RunStatuses, MoveTo(p, m, s)
    PROVE  /\ manifest' \in Manifests /\ mem' \in [Proc -> Manifests] /\ mem'[p] = manifest'
           /\ \A q \in Proc \ {p} : mem'[q] = mem[q]
           /\ Terminal(manifest.status) => manifest' = manifest
           /\ cancelRequested /\ ~Terminal(manifest.status)
                  => \E t \in CancelStatus : manifest' = [manifest EXCEPT !.status = t]
           /\ ~cancelRequested /\ ~Terminal(manifest.status) /\ s \notin CancelStatus
                  => /\ manifest' = [m EXCEPT !.status = s]
                     /\ TransitionAllowed(manifest.status, s)
<1> DEFINE to == Effective(s, manifest.status, cancelRequested)
<1>1. /\ to \in RunStatuses
      /\ cancelRequested => to \in CancelStatus
      /\ ~cancelRequested => to = s
  BY DEF Effective, RunStatuses, TerminalStatus, CancelStatus, Inv, Run, Ends
<1>2. manifest' \in Manifests
  BY <1>1 DEF MoveTo, Inv, TypeOK, Manifests
<1> QED
  BY <1>1, <1>2 DEF MoveTo, Knows, Inv, TypeOK

-----------------------------------------------------------------------------
(* Steps that leave the run alone.                                         *)

LEMMA LockKeeps ==
    ASSUME Inv, NEW p \in Proc, NEW l \in {"submit", "advance", "amend"},
           at[p] \notin Locked, Lock(p, l), input' \in [Proc -> MaybeResponse],
           l = "submit" => input'[p] \in Response,
           \A q \in Proc \ {p} : input'[q] = input[q]
    PROVE  Inv'
<1>1. /\ To(p, l) /\ at'[p] = l /\ mem'[p] = manifest /\ runLock = NoProc /\ runLock' = p
      /\ \A q \in Proc \ {p} : mem'[q] = mem[q]
      /\ UNCHANGED <<manifest, response, result, cancelRequested, accepted, amended, torn, guard>>
      /\ TypeOK'
  BY DEF Lock, Knows, To, Inv, TypeOK, history, files
<1>2. Intact(mem[p])'
  BY <1>1 DEF Inv, Run, Receipts, Intact
<1>3. Stand(p)'
  BY <1>1, <1>2
  DEF Stand, Locked, Writing, Fresh, Owns, Submits, Merges, Amends, Verifies
<1>4. at[p] # "amending"
  BY DEF Locked
<1>5. \A q \in Proc : q # runLock
  BY <1>1
<1> QED
  BY <1>1, <1>3, <1>4, <1>5, MoveKeeps

LEMMA BeginKeeps ==
    ASSUME Inv, NEW p \in Proc,
           \/ BeginAdvance(p) \/ AdvanceAgain(p)
           \/ \E r \in Response : BeginSubmit(p, r) \/ BeginAmend(p, r)
    PROVE  Inv'
<1>1. input \in [Proc -> MaybeResponse]
  BY DEF Inv, TypeOK
<1>2. CASE BeginAdvance(p)
  BY <1>1, <1>2, LockKeeps DEF BeginAdvance, Locked
<1>3. CASE AdvanceAgain(p)
  BY <1>1, <1>3, LockKeeps DEF AdvanceAgain, Locked, MaybeResponse
<1>4. ASSUME NEW r \in Response, BeginSubmit(p, r) PROVE Inv'
  BY <1>1, <1>4, LockKeeps DEF BeginSubmit, Locked, MaybeResponse
<1>5. ASSUME NEW r \in Response, BeginAmend(p, r) PROVE Inv'
  BY <1>1, <1>5, LockKeeps DEF BeginAmend, Locked, MaybeResponse
<1> QED
  BY <1>2, <1>3, <1>4, <1>5

LEMMA LeaveKeeps ==
    ASSUME Inv, NEW p \in Proc,
           \/ SubmitRefused(p) \/ AdvanceTerminal(p) \/ MergeCancelled(p) \/ AmendRefused(p)
    PROVE  Inv'
<1>1. at[p] \in Locked \ {"amending"} /\ Return(p)
  BY DEF SubmitRefused, AdvanceTerminal, MergeCancelled, AmendRefused, Locked
<1> QED
  BY <1>1, ReturnKeeps

LEMMA ResubmitKeeps ==
    ASSUME Inv, NEW p \in Proc, Resubmit(p) \/ Release(p) \/ PublishRequest(p)
    PROVE  Inv'
<1>1. TypeOK' /\ at[p] \in Locked \ {"amending"} /\ runLock = p
  BY DEF Resubmit, Release, PublishRequest, Unanswered, Advancing, Keeps, To, Inv, TypeOK, Stand,
         Locked, history, files
<1>2. UNCHANGED <<manifest, response, result, cancelRequested, accepted, amended, torn, mem, input,
                  guard>>
  BY DEF Resubmit, Release, PublishRequest, Keeps, history, files
<1>3. \A q \in Proc \ {p} : runLock # q
  BY <1>1
<1>4. CASE Resubmit(p)
  <2>1. /\ To(p, "staged") /\ at'[p] = "staged" /\ at[p] = "submit" /\ runLock' = runLock
        /\ mem[p].receipt # "none" /\ mem[p].bound = input[p] /\ input[p] \in Response
    BY <1>4 DEF Resubmit, OtherSubmission, Keeps, To, Inv, TypeOK, Stand, Submits
  <2>2. Stand(p)'
    BY <1>1, <1>2, <2>1
    DEF Inv, Stand, Locked, Writing, Fresh, Owns, Submits, Merges, Amends, Verifies
  <2> QED
    BY <1>1, <1>2, <1>3, <2>1, <2>2, MoveKeeps
<1>5. CASE Release(p)
  <2>1. To(p, "again") /\ at'[p] = "again"
    BY <1>5 DEF Release, To, Inv, TypeOK
  <2>2. Stand(p)'
    BY <2>1 DEF Stand, Locked, Writing, Fresh, Owns, Submits, Merges, Amends, Verifies
  <2> QED
    BY <1>1, <1>2, <1>3, <2>1, <2>2, MoveKeeps
<1>6. CASE PublishRequest(p)
  <2>1. /\ To(p, "handoff") /\ at'[p] = "handoff" /\ at[p] = "advance" /\ runLock' = runLock
    BY <1>6 DEF PublishRequest, Unanswered, Advancing, Keeps, To, Inv, TypeOK
  <2>2. Stand(p)'
    BY <1>1, <1>2, <2>1
    DEF Inv, Stand, Locked, Writing, Fresh, Owns, Submits, Merges, Amends, Verifies
  <2> QED
    BY <1>1, <1>2, <1>3, <2>1, <2>2, MoveKeeps
<1> QED
  BY <1>4, <1>5, <1>6

LEMMA VerifyKeeps ==
    ASSUME Inv, NEW p \in Proc,
           AdvanceBusy(p) \/ BeginVerify(p) \/ Verify(p) \/ ReportMismatch(p)
    PROVE  Inv'
<1>1. /\ TypeOK' /\ at[p] # "amending"
      /\ UNCHANGED <<manifest, response, result, cancelRequested, accepted, amended, torn,
                     runLock, guard>>
      /\ \A q \in Proc \ {p} : mem'[q] = mem[q] /\ input'[q] = input[q]
  BY DEF AdvanceBusy, BeginVerify, Verify, ReportMismatch, Keeps, Knows, To, Inv, TypeOK,
         MaybeResponse, history, files
<1>2. CASE AdvanceBusy(p) \/ ReportMismatch(p)
  <2>1. To(p, "idle") /\ at'[p] = "idle"
    BY <1>2 DEF AdvanceBusy, ReportMismatch, To, Inv, TypeOK
  <2>2. Stand(p)'
    BY <2>1 DEF Stand, Locked, Writing, Fresh, Owns, Submits, Merges, Amends, Verifies
  <2> QED
    BY <1>1, <2>1, <2>2, MoveKeeps
<1>3. CASE BeginVerify(p)
  <2>1. /\ To(p, "verify") /\ at'[p] = "verify" /\ mem'[p] = manifest
        /\ manifest.status = "Completed"
    BY <1>3 DEF BeginVerify, Published, PublicStatus, Knows, To, Inv, TypeOK, Run, Ends
  <2>2. ~amended => result = manifest.digest
    BY <2>1 DEF Inv, Run, Results
  <2>3. Stand(p)'
    BY <1>1, <2>1, <2>2
    DEF Stand, Locked, Writing, Fresh, Owns, Submits, Merges, Amends, Verifies
  <2> QED
    BY <1>1, <2>1, <2>3, MoveKeeps
<1>4. CASE Verify(p)
  <2> DEFINE l == IF result = mem[p].digest THEN "idle" ELSE "mismatch"
  <2>1. To(p, l) /\ at'[p] = l /\ at[p] = "verify"
    BY <1>4 DEF Verify, To, Inv, TypeOK
  <2>2. l = "mismatch" => amended
    BY <2>1 DEF Inv, Stand, Verifies
  <2>3. Stand(p)'
    BY <1>1, <2>1, <2>2
    DEF Stand, Locked, Writing, Fresh, Owns, Submits, Merges, Amends, Verifies
  <2> QED
    BY <1>1, <2>1, <2>3, MoveKeeps
<1> QED
  BY <1>2, <1>3, <1>4

LEMMA KillKeeps ==
    ASSUME Inv, NEW p \in Proc, Kill(p)
    PROVE  Inv'
<1>1. /\ TypeOK' /\ at'[p] = "idle"
      /\ \A q \in Proc \ {p} : at'[q] = at[q] /\ mem'[q] = mem[q] /\ input'[q] = input[q]
      /\ UNCHANGED <<manifest, response, result, cancelRequested, accepted, amended>>
      /\ torn' = (torn \/ at[p] = "amending")
  BY DEF Kill, Inv, TypeOK, MaybeResponse, files
<1>2. torn \/ (\E q \in Proc : at[q] = "amending")
          => torn' \/ (\E q \in Proc : at'[q] = "amending")
  BY <1>1
<1>3. \A q \in Proc \ {p} : (runLock = q => runLock' = q) /\ (guard = q => guard' = q)
  BY DEF Kill
<1>4. Stand(p)'
  BY <1>1 DEF Stand, Locked, Writing, Fresh, Owns, Submits, Merges, Amends, Verifies
<1> QED
  BY <1>1, <1>2, <1>3, <1>4, RunSame, QuietStand DEF Inv

-----------------------------------------------------------------------------
(* Receipt, response and acceptance.                                       *)

\* A step under the lock: the run, the command itself, the others.
LEMMA StepKeeps ==
    ASSUME Inv, NEW p \in Proc, at[p] \in Locked, TypeOK', Run', Stand(p)',
           \A q \in Proc \ {p} : at'[q] = at[q] /\ mem'[q] = mem[q],
           amended => amended',
           manifest.status = "Completed" /\ ~amended'
               => manifest'.status = "Completed" /\ result' = result
    PROVE  Inv'
<1>1. runLock = p
  BY DEF Inv, Stand
<1> QED
  BY <1>1, OthersStand DEF Inv

\* The receipt is saved, unless a cancellation is requested.
LEMMA StageKeeps ==
    ASSUME Inv, NEW p \in Proc, NEW r \in Response, NEW l \in {"staged", "autoStaged"},
           at[p] \in {"submit", "advance"}, mem[p].receipt = "none",
           ~cancelRequested => ~Terminal(manifest.status),
           Save(p, Stage(mem[p], r)), To(p, l), TypeOK',
           input'[p] = r,
           UNCHANGED <<response, result, cancelRequested, accepted, amended, torn, runLock>>
    PROVE  Inv'
<1> DEFINE m == Stage(mem[p], r)
<1>1. m \in Manifests /\ m = [mem[p] EXCEPT !.receipt = "staging", !.bound = r]
  BY DEF Stage, Manifests, MaybeResponse, Inv, TypeOK
<1>2. /\ mem'[p] = m /\ at'[p] = l
      /\ \A q \in Proc \ {p} : at'[q] = at[q] /\ mem'[q] = mem[q]
      /\ cancelRequested \/ Terminal(manifest.status) => manifest' = manifest
      /\ ~cancelRequested /\ ~Terminal(manifest.status) => manifest' = m
  BY <1>1, SaveEffect DEF To, Inv, TypeOK
<1>3. /\ manifest.receipt = "none" /\ runLock = p /\ at[p] \in Locked
      /\ ~cancelRequested => mem[p] = manifest
  BY DEF Inv, Stand, Fresh, Owns, Locked, TypeOK, Manifests
<1>4. /\ m.receipt = "staging" /\ m.bound = r /\ m.status = mem[p].status
  BY <1>1 DEF Inv, TypeOK, Manifests
<1>5. CASE cancelRequested
  <2>1. manifest' = manifest
    BY <1>2, <1>5
  <2>2. Run'
    <3>1. torn \/ (\E q \in Proc : at[q] = "amending")
              => torn' \/ (\E q \in Proc : at'[q] = "amending")
      BY <1>2
    <3> QED
      BY <2>1, <3>1, RunSame
  <2>3. Stand(p)'
    BY <1>2, <1>3, <1>4, <1>5, <2>1
    DEF Stand, Locked, Writing, Fresh, Owns, Submits, Merges, Amends, Verifies
  <2> QED
    BY <1>2, <1>3, <2>1, <2>2, <2>3, StepKeeps
<1>6. CASE ~cancelRequested
  <2>1. /\ manifest' = m /\ m.status = manifest.status /\ response = NoResponse /\ accepted = 0
        /\ ~Terminal(manifest.status)
    BY <1>2, <1>3, <1>4, <1>6 DEF Inv, Run, Receipts
  <2>2. Run'
    BY <1>2, <1>3, <1>4, <1>6, <2>1
    DEF Inv, Run, Ends, Receipts, Intact, Results, ResultIsAccepted, Terminal, TerminalStatus
  <2>3. Stand(p)'
    BY <1>2, <1>3, <1>4, <1>6, <2>1
    DEF Stand, Locked, Writing, Fresh, Owns, Submits, Merges, Amends, Verifies
  <2>4. manifest.status # "Completed"
    BY <2>1 DEF Terminal, TerminalStatus
  <2> QED
    BY <1>2, <1>3, <2>2, <2>3, <2>4, StepKeeps
<1> QED
  BY <1>5, <1>6

LEMMA StageSubmissionKeeps ==
    ASSUME Inv, NEW p \in Proc, StageSubmission(p)
    PROVE  Inv'
<1>1. /\ at[p] = "submit" /\ mem[p].receipt = "none" /\ mem[p].status = "WaitingPrimaryArbiter"
      /\ Save(p, Stage(mem[p], input[p])) /\ To(p, "staged") /\ input[p] \in Response
      /\ UNCHANGED <<auto, response, result, cancelRequested, accepted, amended, torn, runLock, input>>
  BY DEF StageSubmission, MayStage, Keeps, history, files, Inv, Stand, Submits
<1>2. ~cancelRequested => ~Terminal(manifest.status)
  BY <1>1 DEF Inv, Stand, Fresh, Locked, Terminal, TerminalStatus
<1>3. TypeOK'
  <2>1. Stage(mem[p], input[p]) \in Manifests
    BY <1>1 DEF Stage, Manifests, MaybeResponse, Inv, TypeOK
  <2> QED
    BY <1>1, <2>1, SaveEffect DEF To, Inv, TypeOK
<1> QED
  BY <1>1, <1>2, <1>3, StageKeeps

LEMMA StageAutomaticKeeps ==
    ASSUME Inv, NEW p \in Proc, StageAutomatic(p)
    PROVE  Inv'
<1>1. /\ at[p] = "advance" /\ mem[p].receipt = "none" /\ ~Terminal(mem[p].status)
      /\ To(p, "autoStaged")
      /\ UNCHANGED <<auto, response, result, cancelRequested, accepted, amended, torn, runLock>>
  BY DEF StageAutomatic, Unanswered, Advancing, Keeps, history, files
<1>2. PICK r \in Response :
          /\ input' = [input EXCEPT ![p] = r]
          /\ Save(p, Stage(mem[p], r))
  BY DEF StageAutomatic
<1>3. ~cancelRequested => ~Terminal(manifest.status)
  BY <1>1 DEF Inv, Stand, Fresh, Locked
<1>4. TypeOK' /\ input'[p] = r
  <2>1. Stage(mem[p], r) \in Manifests
    BY <1>1 DEF Stage, Manifests, MaybeResponse, Inv, TypeOK
  <2> QED
    BY <1>1, <1>2, <2>1, SaveEffect DEF To, Inv, TypeOK, MaybeResponse
<1> QED
  BY <1>1, <1>2, <1>3, <1>4, StageKeeps

\* The response written is the one the receipt names.
LEMMA WriteResponseKeeps ==
    ASSUME Inv, NEW p \in Proc, WriteResponse(p)
    PROVE  Inv'
<1> DEFINE l == IF at[p] = "staged" THEN "written" ELSE "autoWritten"
<1>1. /\ at[p] \in {"staged", "autoStaged"} /\ at[p] \in Locked \ {"published", "amending"}
      /\ at[p] \in Writing /\ To(p, l) /\ at'[p] = l /\ response' = input[p]
      /\ \A q \in Proc \ {p} : at'[q] = at[q]
      /\ UNCHANGED <<auto, manifest, result, cancelRequested, accepted, amended, torn, runLock,
                     mem, input>>
  BY DEF WriteResponse, Keeps, To, history, files, Inv, TypeOK, Locked, Writing
<1>2. /\ runLock = p /\ input[p] \in Response /\ mem[p].receipt # "none" /\ mem[p].bound = input[p]
      /\ manifest.receipt # "none" => manifest.bound = input[p]
      /\ ~cancelRequested => mem[p] = manifest
  BY <1>1 DEF Inv, Stand, Fresh, Owns, Submits
<1>3. TypeOK'
  BY <1>1, <1>2 DEF Inv, To, TypeOK, MaybeResponse
<1>4. Run'
  BY <1>1, <1>2 DEF Inv, Run, Ends, Receipts, Intact, Results, ResultIsAccepted
<1>5. Stand(p)'
  BY <1>1, <1>2
  DEF Inv, Stand, Locked, Writing, Fresh, Owns, Submits, Merges, Amends, Verifies
<1> QED
  BY <1>1, <1>3, <1>4, <1>5, StepKeeps

LEMMA AcceptResponseKeeps ==
    ASSUME Inv, NEW p \in Proc, AcceptResponse(p)
    PROVE  Inv'
<1> DEFINE m == Accept(mem[p])
           l == IF at[p] = "autoWritten" THEN "advance"
                ELSE IF NotYetAccepted(p) THEN "record" ELSE "release"
<1>1. /\ at[p] \in {"written", "autoWritten"} /\ at[p] \in Locked \ {"published", "amending"}
      /\ at[p] \in Writing /\ Save(p, m) /\ To(p, l) /\ at'[p] = l
      /\ \A q \in Proc \ {p} : at'[q] = at[q]
      /\ UNCHANGED <<auto, response, result, cancelRequested, accepted, amended, torn, runLock,
                     input>>
  BY DEF AcceptResponse, Keeps, To, history, files, Inv, TypeOK, Locked, Writing
<1>2. /\ runLock = p /\ input[p] \in Response /\ mem[p].receipt # "none" /\ mem[p].bound = input[p]
      /\ response = input[p] /\ response # NoResponse
      /\ manifest.receipt # "none" => manifest.bound = input[p]
      /\ ~cancelRequested => mem[p] = manifest
  BY <1>1 DEF Inv, Stand, Fresh, Owns, Submits
<1>3. /\ m \in Manifests /\ m.receipt = "accepted" /\ m.challenge = "consumed"
      /\ m.bound = mem[p].bound /\ m.status = mem[p].status /\ m.digest = mem[p].digest
  BY DEF Accept, Inv, TypeOK, Manifests
<1>4. /\ mem'[p] = m /\ manifest' \in Manifests /\ mem' \in [Proc -> Manifests]
      /\ \A q \in Proc \ {p} : mem'[q] = mem[q]
      /\ cancelRequested => manifest' = manifest
      /\ ~cancelRequested => manifest' = m
  <2>1. ~cancelRequested /\ Terminal(manifest.status) => m = manifest
    <3>1. ~cancelRequested /\ Terminal(manifest.status)
              => mem[p].receipt = "accepted" /\ mem[p].challenge = "consumed"
      BY <1>2 DEF Inv, Run, Ends
    <3> QED
      BY <1>2, <3>1 DEF Accept, Inv, TypeOK, Manifests
  <2> QED
    BY <1>1, <1>3, <2>1, SaveEffect
<1>5. TypeOK'
  BY <1>1, <1>4 DEF Inv, To, TypeOK
<1>6. ~cancelRequested /\ l = "record" => accepted = 0
  BY <1>2 DEF NotYetAccepted, Inv, Run, Receipts
<1>7. Run'
  <2>1. CASE cancelRequested
    <3>1. torn \/ (\E q \in Proc : at[q] = "amending")
              => torn' \/ (\E q \in Proc : at'[q] = "amending")
      BY <1>1
    <3> QED
      BY <1>1, <1>4, <2>1, <3>1, RunSame
  <2>2. CASE ~cancelRequested
    BY <1>1, <1>2, <1>3, <1>4, <2>2
    DEF Inv, Run, Ends, Receipts, Intact, Results, ResultIsAccepted
  <2> QED
    BY <2>1, <2>2
<1>8. Stand(p)'
  BY <1>1, <1>2, <1>3, <1>4, <1>6
  DEF Stand, Locked, Writing, Fresh, Owns, Submits, Merges, Amends, Verifies, Intact
<1>9. manifest'.status = manifest.status
  BY <1>2, <1>3, <1>4
<1> QED
  BY <1>1, <1>4, <1>5, <1>7, <1>8, <1>9, StepKeeps

LEMMA RecordKeeps ==
    ASSUME Inv, NEW p \in Proc, RecordAcceptance(p)
    PROVE  Inv'
<1>1. /\ at[p] = "record" /\ at[p] \in Locked /\ at'[p] = "release" /\ runLock = p
      /\ \A q \in Proc \ {p} : at'[q] = at[q]
      /\ accepted' = IF accepted < 2 THEN accepted + 1 ELSE 2
      /\ UNCHANGED <<auto, manifest, response, result, cancelRequested, amended, torn, runLock,
                     mem, input>>
      /\ ~cancelRequested => accepted = 0 /\ manifest.receipt = "accepted"
  BY DEF RecordAcceptance, Keeps, To, files, Inv, TypeOK, Stand, Submits, Locked
<1>2. TypeOK'
  BY <1>1 DEF RecordAcceptance, To, Inv, TypeOK
<1>3. cancelRequested => manifest.status # "Completed"
  BY DEF Inv, Run, Ends, Terminal, TerminalStatus
<1>4. Run'
  BY <1>1, <1>3 DEF Inv, Run, Ends, Receipts, Intact, Results, ResultIsAccepted
<1>5. Stand(p)'
  BY <1>1
  DEF Inv, Stand, Locked, Writing, Fresh, Owns, Submits, Merges, Amends, Verifies
<1> QED
  BY <1>1, <1>2, <1>4, <1>5, StepKeeps

-----------------------------------------------------------------------------
(* advance().                                                              *)

LEMMA CreateChallengeKeeps ==
    ASSUME Inv, NEW p \in Proc, CreateChallenge(p)
    PROVE  Inv'
<1> DEFINE m == [mem[p] EXCEPT !.challenge = "open"]
<1>1. /\ at[p] = "advance" /\ at[p] \in Locked /\ mem[p].receipt = "none"
      /\ ~Terminal(mem[p].status) /\ Save(p, m) /\ runLock = p
      /\ ~cancelRequested => mem[p] = manifest
      /\ manifest.receipt = "none"
      /\ UNCHANGED <<auto, at, response, result, cancelRequested, accepted, amended, torn, runLock,
                     input>>
  BY DEF CreateChallenge, Unanswered, Advancing, Keeps, history, files, Inv, Stand, Fresh, Owns,
         Locked, TypeOK, Manifests
<1>2. /\ m \in Manifests /\ m.receipt = "none" /\ m.bound = mem[p].bound
      /\ m.status = mem[p].status /\ m.digest = mem[p].digest
  BY <1>1 DEF Inv, TypeOK, Manifests
<1>3. /\ mem'[p] = m /\ manifest' \in Manifests /\ mem' \in [Proc -> Manifests]
      /\ \A q \in Proc \ {p} : mem'[q] = mem[q]
      /\ cancelRequested => manifest' = manifest
      /\ ~cancelRequested => manifest' = m
  BY <1>1, <1>2, SaveEffect
<1>4. TypeOK'
  BY <1>1, <1>3 DEF Inv, TypeOK
<1>5. Run'
  BY <1>1, <1>2, <1>3 DEF Inv, Run, Ends, Receipts, Intact, Results, ResultIsAccepted
<1>6. Stand(p)'
  BY <1>1, <1>2, <1>3
  DEF Stand, Locked, Writing, Fresh, Owns, Submits, Merges, Amends, Verifies, Intact
<1>7. manifest'.status = manifest.status
  BY <1>1, <1>2, <1>3
<1> QED
  BY <1>1, <1>3, <1>4, <1>5, <1>6, <1>7, StepKeeps

\* A command returns from a run that waits, failed or is cancelled.
LEMMA ReturnWithKeeps ==
    ASSUME Inv, NEW p \in Proc,
           NEW s \in {"WaitingPrimaryArbiter", "Failed", "FailedPolicy", "Cancelled"},
           at[p] \in Locked \ {"published", "amending"},
           s = "Cancelled" => cancelRequested,
           s \in {"Failed", "FailedPolicy"} => mem[p].receipt = "none",
           ReturnWith(p, mem[p], s)
    PROVE  Inv'
<1>1. /\ MoveTo(p, mem[p], s) /\ at'[p] = "idle" /\ runLock = p
      /\ \A q \in Proc \ {p} : at'[q] = at[q]
      /\ UNCHANGED <<auto, response, result, cancelRequested, accepted, amended, torn>>
      /\ ~cancelRequested => mem[p] = manifest
  BY DEF ReturnWith, Leave, To, history, files, Inv, TypeOK, Stand, Fresh
<1>2. s \in RunStatuses
  BY DEF RunStatuses, Stages, TerminalStatus
<1>3. /\ manifest' \in Manifests /\ mem' \in [Proc -> Manifests]
      /\ \A q \in Proc \ {p} : mem'[q] = mem[q]
      /\ Terminal(manifest.status) => manifest' = manifest
      /\ cancelRequested /\ ~Terminal(manifest.status)
             => \E t \in CancelStatus : manifest' = [manifest EXCEPT !.status = t]
      /\ ~cancelRequested /\ ~Terminal(manifest.status)
             => manifest' = [manifest EXCEPT !.status = s]
  <2>1. ~cancelRequested => s \notin CancelStatus
    BY DEF CancelStatus
  <2> QED
    BY <1>1, <1>2, <2>1, MoveEffect DEF Inv, TypeOK
<1>4. TypeOK'
  BY <1>1, <1>3 DEF ReturnWith, Leave, To, Inv, TypeOK, MaybeResponse
<1>5. \/ manifest' = manifest
      \/ /\ ~Terminal(manifest.status)
         /\ \E t \in RunStatuses \ {"Completed", "Degraded"} :
               /\ manifest' = [manifest EXCEPT !.status = t]
               /\ t \in CancelStatus => cancelRequested
               /\ cancelRequested => t \in CancelStatus
               /\ Terminal(t) /\ ~cancelRequested => manifest.receipt = "none"
  <2>1. CASE cancelRequested /\ ~Terminal(manifest.status)
    BY <1>3, <2>1 DEF CancelStatus, RunStatuses, TerminalStatus
  <2>2. CASE ~cancelRequested /\ ~Terminal(manifest.status)
    BY <1>1, <1>2, <1>3, <2>2 DEF CancelStatus, Terminal, TerminalStatus
  <2> QED
    BY <1>3, <2>1, <2>2
<1>6. Run'
  <2>1. CASE manifest' = manifest
    <3>1. torn \/ (\E q \in Proc : at[q] = "amending")
              => torn' \/ (\E q \in Proc : at'[q] = "amending")
      BY <1>1
    <3> QED
      BY <1>1, <2>1, <3>1, RunSame
  <2>2. CASE manifest' # manifest
    <3>1. PICK t \in RunStatuses \ {"Completed", "Degraded"} :
              /\ manifest' = [manifest EXCEPT !.status = t]
              /\ t \in CancelStatus => cancelRequested
              /\ cancelRequested => t \in CancelStatus
              /\ Terminal(t) /\ ~cancelRequested => manifest.receipt = "none"
      BY <1>5, <2>2
    <3>2. /\ manifest'.status = t /\ manifest'.receipt = manifest.receipt
          /\ manifest'.bound = manifest.bound /\ manifest'.challenge = manifest.challenge
      BY <3>1 DEF Inv, TypeOK, Manifests
    <3> QED
      BY <1>1, <3>1, <3>2
      DEF Inv, Run, Ends, Receipts, Intact, Results, ResultIsAccepted, Terminal, TerminalStatus,
          CancelStatus
  <2> QED
    BY <2>1, <2>2
<1>7. Stand(p)'
  BY <1>1, IdleStands DEF Stand, Locked, Writing, Fresh, Owns, Submits, Merges, Amends, Verifies
<1>8. manifest.status = "Completed" => manifest' = manifest
  BY <1>3 DEF Terminal, TerminalStatus
<1> QED
  BY <1>1, <1>3, <1>4, <1>6, <1>7, <1>8, StepKeeps

LEMMA WaitKeeps ==
    ASSUME Inv, NEW p \in Proc, Handoff(p) \/ AwaitResubmission(p) \/ AutomaticFails(p)
    PROVE  Inv'
<1>1. at[p] \in Locked \ {"published", "amending"}
  BY DEF Handoff, AwaitResubmission, AutomaticFails, Unanswered, Advancing, Locked
<1>2. CASE Handoff(p) \/ AwaitResubmission(p)
  BY <1>1, <1>2, ReturnWithKeeps DEF Handoff, AwaitResubmission
<1>3. CASE AutomaticFails(p)
  BY <1>1, <1>3, ReturnWithKeeps DEF AutomaticFails, Unanswered
<1> QED
  BY <1>2, <1>3

\* The run is merged from the response that is there.
LEMMA MergeKeeps ==
    ASSUME Inv, NEW p \in Proc, Merge(p)
    PROVE  Inv'
<1> DEFINE m == Accept(mem[p])
<1>1. /\ at[p] = "advance" /\ at[p] \in Locked /\ at'[p] = "merge" /\ runLock = p
      /\ ~Terminal(mem[p].status) /\ mem[p].receipt # "none" /\ response # NoResponse
      /\ Intact(mem[p]) /\ MoveTo(p, m, "Merging")
      /\ \A q \in Proc \ {p} : at'[q] = at[q]
      /\ UNCHANGED <<auto, response, result, cancelRequested, accepted, amended, torn, runLock,
                     input>>
      /\ ~cancelRequested => mem[p] = manifest
  BY DEF Merge, Advancing, Ready, Keeps, To, history, files, Inv, TypeOK, Stand, Fresh, Locked
<1>2. /\ m \in Manifests /\ m.receipt = "accepted" /\ m.challenge = "consumed"
      /\ m.bound = mem[p].bound
  BY DEF Accept, Inv, TypeOK, Manifests
<1>3. /\ manifest' \in Manifests /\ mem' \in [Proc -> Manifests] /\ mem'[p] = manifest'
      /\ \A q \in Proc \ {p} : mem'[q] = mem[q]
      /\ Terminal(manifest.status) => manifest' = manifest
      /\ cancelRequested /\ ~Terminal(manifest.status)
             => \E t \in CancelStatus : manifest' = [manifest EXCEPT !.status = t]
      /\ ~cancelRequested /\ ~Terminal(manifest.status)
             => manifest' = [m EXCEPT !.status = "Merging"]
  <2>1. "Merging" \in RunStatuses \ CancelStatus
    BY DEF RunStatuses, Stages, CancelStatus
  <2> QED
    BY <1>1, <1>2, <2>1, MoveEffect
<1>4. TypeOK'
  BY <1>1, <1>3 DEF Merge, To, Inv, TypeOK
<1>5. CASE ~cancelRequested
  <2>1. /\ manifest'.status = "Merging" /\ manifest'.receipt = "accepted"
        /\ manifest'.challenge = "consumed" /\ manifest'.bound = response
        /\ ~Terminal(manifest.status)
    BY <1>1, <1>2, <1>3, <1>5 DEF Manifests, Intact
  <2>2. Run'
    BY <1>1, <1>5, <2>1
    DEF Inv, Run, Ends, Receipts, Intact, Results, ResultIsAccepted, Terminal, TerminalStatus,
        CancelStatus
  <2>3. Stand(p)'
    BY <1>1, <1>3, <2>1
    DEF Stand, Locked, Writing, Fresh, Owns, Submits, Merges, Merged, Amends, Verifies
  <2>4. manifest.status # "Completed"
    BY <2>1 DEF Terminal, TerminalStatus
  <2> QED
    BY <1>1, <1>3, <1>4, <2>2, <2>3, <2>4, StepKeeps
<1>6. CASE cancelRequested
  <2>1. /\ manifest'.receipt = manifest.receipt /\ manifest'.bound = manifest.bound
        /\ manifest'.challenge = manifest.challenge
        /\ manifest'.status \in CancelStatus
    BY <1>3, <1>6 DEF Inv, TypeOK, Manifests, Run, Ends, CancelStatus
  <2>2. Run'
    BY <1>1, <1>6, <2>1
    DEF Inv, Run, Ends, Receipts, Intact, Results, ResultIsAccepted, Terminal, TerminalStatus,
        CancelStatus
  <2>3. Stand(p)'
    BY <1>1, <1>3, <1>6, <2>1
    DEF Stand, Locked, Writing, Fresh, Owns, Submits, Merges, Amends, Verifies
  <2>4. manifest.status # "Completed"
    BY <1>6 DEF Inv, Run, Ends, Terminal, TerminalStatus
  <2> QED
    BY <1>1, <1>3, <1>4, <2>2, <2>3, <2>4, StepKeeps
<1> QED
  BY <1>5, <1>6

LEMMA FinalizeKeeps ==
    ASSUME Inv, NEW p \in Proc, Finalize(p)
    PROVE  Inv'
<1>1. at[p] = "merge" /\ at[p] \in Locked \ {"published", "amending"}
  BY DEF Finalize, Locked
<1>2. CASE cancelRequested
  BY <1>1, <1>2, ReturnWithKeeps DEF Finalize
<1>3. CASE ~cancelRequested
  <2>1. /\ guard = NoProc /\ guard' = p /\ To(p, "publish") /\ at'[p] = "publish"
        /\ UNCHANGED <<auto, manifest, response, result, cancelRequested, accepted, amended, torn,
                       runLock, mem, input>>
        /\ TypeOK'
    BY <1>3 DEF Finalize, To, Inv, TypeOK, history, files
  <2>2. Stand(p)'
    BY <1>1, <1>3, <2>1
    DEF Inv, Stand, Locked, Writing, Fresh, Owns, Submits, Merges, Merged, Amends, Verifies
  <2>3. \A q \in Proc : guard # q
    BY <2>1
  <2> QED
    BY <1>1, <2>1, <2>2, <2>3, MoveKeeps
<1> QED
  BY <1>2, <1>3

LEMMA PublishKeeps ==
    ASSUME Inv, NEW p \in Proc, PublishResult(p)
    PROVE  Inv'
<1>1. /\ at[p] = "publish" /\ at[p] \in Locked /\ at'[p] = "published" /\ runLock = p
      /\ guard = p /\ guard' = guard /\ ~cancelRequested /\ Merged /\ mem[p] = manifest
      /\ result' = response
      /\ mem' = [mem EXCEPT ![p] = [mem[p] EXCEPT !.digest = response]]
      /\ \A q \in Proc \ {p} : at'[q] = at[q]
      /\ UNCHANGED <<auto, manifest, response, cancelRequested, accepted, amended, torn, runLock,
                     input>>
  BY DEF PublishResult, Knows, Keeps, To, history, Inv, TypeOK, Stand, Fresh, Merges, Locked
<1>2. TypeOK'
  BY <1>1 DEF PublishResult, To, Inv, TypeOK, Manifests
<1>3. mem'[p] = [manifest EXCEPT !.digest = response]
  BY <1>1 DEF Inv, TypeOK
<1>4. Run'
  BY <1>1
  DEF Inv, Run, Ends, Receipts, Intact, Results, ResultIsAccepted, Merged
<1>5. Stand(p)'
  BY <1>1, <1>3
  DEF Inv, TypeOK, Manifests, Stand, Locked, Writing, Fresh, Owns, Submits, Merges, Merged,
      Amends, Verifies
<1>6. manifest.status # "Completed"
  BY <1>1 DEF Merged
<1> QED
  BY <1>1, <1>2, <1>4, <1>5, <1>6, StepKeeps DEF Inv, TypeOK

LEMMA CompleteKeeps ==
    ASSUME Inv, NEW p \in Proc, Complete(p)
    PROVE  Inv'
<1>1. /\ at[p] = "published" /\ at[p] \in Locked /\ at'[p] = "idle" /\ runLock = p
      /\ ~cancelRequested /\ Merged /\ mem[p] = [manifest EXCEPT !.digest = response]
      /\ result = response /\ MoveTo(p, mem[p], "Completed")
      /\ \A q \in Proc \ {p} : at'[q] = at[q]
      /\ UNCHANGED <<auto, response, result, cancelRequested, accepted, amended, torn>>
  BY DEF Complete, ReturnWith, Leave, To, history, files, Inv, TypeOK, Stand, Merges, Locked
<1>2. /\ manifest' \in Manifests /\ mem' \in [Proc -> Manifests]
      /\ \A q \in Proc \ {p} : mem'[q] = mem[q]
      /\ manifest' = [mem[p] EXCEPT !.status = "Completed"]
  <2> DEFINE m == mem[p]
  <2>1. "Completed" \in RunStatuses /\ "Completed" \notin CancelStatus
    BY DEF RunStatuses, TerminalStatus, CancelStatus
  <2>2. ~Terminal(manifest.status)
    BY <1>1 DEF Merged, Terminal, TerminalStatus
  <2>3. m \in Manifests /\ MoveTo(p, m, "Completed")
    BY <1>1 DEF Inv, TypeOK
  <2>4. /\ manifest' \in Manifests /\ mem' \in [Proc -> Manifests]
        /\ \A q \in Proc \ {p} : mem'[q] = mem[q]
        /\ manifest' = [m EXCEPT !.status = "Completed"]
    <3> HIDE DEF m
    <3> QED
      BY <1>1, <2>1, <2>2, <2>3, MoveEffect
  <2> QED
    BY <2>4
<1>3. TypeOK'
  BY <1>1, <1>2 DEF Complete, ReturnWith, Leave, To, Inv, TypeOK, MaybeResponse
<1>4. /\ manifest'.status = "Completed" /\ manifest'.receipt = "accepted"
      /\ manifest'.challenge = "consumed" /\ manifest'.bound = response
      /\ manifest'.digest = response
  BY <1>1, <1>2 DEF Merged, Inv, TypeOK, Manifests
<1>5. Run'
  BY <1>1, <1>4
  DEF Inv, Run, Ends, Receipts, Intact, Results, ResultIsAccepted, Merged, Terminal,
      TerminalStatus, CancelStatus
<1>6. Stand(p)'
  BY <1>1 DEF Stand, Locked, Writing, Fresh, Owns, Submits, Merges, Amends, Verifies
<1>7. manifest.status # "Completed"
  BY <1>1 DEF Merged
<1> QED
  BY <1>1, <1>2, <1>3, <1>5, <1>6, <1>7, StepKeeps

-----------------------------------------------------------------------------
(* amend, and what is nobody's step.                                       *)

LEMMA AmendResultKeeps ==
    ASSUME Inv, NEW p \in Proc, AmendResult(p)
    PROVE  Inv'
<1>1. /\ at[p] = "amend" /\ at[p] \in Locked /\ at'[p] = "amending" /\ runLock = p
      /\ mem[p].status = "Completed" /\ manifest.status = "Completed"
      /\ result' = input[p] /\ amended' = TRUE
      /\ mem' = [mem EXCEPT ![p] = [mem[p] EXCEPT !.digest = input[p]]]
      /\ \A q \in Proc \ {p} : at'[q] = at[q]
      /\ UNCHANGED <<auto, manifest, response, cancelRequested, accepted, torn, runLock, input>>
  BY DEF AmendResult, MayAmend, Knows, Keeps, To, Inv, TypeOK, Stand, Amends, Locked
<1>2. ~cancelRequested /\ mem[p] = manifest
  BY <1>1 DEF Inv, Stand, Fresh, Locked, Run, Ends, Terminal, TerminalStatus
<1>3. TypeOK'
  BY <1>1 DEF AmendResult, To, Inv, TypeOK, Manifests
<1>4. mem'[p] = [manifest EXCEPT !.digest = result']
  BY <1>1, <1>2 DEF Inv, TypeOK
<1>5. Run'
  BY <1>1 DEF Inv, Run, Ends, Receipts, Intact, Results, ResultIsAccepted
<1>6. Stand(p)'
  BY <1>1, <1>2, <1>4
  DEF Inv, TypeOK, Manifests, Stand, Locked, Writing, Fresh, Owns, Submits, Merges, Amends,
      Verifies
<1> QED
  BY <1>1, <1>3, <1>5, <1>6, StepKeeps DEF Inv, TypeOK

LEMMA AmendDigestKeeps ==
    ASSUME Inv, NEW p \in Proc, AmendDigest(p)
    PROVE  Inv'
<1>1. /\ at[p] = "amending" /\ at[p] \in Locked /\ at'[p] = "idle" /\ runLock = p
      /\ manifest.status = "Completed" /\ amended /\ mem[p] = [manifest EXCEPT !.digest = result]
      /\ manifest' = mem[p] /\ mem' = [mem EXCEPT ![p] = mem[p]] /\ torn' = FALSE
      /\ \A q \in Proc \ {p} : at'[q] = at[q]
      /\ UNCHANGED <<auto, response, result, cancelRequested, accepted, amended>>
  BY DEF AmendDigest, SaveAfterTerminal, Knows, Leave, To, files, Inv, TypeOK, Stand, Amends, Locked
<1>2. TypeOK'
  BY <1>1 DEF AmendDigest, Leave, To, Inv, TypeOK, MaybeResponse
<1>3. /\ manifest'.status = "Completed" /\ manifest'.receipt = manifest.receipt
      /\ manifest'.bound = manifest.bound /\ manifest'.challenge = manifest.challenge
      /\ manifest'.digest = result
  BY <1>1 DEF Inv, TypeOK, Manifests
<1>4. Run'
  BY <1>1, <1>3 DEF Inv, Run, Ends, Receipts, Intact, Results, ResultIsAccepted
<1>5. Stand(p)'
  BY <1>1 DEF Stand, Locked, Writing, Fresh, Owns, Submits, Merges, Amends, Verifies
<1>6. \A q \in Proc \ {p} : mem'[q] = mem[q]
  BY <1>1
<1> QED
  BY <1>1, <1>2, <1>4, <1>5, <1>6, StepKeeps

LEMMA RequestKeeps ==
    ASSUME Inv, RequestCancellation
    PROVE  Inv'
<1>1. /\ guard = NoProc /\ ~Terminal(manifest.status) /\ cancelRequested'
      /\ UNCHANGED <<auto, manifest, response, runLock, guard, at, mem, input, accepted, amended,
                     torn>>
      /\ TypeOK'
  BY DEF RequestCancellation, Others, history, Inv, TypeOK, MaybeResponse
<1>2. manifest.status # "Completed"
  BY <1>1 DEF Terminal, TerminalStatus
<1>3. Run'
  BY <1>1, <1>2 DEF Inv, Run, Ends, Receipts, Intact, Results, ResultIsAccepted
<1>4. ASSUME NEW p \in Proc PROVE Stand(p)'
  <2>1. Stand(p) /\ guard # p
    BY <1>1 DEF Inv
  <2>2. at[p] = "verify" => amended
    BY <1>2, <2>1 DEF Stand, Verifies
  <2> QED
    BY <1>1, <1>2, <2>1, <2>2
    DEF Stand, Fresh, Owns, Submits, Merges, Amends, Verifies, Intact
<1> QED
  BY <1>1, <1>3, <1>4 DEF Inv

LEMMA CancelKeeps ==
    ASSUME Inv, Cancel
    PROVE  Inv'
<1>1. /\ cancelRequested /\ ~Terminal(manifest.status)
      /\ UNCHANGED <<auto, response, runLock, guard, at, mem, input, accepted, amended, torn,
                     cancelRequested, result>>
      /\ TypeOK'
  BY DEF Cancel, Others, history, Inv, TypeOK, Manifests, RunStatuses, TerminalStatus
<1>2. /\ manifest'.status \in CancelStatus /\ manifest'.receipt = manifest.receipt
      /\ manifest'.bound = manifest.bound /\ manifest'.challenge = manifest.challenge
      /\ Terminal(manifest'.status) => manifest'.status = "Cancelled"
      /\ manifest'.status # "Completed" /\ manifest'.status # "Degraded"
  BY DEF Cancel, Inv, TypeOK, Manifests, CancelStatus, Terminal, TerminalStatus
<1>3. manifest.status # "Completed"
  BY <1>1 DEF Terminal, TerminalStatus
<1>4. Run'
  BY <1>1, <1>2 DEF Inv, Run, Ends, Receipts, Intact, Results, ResultIsAccepted
<1>5. ASSUME NEW p \in Proc PROVE Stand(p)'
  <2>1. Stand(p)
    BY DEF Inv
  <2>2. at[p] \notin {"publish", "published"}
    BY <1>1, <2>1 DEF Stand, Merges
  <2>3. at[p] = "verify" => amended
    BY <1>3, <2>1 DEF Stand, Verifies
  <2>4. at[p] = "amend" => mem[p].status # "Completed"
    BY <1>3, <2>1 DEF Stand, Amends
  <2>5. at[p] # "amending"
    BY <1>3, <2>1 DEF Stand, Amends
  <2> QED
    BY <1>1, <1>2, <2>1, <2>2, <2>3, <2>4, <2>5
    DEF Stand, Fresh, Owns, Submits, Merges, Amends, Verifies, Intact
<1> QED
  BY <1>1, <1>4, <1>5 DEF Inv

LEMMA ExpireKeeps ==
    ASSUME Inv, Expire \/ UNCHANGED vars
    PROVE  Inv'
<1>1. UNCHANGED <<auto, manifest, response, result, cancelRequested, runLock, guard, at, mem,
                  input, accepted, amended, torn>>
  BY DEF Expire, Others, vars, files, history
<1>2. TypeOK' /\ Run'
  BY <1>1, RunSame DEF Inv, TypeOK
<1>3. ASSUME NEW p \in Proc PROVE Stand(p)'
  BY <1>1 DEF Inv, Stand, Fresh, Owns, Submits, Merges, Merged, Amends, Verifies, Intact
<1> QED
  BY <1>2, <1>3 DEF Inv

-----------------------------------------------------------------------------
(* The theorems.                                                           *)

LEMMA InitHolds == Init => Inv
<1> SUFFICES ASSUME Init PROVE Inv
  OBVIOUS
<1>1. manifest.status = "R3Cc" /\ manifest.receipt = "none" /\ response = NoResponse
  BY DEF Init
<1>2. TypeOK
  <2>1. "R3Cc" \in RunStatuses /\ NoResponse \in MaybeResponse
    BY DEF RunStatuses, Stages, MaybeResponse
  <2>2. manifest \in Manifests
    BY <2>1 DEF Init, Manifests
  <2>3. mem \in [Proc -> Manifests] /\ input \in [Proc -> MaybeResponse] /\ DOMAIN at = Proc
    BY <2>1, <2>2 DEF Init
  <2>4. accepted \in 0 .. 2 /\ auto \in BOOLEAN
    BY DEF Init
  <2> QED
    BY <2>1, <2>2, <2>3, <2>4 DEF Init, TypeOK
<1>3. Run
  BY <1>1
  DEF Init, Run, Ends, Receipts, Intact, Results, ResultIsAccepted, Terminal, TerminalStatus,
      CancelStatus
<1>4. ASSUME NEW p \in Proc PROVE Stand(p)
  BY IdleStands DEF Init
<1> QED
  BY <1>2, <1>3, <1>4 DEF Inv

LEMMA NextKeeps == Inv /\ [Next]_vars => Inv'
<1> SUFFICES ASSUME Inv, [Next]_vars PROVE Inv'
  OBVIOUS
<1>1. ASSUME NEW p \in Proc, Begin(p) PROVE Inv'
  BY <1>1, BeginKeeps, VerifyKeeps DEF Begin
<1>2. ASSUME NEW p \in Proc, Submit(p) PROVE Inv'
  BY <1>2, LeaveKeeps, StageSubmissionKeeps, ResubmitKeeps, WriteResponseKeeps,
     AcceptResponseKeeps, RecordKeeps, BeginKeeps, VerifyKeeps
  DEF Submit
<1>3. ASSUME NEW p \in Proc, Advance(p) PROVE Inv'
  BY <1>3, LeaveKeeps, CreateChallengeKeeps, ResubmitKeeps, WaitKeeps, StageAutomaticKeeps,
     MergeKeeps, FinalizeKeeps, PublishKeeps, CompleteKeeps
  DEF Advance
<1>4. ASSUME NEW p \in Proc, Amend(p) PROVE Inv'
  BY <1>4, LeaveKeeps, AmendResultKeeps, AmendDigestKeeps DEF Amend
<1>5. ASSUME NEW p \in Proc, Verify(p) \/ ReportMismatch(p) PROVE Inv'
  BY <1>5, VerifyKeeps
<1>6. ASSUME NEW p \in Proc, Kill(p) PROVE Inv'
  BY <1>6, KillKeeps
<1> QED
  BY <1>1, <1>2, <1>3, <1>4, <1>5, <1>6, RequestKeeps, CancelKeeps, ExpireKeeps
  DEF Next, GoesOn

\* The invariant of the handshake.
LEMMA Invariance == Spec => []Inv
  BY InitHolds, NextKeeps, PTL DEF Spec

\* Whatever crash, retry or cancellation came before, a command that loads a
\* manifest finds the files it wrote itself: the response the receipt names and a
\* consumed challenge (verify_resume_integrity,
\* recover_primary_arbiter_submission).
THEOREM FilesFit == Spec => []NeverDrifts
<1>1. Inv => NeverDrifts
  BY DEF Inv, Stand, NeverDrifts
<1> QED
  BY <1>1, Invariance, PTL

\* The result of a completed run is the accepted response's until it is amended,
\* and its acceptance was recorded at most once, however often it was submitted
\* (submit_primary_arbiter_response, finalize).
THEOREM ResultIsTheResponse == Spec => []ResultIsAccepted
<1>1. Inv => ResultIsAccepted
  BY DEF Inv, Run, Results
<1> QED
  BY <1>1, Invariance, PTL

\* A completed run whose result does not fit its manifest is being amended, or
\* was when its amend was killed; a check without a lock reports no mismatch but
\* of an amended run (amend_primary_arbiter_verdict, verify_result_integrity).
THEOREM MismatchIsAmend == Spec => []MismatchMeansAmend
<1>1. Inv => MismatchMeansAmend
  BY DEF Inv, Run, Results, Stand, Verifies, MismatchMeansAmend
<1> QED
  BY <1>1, Invariance, PTL

-----------------------------------------------------------------------------
\* What one step leaves of a receipt.
Bound == manifest.receipt # "none"
         => manifest'.receipt # "none" /\ manifest'.bound = manifest.bound

LEMMA SaveBinds ==
    ASSUME Inv, NEW p \in Proc, NEW m \in Manifests, Save(p, m),
           manifest.receipt # "none" => m.receipt # "none" /\ m.bound = manifest.bound
    PROVE  Bound
  BY SaveEffect DEF Bound

LEMMA MoveBinds ==
    ASSUME Inv, NEW p \in Proc, NEW m \in Manifests, NEW s, MoveTo(p, m, s),
           manifest.receipt # "none" => m.receipt # "none" /\ m.bound = manifest.bound
    PROVE  Bound
  BY DEF MoveTo, Bound, Inv, TypeOK, Manifests

LEMMA SubmitBinds ==
    ASSUME Inv, NEW p \in Proc, Submit(p)
    PROVE  Bound
<1>1. CASE StageSubmission(p)
  <2>1. at[p] \in Locked /\ mem[p].receipt = "none" /\ input[p] \in Response
    BY <1>1 DEF StageSubmission, MayStage, Locked, Inv, Stand, Submits
  <2>2. manifest.receipt = "none"
    BY <2>1 DEF Inv, Stand, Owns
  <2> QED
    BY <2>2 DEF Bound
<1>2. CASE AcceptResponse(p)
  <2> DEFINE m == Accept(mem[p])
  <2>1. at[p] \in Locked /\ Save(p, m)
    BY <1>2 DEF AcceptResponse, Locked
  <2>2. m \in Manifests /\ m.receipt = "accepted" /\ m.bound = mem[p].bound
    BY DEF Accept, Inv, TypeOK, Manifests
  <2>3. manifest.receipt # "none" => m.bound = manifest.bound
    BY <2>1, <2>2 DEF Inv, Stand, Owns
  <2> QED
    BY <2>1, <2>2, <2>3, SaveBinds
<1>3. CASE SubmitRefused(p)
  BY <1>3 DEF SubmitRefused, Return, Bound
<1>4. CASE Resubmit(p) \/ WriteResponse(p) \/ RecordAcceptance(p)
  BY <1>4 DEF Resubmit, WriteResponse, RecordAcceptance, Bound
<1>5. CASE Release(p) \/ AdvanceAgain(p) \/ AdvanceBusy(p)
  BY <1>5 DEF Release, AdvanceAgain, AdvanceBusy, Lock, Bound
<1> QED
  BY <1>1, <1>2, <1>3, <1>4, <1>5 DEF Submit

LEMMA AdvanceBinds ==
    ASSUME Inv, NEW p \in Proc, Advance(p)
    PROVE  Bound
<1>1. /\ mem[p] \in Manifests
      /\ at[p] \in Locked /\ manifest.receipt # "none"
             => mem[p].receipt # "none" /\ mem[p].bound = manifest.bound
  BY DEF Inv, TypeOK, Stand, Owns
<1>2. CASE CreateChallenge(p) \/ StageAutomatic(p)
  <2>1. at[p] \in Locked /\ mem[p].receipt = "none"
    BY <1>2 DEF CreateChallenge, StageAutomatic, Unanswered, Advancing, Locked
  <2> QED
    BY <1>1, <2>1 DEF Bound
<1>3. CASE Handoff(p) \/ AutomaticFails(p) \/ AwaitResubmission(p) \/ Complete(p)
  <2> DEFINE m == mem[p]
  <2>1. at[p] \in Locked /\ \E s \in RunStatuses : MoveTo(p, m, s)
    BY <1>3
    DEF Handoff, AutomaticFails, AwaitResubmission, Complete, ReturnWith, Unanswered, Advancing,
        Locked, RunStatuses, Stages, TerminalStatus
  <2>2. m \in Manifests
    BY <1>1
  <2> HIDE DEF m
  <2>3. manifest.receipt # "none" => m.receipt # "none" /\ m.bound = manifest.bound
    BY <1>1, <2>1 DEF m
  <2> QED
    BY <2>1, <2>2, <2>3, MoveBinds
<1>4. CASE Merge(p)
  <2> DEFINE m == Accept(mem[p])
  <2>1. at[p] \in Locked /\ MoveTo(p, m, "Merging")
    BY <1>4 DEF Merge, Advancing, Locked
  <2>2. m \in Manifests /\ m.receipt = "accepted" /\ m.bound = mem[p].bound
    BY <1>1 DEF Accept, Manifests
  <2> HIDE DEF m
  <2> QED
    BY <1>1, <2>1, <2>2, MoveBinds
<1>5. CASE Finalize(p)
  <2> DEFINE m == mem[p]
  <2>1. CASE cancelRequested
    <3>1. at[p] \in Locked /\ MoveTo(p, m, "Cancelled") /\ m \in Manifests
      BY <1>1, <1>5, <2>1 DEF Finalize, ReturnWith, Locked
    <3> HIDE DEF m
    <3>2. manifest.receipt # "none" => m.receipt # "none" /\ m.bound = manifest.bound
      BY <1>1, <3>1 DEF m
    <3> QED
      BY <3>1, <3>2, MoveBinds
  <2>2. CASE ~cancelRequested
    BY <1>5, <2>2 DEF Finalize, Bound
  <2> QED
    BY <2>1, <2>2
<1>6. CASE AdvanceTerminal(p) \/ MergeCancelled(p)
  BY <1>6 DEF AdvanceTerminal, MergeCancelled, Return, Bound
<1>7. CASE PublishRequest(p) \/ PublishResult(p)
  BY <1>7 DEF PublishRequest, PublishResult, Bound
<1> QED
  BY <1>2, <1>3, <1>4, <1>5, <1>6, <1>7 DEF Advance

\* The response a manifest was bound to first stays the only one, for any number
\* of clients, commands and kills (submit_primary_arbiter_response,
\* stage_primary_response).
THEOREM ResponseIsBound == Spec => OneResponse
<1>1. Inv /\ [Next]_vars => Bound
  <2> SUFFICES ASSUME Inv, [Next]_vars PROVE Bound
    OBVIOUS
  <2>1. ASSUME NEW p \in Proc, Begin(p) PROVE Bound
    BY <2>1 DEF Begin, BeginAdvance, BeginVerify, BeginSubmit, BeginAmend, Lock, Bound
  <2>2. ASSUME NEW p \in Proc, Amend(p) PROVE Bound
    <3>1. CASE AmendRefused(p) \/ AmendResult(p)
      BY <3>1 DEF AmendRefused, AmendResult, Return, Bound
    <3>2. CASE AmendDigest(p)
      BY <3>2 DEF AmendDigest, SaveAfterTerminal, Bound, Inv, TypeOK, Manifests, Stand, Amends
    <3> QED
      BY <2>2, <3>1, <3>2 DEF Amend
  <2>3. ASSUME NEW p \in Proc, Verify(p) \/ ReportMismatch(p) \/ Kill(p) PROVE Bound
    BY <2>3 DEF Verify, ReportMismatch, Kill, Bound
  <2>4. CASE RequestCancellation \/ Expire \/ UNCHANGED vars
    BY <2>4 DEF RequestCancellation, Expire, vars, Bound
  <2>5. CASE Cancel
    BY <2>5 DEF Cancel, Bound, Inv, TypeOK, Manifests
  <2> QED
    BY <2>1, <2>2, <2>3, <2>4, <2>5, SubmitBinds, AdvanceBinds DEF Next, GoesOn
<1>2. Inv /\ [Next]_vars
      => [manifest.receipt # "none"
          => manifest'.receipt # "none" /\ manifest'.bound = manifest.bound]_vars
  BY <1>1 DEF Bound
<1> QED
  BY <1>2, Invariance, PTL DEF Spec, OneResponse

-----------------------------------------------------------------------------
(* The handshake behaves for others as RunLifecycle says.                  *)

Follows == [Lifecycle!Next]_(Lifecycle!vars)

\* RunLifecycle names the same statuses and edges.
LEMMA SameStatuses ==
    /\ Lifecycle!RunStatuses = RunStatuses
    /\ Lifecycle!TerminalStatus = TerminalStatus
    /\ Lifecycle!CancelStatus = CancelStatus
    /\ Lifecycle!PublicStatus = PublicStatus
    /\ \A s, t : Lifecycle!TransitionAllowed(s, t) <=> TransitionAllowed(s, t)
<1>1. /\ Lifecycle!RunStatuses = RunStatuses
      /\ Lifecycle!TerminalStatus = TerminalStatus
      /\ Lifecycle!CancelStatus = CancelStatus
      /\ Lifecycle!PublicStatus = PublicStatus
  BY DEF Lifecycle!RunStatuses, RunStatuses, Lifecycle!Stages, Stages, Lifecycle!TerminalStatus,
         TerminalStatus, Lifecycle!CancelStatus, CancelStatus, Lifecycle!PublicStatus,
         PublicStatus
<1>2. Lifecycle!AbortStatus = AbortStatus /\ Lifecycle!StageEdges = StageEdges
  BY DEF Lifecycle!AbortStatus, AbortStatus, Lifecycle!StageEdges, StageEdges,
         Lifecycle!CancelStatus, CancelStatus
<1> QED
  BY <1>1, <1>2 DEF Lifecycle!TransitionAllowed, TransitionAllowed

\* What leaves status and request alone is no step of the run's life.
LEMMA StatusStays ==
    ASSUME UNCHANGED cancelRequested, manifest'.status = manifest.status
    PROVE  Follows
  BY DEF Follows, Lifecycle!vars

\* A transition is a move along an edge: a late one ends a cancellation.
LEMMA MoveFollows ==
    ASSUME Inv, NEW p \in Proc, NEW m \in Manifests,
           NEW s \in RunStatuses \ {"Cancelling"}, s = "Cancelled" => cancelRequested,
           MoveTo(p, m, s), UNCHANGED cancelRequested
    PROVE  Follows
<1> DEFINE to == Effective(s, manifest.status, cancelRequested)
<1>1. CASE Terminal(manifest.status)
  BY <1>1, StatusStays DEF MoveTo
<1>2. CASE ~Terminal(manifest.status)
  <2>1. /\ to \in RunStatuses
        /\ to \in CancelStatus <=> cancelRequested
        /\ manifest.status = "Cancelling" => to \in CancelStatus
        /\ to \in PublicStatus => ~cancelRequested
    BY DEF Effective, RunStatuses, TerminalStatus, CancelStatus, PublicStatus, Inv, Run, Ends
  <2>2. TransitionAllowed(manifest.status, to) /\ manifest'.status = to
    BY <1>2, <2>1 DEF MoveTo, Manifests, Inv, TypeOK
  <2> HIDE DEF to
  <2>3. Lifecycle!Move(to)
    BY <1>2, <2>1, <2>2, SameStatuses DEF Lifecycle!Move, Terminal
  <2> QED
    BY <2>1, <2>3, SameStatuses DEF Follows, Lifecycle!Next
<1> QED
  BY <1>1, <1>2

\* A save writes the status it read, or nothing.
LEMMA SaveFollows ==
    ASSUME Inv, NEW p \in Proc, at[p] \in Locked \ {"published", "amending"},
           NEW m \in Manifests, m.status = mem[p].status, Save(p, m),
           UNCHANGED cancelRequested
    PROVE  Follows
<1>1. ~cancelRequested => m.status = manifest.status
  BY DEF Inv, Stand, Fresh
<1> QED
  BY <1>1, SaveEffect, StatusStays

\* A submission stages and accepts the response by saving what it read.
LEMMA SubmitFollows ==
    ASSUME Inv, NEW p \in Proc, Submit(p)
    PROVE  Follows
<1>1. /\ mem[p] \in Manifests
      /\ at[p] = "submit" => input[p] \in Response
  BY DEF Inv, TypeOK, Stand, Submits
<1>2. CASE StageSubmission(p)
  <2> DEFINE m == Stage(mem[p], input[p])
  <2>1. at[p] \in Locked \ {"published", "amending"} /\ Save(p, m)
        /\ UNCHANGED cancelRequested
    BY <1>2 DEF StageSubmission, Locked, Keeps
  <2>2. m \in Manifests /\ m.status = mem[p].status
    BY <1>1, <1>2 DEF StageSubmission, Stage, Manifests, MaybeResponse
  <2> HIDE DEF m
  <2> QED
    BY <2>1, <2>2, SaveFollows
<1>3. CASE AcceptResponse(p)
  <2> DEFINE m == Accept(mem[p])
  <2>1. at[p] \in Locked \ {"published", "amending"} /\ Save(p, m)
        /\ UNCHANGED cancelRequested
    BY <1>3 DEF AcceptResponse, Locked, Keeps
  <2>2. m \in Manifests /\ m.status = mem[p].status
    BY <1>1 DEF Accept, Manifests
  <2> HIDE DEF m
  <2> QED
    BY <2>1, <2>2, SaveFollows
<1>4. CASE \/ SubmitRefused(p) \/ Resubmit(p) \/ WriteResponse(p) \/ RecordAcceptance(p)
           \/ Release(p) \/ AdvanceAgain(p) \/ AdvanceBusy(p)
  BY <1>4, StatusStays
  DEF SubmitRefused, Return, Resubmit, WriteResponse, RecordAcceptance, Release, AdvanceAgain,
      AdvanceBusy, Lock, Keeps
<1> QED
  BY <1>2, <1>3, <1>4 DEF Submit

\* advance() returns through transitions and saves, or without either.
LEMMA AdvanceFollows ==
    ASSUME Inv, NEW p \in Proc, Advance(p)
    PROVE  Follows
<1>1. mem[p] \in Manifests
  BY DEF Inv, TypeOK
<1>2. CASE CreateChallenge(p)
  <2> DEFINE m == [mem[p] EXCEPT !.challenge = "open"]
  <2>1. at[p] \in Locked \ {"published", "amending"} /\ Save(p, m)
        /\ UNCHANGED cancelRequested
    BY <1>2 DEF CreateChallenge, Unanswered, Advancing, Locked, Keeps
  <2>2. m \in Manifests /\ m.status = mem[p].status
    BY <1>1 DEF Manifests
  <2> HIDE DEF m
  <2> QED
    BY <2>1, <2>2, SaveFollows
<1>3. CASE StageAutomatic(p)
  <2> PICK r \in Response : Save(p, Stage(mem[p], r))
    BY <1>3 DEF StageAutomatic
  <2> DEFINE m == Stage(mem[p], r)
  <2>1. at[p] \in Locked \ {"published", "amending"} /\ Save(p, m)
        /\ UNCHANGED cancelRequested
    BY <1>3 DEF StageAutomatic, Unanswered, Advancing, Locked, Keeps
  <2>2. m \in Manifests /\ m.status = mem[p].status
    BY <1>1 DEF Stage, Manifests, MaybeResponse
  <2> HIDE DEF m
  <2> QED
    BY <2>1, <2>2, SaveFollows
<1>4. ASSUME NEW s \in {"WaitingPrimaryArbiter", "Failed", "FailedPolicy", "Completed",
                        "Cancelled"},
             ReturnWith(p, mem[p], s), s = "Cancelled" => cancelRequested
      PROVE  Follows
  <2>1. s \in RunStatuses \ {"Cancelling"}
    BY DEF RunStatuses, Stages, TerminalStatus
  <2> QED
    BY <1>1, <1>4, <2>1, MoveFollows DEF ReturnWith
<1>5. CASE Handoff(p) \/ AutomaticFails(p) \/ AwaitResubmission(p) \/ Complete(p)
  BY <1>4, <1>5 DEF Handoff, AutomaticFails, AwaitResubmission, Complete
<1>6. CASE Merge(p)
  <2> DEFINE m == Accept(mem[p])
  <2>1. MoveTo(p, m, "Merging") /\ UNCHANGED cancelRequested
    BY <1>6 DEF Merge, Keeps
  <2>2. m \in Manifests /\ "Merging" \in RunStatuses \ {"Cancelling"}
    BY <1>1 DEF Accept, Manifests, RunStatuses, Stages
  <2> HIDE DEF m
  <2> QED
    BY <2>1, <2>2, MoveFollows
<1>7. CASE Finalize(p)
  BY <1>4, <1>7, StatusStays DEF Finalize
<1>8. CASE AdvanceTerminal(p) \/ MergeCancelled(p) \/ PublishRequest(p) \/ PublishResult(p)
  BY <1>8, StatusStays DEF AdvanceTerminal, MergeCancelled, PublishRequest, PublishResult, Return,
     Keeps
<1> QED
  BY <1>2, <1>3, <1>5, <1>6, <1>7, <1>8 DEF Advance

\* The request is what RunLifecycle calls one.
LEMMA RequestFollows ==
    ASSUME Inv, RequestCancellation
    PROVE  Follows
<1>1. Lifecycle!RequestCancellation
  BY SameStatuses
  DEF RequestCancellation, Lifecycle!RequestCancellation, Terminal, TerminalStatus, PublicStatus
<1> QED
  BY <1>1 DEF Follows, Lifecycle!Next

\* The cancelling command makes two moves, into the cancellation and to its end.
LEMMA CancelFollows ==
    ASSUME Inv, Cancel
    PROVE  Follows
<1> DEFINE to == IF manifest.status = "Cancelling" THEN "Cancelled" ELSE "Cancelling"
<1>1. /\ to \in RunStatuses /\ to \in CancelStatus /\ to \notin PublicStatus
      /\ manifest'.status = to
      /\ ~Terminal(manifest.status) /\ cancelRequested /\ UNCHANGED cancelRequested
  BY DEF Cancel, Inv, TypeOK, Manifests, RunStatuses, TerminalStatus, CancelStatus, PublicStatus
<1>2. TransitionAllowed(manifest.status, to)
  BY <1>1 DEF TransitionAllowed, AbortStatus, Terminal
<1> HIDE DEF to
<1>3. Lifecycle!Move(to)
  BY <1>1, <1>2, SameStatuses DEF Lifecycle!Move, Terminal
<1> QED
  BY <1>1, <1>3, SameStatuses DEF Follows, Lifecycle!Next

\* Every other step leaves status and request alone.
LEMMA StepFollows == Inv /\ [Next]_vars => Follows
<1> SUFFICES ASSUME Inv, [Next]_vars PROVE Follows
  OBVIOUS
<1>1. ASSUME NEW p \in Proc, Begin(p) \/ Verify(p) \/ ReportMismatch(p) \/ Kill(p)
      PROVE  Follows
  BY <1>1, StatusStays
  DEF Begin, BeginAdvance, BeginVerify, BeginSubmit, BeginAmend, Lock, Verify, ReportMismatch,
      Kill, Keeps
<1>2. ASSUME NEW p \in Proc, Amend(p) PROVE Follows
  <2>1. CASE AmendRefused(p) \/ AmendResult(p)
    BY <2>1, StatusStays DEF AmendRefused, AmendResult, Return, Keeps
  <2>2. CASE AmendDigest(p)
    BY <2>2, StatusStays
    DEF AmendDigest, SaveAfterTerminal, Inv, TypeOK, Manifests, Stand, Amends
  <2> QED
    BY <1>2, <2>1, <2>2 DEF Amend
<1>3. CASE Expire \/ UNCHANGED vars
  BY <1>3, StatusStays DEF Expire, Others, vars
<1> QED
  BY <1>1, <1>2, <1>3, SubmitFollows, AdvanceFollows, RequestFollows, CancelFollows
  DEF Next, GoesOn

\* The commands of the handshake, with everything they save from memory, move the
\* run as callers of the store may: along edges, never out of a cancellation,
\* never to a result once one is requested (save_manifest, transition).
THEOREM HandshakeFollowsLifecycle == Spec => LifecycleSpec
<1>1. Init => Lifecycle!Init
  BY DEF Init, Lifecycle!Init
<1>2. Inv /\ [Next]_vars => [Lifecycle!Next]_(Lifecycle!vars)
  BY StepFollows DEF Follows
<1> QED
  BY <1>1, <1>2, Invariance, PTL DEF Spec, LifecycleSpec, Lifecycle!Spec
=============================================================================
