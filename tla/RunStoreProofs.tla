--------------------------- MODULE RunStoreProofs ---------------------------
(***************************************************************************)
(* Proofs about RunStore and RunScheduler, for any number of processes and *)
(* children, and any bounds.                                               *)
(*                                                                         *)
(* First the store: IInv is inductive, and what follows from it.  One      *)
(* lemma per action, one step per conjunct the action may disturb; a       *)
(* conjunct whose variables the action leaves alone is in the lemma's last *)
(* step.  LogInv is a second one, on top of it, about the log.  Then the   *)
(* commands that call the store: they keep the rules it asks of its        *)
(* clients (CommandsKeepRules), they take its locks in one order           *)
(* (NoCircularWait), and what the manifest says rests on the files of the  *)
(* run (EvidenceInvariance).                                               *)
(***************************************************************************)
EXTENDS RunSchedulerInvariant, TLAPS

\* The sets of statuses of model.rs and store.rs, as far as they matter here.
LEMMA StatusFacts ==
  /\ "none" \notin RunStatuses
  /\ "Cancelling" \in CancelStatus /\ "Cancelled" \in CancelStatus
  /\ CancelStatus \subseteq RunStatuses
  /\ PublicStatus \subseteq TerminalStatus
  /\ TerminalStatus \subseteq RunStatuses
  /\ CancelStatus \cap PublicStatus = {}
  /\ Stages \subseteq RunStatuses
  /\ Stages \cap TerminalStatus = {}
  /\ Stages \cap CancelStatus = {}
  /\ "Cancelling" \notin TerminalStatus
  BY DEF RunStatuses, Stages, TerminalStatus, CancelStatus, PublicStatus

\* A new status, or a new revision of the rest, makes a manifest again.
LEMMA ManifestUpdate ==
  ASSUME NEW m \in Manifests
  PROVE  /\ m.status \in RunStatuses
         /\ [m EXCEPT !.data = m.data + 1] \in Manifests
         /\ [m EXCEPT !.data = m.data + 1].status = m.status
         /\ \A s \in RunStatuses :
               /\ [m EXCEPT !.status = s] \in Manifests
               /\ [m EXCEPT !.status = s].status = s
  BY DEF Manifests

\* A log with one more record is a log: append_jsonl.
LEMMA AppendIsSeq ==
  ASSUME NEW S, NEW log \in Seq(S), NEW r \in S
  PROVE  Append(log, r) \in Seq(S)
  OBVIOUS

-----------------------------------------------------------------------------
\* What an operation that returns leaves in the caller's local state.
LEMMA ReturnType ==
  ASSUME TypeOK, NEW p \in Proc, NEW good \in BOOLEAN, Return(p, good)
  PROVE  /\ op' \in [Proc -> Ops]
         /\ cur' \in [Proc -> MaybeManifest]
         /\ want' \in [Proc -> RunStatuses \cup {"none"}]
         /\ seen' \in [Proc -> MaybeRecord]
         /\ ok' \in [Proc -> BOOLEAN]
<1>1. op' \in [Proc -> Ops] /\ want' \in [Proc -> RunStatuses \cup {"none"}]
  BY DEF Return, Goto, Ops, TypeOK
<1>2. /\ cur' \in [Proc -> MaybeManifest]
      /\ seen' \in [Proc -> MaybeRecord]
  BY DEF Return, TypeOK, MaybeManifest, MaybeRecord
<1>3. ok' \in [Proc -> BOOLEAN]
  BY DEF Return, TypeOK
<1>. QED
  BY <1>1, <1>2, <1>3

\* What a load that succeeds leaves in the caller's local state.
LEMMA LoadReturnsType ==
  ASSUME TypeOK, NEW p \in Proc, LoadReturns(p)
  PROVE  /\ op' \in [Proc -> Ops]
         /\ mem' \in [Proc -> MaybeManifest]
         /\ cur' \in [Proc -> MaybeManifest]
         /\ want' \in [Proc -> RunStatuses \cup {"none"}]
         /\ seen' \in [Proc -> MaybeRecord]
         /\ ok' \in [Proc -> BOOLEAN]
<1>1. CASE manifestLock = p
  BY <1>1 DEF LoadReturns, Goto, Ops, TypeOK
<1>2. CASE manifestLock # p
  <2>1. Return(p, TRUE) /\ mem' = [mem EXCEPT ![p] = cur[p]]
    BY <1>2 DEF LoadReturns
  <2>2. mem' \in [Proc -> MaybeManifest]
    BY <2>1 DEF TypeOK
  <2>. QED
    BY <2>1, <2>2, ReturnType
<1>. QED
  BY <1>1, <1>2

\* Decide keeps cancel.requested as it is, and settles on a status that fits.
LEMMA DecideFacts ==
  ASSUME IInv, NEW p \in Proc, Decide(p)
  PROVE  /\ op[p] = "decide"
         /\ manifestLock = p
         /\ ~Terminal(manifest.status)
         /\ UNCHANGED <<cancelRequested, manifest, pending, events, result,
                        processes, runLock, eventsLock, pidsLock, mem, snapshot,
                        history>>
         /\ \/ /\ Return(p, FALSE)
               /\ manifestLock' = NoProc
            \/ /\ UNCHANGED <<cur, seen, ok, manifestLock>>
               /\ Goto(p, "writePending")
               /\ \E to \in RunStatuses :
                     /\ want' = [want EXCEPT ![p] = to]
                     /\ TransitionAllowed(manifest.status, to)
                     /\ to \in CancelStatus => cancelRequested
                     /\ to \notin CancelStatus => to = want[p]
                     /\ manifest.status = "Cancelling" => to \in CancelStatus
<1>1. /\ op[p] = "decide"
      /\ manifestLock = p
      /\ cur[p] = manifest
      /\ want[p] \in RunStatuses
  BY DEF Decide, IInv, ManifestLockHeld, ReadsAreLoaded, TransitionOps, TypeOK
<1>2. /\ cancelRequested' = cancelRequested
      /\ manifest.status = "Cancelling" => cancelRequested
      /\ want[p] \in CancelStatus => cancelRequested
  BY StatusFacts DEF Decide, IInv, CancelIsRequested, TypeOK
<1>. DEFINE to == Effective(want[p], manifest.status, cancelRequested)
<1>3. /\ to \in RunStatuses
      /\ to \in CancelStatus => cancelRequested
      /\ to \notin CancelStatus => to = want[p]
      /\ manifest.status = "Cancelling" => to \in CancelStatus
  BY <1>1, <1>2, StatusFacts DEF Effective
<1>. HIDE DEF to
<1>4. CASE TransitionAllowed(manifest.status, to)
  <2>1. /\ want' = [want EXCEPT ![p] = to]
        /\ Goto(p, "writePending")
        /\ UNCHANGED <<cur, seen, ok, manifestLock>>
    BY <1>1, <1>2, <1>4 DEF Decide, to
  <2>. QED
    BY <1>1, <1>2, <1>3, <1>4, <2>1 DEF Decide
<1>5. CASE ~TransitionAllowed(manifest.status, to)
  <2>1. Return(p, FALSE) /\ manifestLock' = NoProc
    BY <1>1, <1>2, <1>5 DEF Decide, to
  <2>. QED
    BY <1>1, <1>2, <2>1 DEF Decide
<1>. QED
  BY <1>4, <1>5

\* The record a transition writes names the edge it is about to take.
LEMMA WritePendingFacts ==
  ASSUME IInv, NEW p \in Proc, WritePending(p)
  PROVE  /\ manifestLock = p
         /\ pending' \in Records
         /\ pending' # NoPending
         /\ pending'.from = manifest.status
         /\ pending'.to = want[p]
<1>1. manifestLock = p /\ cur[p] = manifest /\ want[p] \in RunStatuses
  BY DEF WritePending, IInv, ManifestLockHeld, ReadsAreLoaded, TransitionOps,
     TypeOK
<1>2. manifest.status \in RunStatuses
  BY DEF IInv, TypeOK, Manifests
<1>3. written + 1 \in Nat
  BY DEF IInv, TypeOK
<1>4. pending' = [id |-> written + 1, from |-> manifest.status, to |-> want[p]]
  BY <1>1 DEF WritePending, NewPending
<1>. QED
  BY <1>1, <1>2, <1>3, <1>4, NoneAssumption DEF Records

\* A transition saves a manifest with the status it decided on.
LEMMA SaveTransitionFacts ==
  ASSUME IInv, NEW p \in Proc, SaveTransition(p)
  PROVE  /\ manifestLock = p
         /\ want[p] \in RunStatuses
         /\ manifest' \in Manifests
         /\ manifest'.status = want[p]
         /\ mem' = [mem EXCEPT ![p] = manifest']
         /\ seen[p] \in Records
         /\ committed' = Append(committed, seen[p])
<1>1. /\ manifestLock = p
      /\ want[p] \in RunStatuses
      /\ cur[p] = manifest
      /\ seen[p] \in Records
  BY DEF SaveTransition, IInv, ManifestLockHeld, ReadsAreLoaded, TransitionOps,
     TypeOK, MaybeRecord
<1>2. want[p] \notin CancelStatus => mem[p] \in Manifests
  BY <1>1 DEF IInv, RunLockHeld, TypeOK, MaybeManifest
<1>3. Base(p) \in Manifests
  BY <1>1, <1>2 DEF Base, IInv, TypeOK
<1>4. /\ manifest' = [Base(p) EXCEPT !.status = want[p]]
      /\ mem' = [mem EXCEPT ![p] = manifest']
      /\ committed' = Append(committed, seen[p])
  BY DEF SaveTransition
<1>. QED
  BY <1>1, <1>3, <1>4, ManifestUpdate

-----------------------------------------------------------------------------
\* A command takes .run.lock (try_lock_exclusive) and forgets any manifest.
LEMMA TakeRunLockInv ==
  ASSUME IInv, NEW p \in Proc, TakeRunLock(p)
  PROVE  IInv'
<1>. USE NoneAssumption, StatusFacts
         DEF IInv, TypeOK, MaybeManifest, MaybeProc, MaybeRecord, TakeRunLock,
             RunLockFree, disk, history
<1>1. TypeOK'
  BY DEF Ops, ManifestLockHeld, ReadsAreLoaded, LoadOps, TransitionOps
<1>2. RunLockHeld'
  BY DEF RunLockHeld
<1>3. WorkerKnowsStatus'
  BY DEF WorkerKnowsStatus, Terminal, LoadOps
<1>4. NoResultAfterCancel' /\ CompletedHasResult' /\ ManifestLockHeld' /\
      PidsLockHeld' /\ ReadsAreLoaded' /\ CancelIsRequested' /\
      ResultIsUncancelled' /\ WriteIsAllowed' /\ PendingFits' /\
      NoSnapshotYet'
  BY DEF SnapshotCoversProcesses, NoResultAfterCancel, CompletedHasResult,
     ManifestLockHeld, PidsLockHeld, ReadsAreLoaded, CancelIsRequested,
     ResultIsUncancelled, WriteIsAllowed, PendingFits, NoSnapshotYet
<1>. QED
  BY <1>1, <1>2, <1>3, <1>4

\* The worker, or `resume`, returns and lets go of .run.lock.
LEMMA DropRunLockInv ==
  ASSUME IInv, NEW p \in Proc, Unguarded(p), DropRunLock(p)
  PROVE  IInv'
<1>. USE NoneAssumption, StatusFacts
         DEF IInv, TypeOK, MaybeManifest, MaybeProc, MaybeRecord, DropRunLock,
             disk, history, Unguarded
<1>1. TypeOK'
  BY DEF Ops, ManifestLockHeld, ReadsAreLoaded, LoadOps, TransitionOps
<1>2. RunLockHeld'
  BY DEF RunLockHeld, ManifestLockHeld, LoadOps, TransitionOps
<1>3. WorkerKnowsStatus'
  BY DEF WorkerKnowsStatus, Terminal, LoadOps
<1>4. NoResultAfterCancel' /\ CompletedHasResult' /\ ManifestLockHeld' /\
      PidsLockHeld' /\ ReadsAreLoaded' /\ CancelIsRequested' /\
      ResultIsUncancelled' /\ WriteIsAllowed' /\ PendingFits' /\
      NoSnapshotYet'
  BY DEF SnapshotCoversProcesses, NoResultAfterCancel, CompletedHasResult,
     ManifestLockHeld, PidsLockHeld, ReadsAreLoaded, CancelIsRequested,
     ResultIsUncancelled, WriteIsAllowed, PendingFits, NoSnapshotYet
<1>. QED
  BY <1>1, <1>2, <1>3, <1>4

\* A command that never held .run.lock returns.
LEMMA LeaveInv ==
  ASSUME IInv, NEW p \in Proc, Leave(p)
  PROVE  IInv'
<1>. USE NoneAssumption, StatusFacts
         DEF IInv, TypeOK, MaybeManifest, MaybeProc, MaybeRecord, Leave, disk,
             locks, history
<1>1. TypeOK'
  BY DEF Ops, ManifestLockHeld, ReadsAreLoaded, LoadOps, TransitionOps
<1>2. RunLockHeld'
  BY DEF RunLockHeld
<1>3. WorkerKnowsStatus'
  BY DEF WorkerKnowsStatus, Terminal, LoadOps
<1>4. NoResultAfterCancel' /\ CompletedHasResult' /\ ManifestLockHeld' /\
      PidsLockHeld' /\ ReadsAreLoaded' /\ CancelIsRequested' /\
      ResultIsUncancelled' /\ WriteIsAllowed' /\ PendingFits' /\
      NoSnapshotYet'
  BY DEF SnapshotCoversProcesses, NoResultAfterCancel, CompletedHasResult,
     ManifestLockHeld, PidsLockHeld, ReadsAreLoaded, CancelIsRequested,
     ResultIsUncancelled, WriteIsAllowed, PendingFits, NoSnapshotYet
<1>. QED
  BY <1>1, <1>2, <1>3, <1>4

\* load_manifest reads manifest.json, without a lock.
LEMMA LoadInv ==
  ASSUME IInv, NEW p \in Proc, Unguarded(p), Load(p)
  PROVE  IInv'
<1>. USE NoneAssumption, StatusFacts
         DEF IInv, TypeOK, MaybeManifest, MaybeProc, MaybeRecord, Load, Goto,
             disk, locks, history, Unguarded
<1>1. TypeOK'
  BY DEF Ops, ManifestLockHeld, ReadsAreLoaded, LoadOps, TransitionOps
<1>2. ManifestLockHeld'
  BY DEF ManifestLockHeld, TransitionOps, LoadOps
<1>3. PidsLockHeld'
  BY DEF PidsLockHeld, GuardedOps
<1>4. RunLockHeld'
  BY DEF RunLockHeld
<1>5. ReadsAreLoaded'
  BY DEF ReadsAreLoaded, LoadOps, TransitionOps
<1>6. CancelIsRequested'
  BY DEF CancelIsRequested
<1>7. ResultIsUncancelled'
  BY DEF ResultIsUncancelled
<1>8. WriteIsAllowed'
  BY DEF WriteIsAllowed, Terminal
<1>9. WorkerKnowsStatus'
  BY DEF WorkerKnowsStatus, Terminal, LoadOps
<1>10. NoResultAfterCancel' /\ CompletedHasResult' /\ PendingFits' /\
       NoSnapshotYet'
  BY DEF SnapshotCoversProcesses, NoResultAfterCancel, CompletedHasResult,
     PendingFits, NoSnapshotYet
<1>. QED
  BY <1>1, <1>2, <1>3, <1>4, <1>5, <1>6, <1>7, <1>8, <1>9, <1>10

\* load_manifest looks for a pending record and, finding none, returns.
LEMMA PendingExistsInv ==
  ASSUME IInv, NEW p \in Proc, PendingExists(p)
  PROVE  IInv'
<1>1. TypeOK'
  <2>1. CASE pending = NoPending
    BY <2>1, LoadReturnsType DEF PendingExists, IInv, TypeOK, disk, locks,
       history
  <2>2. CASE pending # NoPending
    BY <2>2 DEF PendingExists, IInv, TypeOK, disk, locks, history, Goto, Ops
  <2>. QED
    BY <2>1, <2>2
<1>2. ManifestLockHeld'
  BY NoneAssumption, StatusFacts
     DEF IInv, ManifestLockHeld, TransitionOps, LoadOps, PendingExists,
         LoadReturns, Goto, Return, disk, locks, history, TypeOK,
         MaybeManifest, MaybeProc, MaybeRecord
<1>3. PidsLockHeld'
  BY NoneAssumption, StatusFacts
     DEF IInv, PidsLockHeld, GuardedOps, PendingExists, LoadReturns, Goto,
         Return, disk, locks, history, TypeOK, MaybeManifest, MaybeProc,
         MaybeRecord
<1>4. RunLockHeld'
  BY NoneAssumption, StatusFacts
     DEF IInv, RunLockHeld, PendingExists, LoadReturns, Goto, Return, disk,
         locks, history, TypeOK, MaybeManifest, MaybeProc, MaybeRecord
<1>5. ReadsAreLoaded'
  BY NoneAssumption, StatusFacts
     DEF IInv, ReadsAreLoaded, LoadOps, TransitionOps, PendingExists,
         LoadReturns, Goto, Return, disk, locks, history, TypeOK,
         MaybeManifest, MaybeProc, MaybeRecord
<1>6. CancelIsRequested'
  BY NoneAssumption, StatusFacts
     DEF IInv, CancelIsRequested, PendingExists, LoadReturns, Goto, Return,
         disk, locks, history, TypeOK, MaybeManifest, MaybeProc, MaybeRecord
<1>7. ResultIsUncancelled'
  BY NoneAssumption, StatusFacts
     DEF IInv, ResultIsUncancelled, PendingExists, LoadReturns, Goto, Return,
         disk, locks, history, TypeOK, MaybeManifest, MaybeProc, MaybeRecord
<1>8. WriteIsAllowed'
  BY NoneAssumption, StatusFacts
     DEF IInv, WriteIsAllowed, Terminal, PendingExists, LoadReturns, Goto,
         Return, disk, locks, history, TypeOK, MaybeManifest, MaybeProc,
         MaybeRecord
<1>9. WorkerKnowsStatus'
  BY NoneAssumption, StatusFacts
     DEF IInv, WorkerKnowsStatus, Terminal, LoadOps, PendingExists,
         LoadReturns, Goto, Return, disk, locks, history, TypeOK,
         MaybeManifest, MaybeProc, MaybeRecord
<1>10. NoResultAfterCancel' /\ CompletedHasResult' /\ PendingFits' /\
       NoSnapshotYet'
  BY IInv
     DEF IInv, PendingExists, LoadReturns, Goto, Return, disk, locks, history,
         SnapshotCoversProcesses, NoResultAfterCancel, CompletedHasResult,
         PendingFits, NoSnapshotYet
<1>. QED
  BY <1>1, <1>2, <1>3, <1>4, <1>5, <1>6, <1>7, <1>8, <1>9, <1>10 DEF IInv

\* recover_pending_transition reads a record that fits the manifest it has.
LEMMA ReadPendingInv ==
  ASSUME IInv, NEW p \in Proc, ReadPending(p)
  PROVE  IInv'
<1>. USE NoneAssumption, StatusFacts
         DEF IInv, TypeOK, MaybeManifest, MaybeProc, MaybeRecord, ReadPending,
             Goto, Uncommitted, disk, locks, history
<1>1. TypeOK'
  BY DEF Ops, ManifestLockHeld, ReadsAreLoaded, LoadOps, TransitionOps
<1>2. ManifestLockHeld'
  BY DEF ManifestLockHeld, TransitionOps, LoadOps
<1>3. PidsLockHeld'
  BY DEF PidsLockHeld, GuardedOps
<1>4. RunLockHeld'
  BY DEF RunLockHeld
<1>5. ReadsAreLoaded'
  BY DEF ReadsAreLoaded, LoadOps, TransitionOps
<1>6. CancelIsRequested'
  BY DEF CancelIsRequested
<1>7. ResultIsUncancelled'
  BY DEF ResultIsUncancelled
<1>8. WriteIsAllowed'
  BY DEF WriteIsAllowed, Terminal
<1>9. WorkerKnowsStatus'
  BY DEF WorkerKnowsStatus, Terminal, LoadOps
<1>10. NoResultAfterCancel' /\ CompletedHasResult' /\ PendingFits' /\
       NoSnapshotYet'
  BY DEF SnapshotCoversProcesses, NoResultAfterCancel, CompletedHasResult,
     PendingFits, NoSnapshotYet
<1>. QED
  BY <1>1, <1>2, <1>3, <1>4, <1>5, <1>6, <1>7, <1>8, <1>9, <1>10

\* The pending record was removed since it was looked for.
LEMMA ReadPendingVanishedInv ==
  ASSUME IInv, NEW p \in Proc, ReadPendingVanished(p)
  PROVE  IInv'
<1>. USE NoneAssumption, StatusFacts
         DEF IInv, TypeOK, MaybeManifest, MaybeProc, MaybeRecord,
             ReadPendingVanished, LoadFails, Return, Goto, Holder, disk,
             history
<1>1. TypeOK'
  BY DEF Ops, ManifestLockHeld, ReadsAreLoaded, LoadOps, TransitionOps
<1>2. ManifestLockHeld'
  BY DEF ManifestLockHeld, TransitionOps, LoadOps
<1>3. PidsLockHeld'
  BY DEF PidsLockHeld, GuardedOps
<1>4. RunLockHeld'
  BY DEF RunLockHeld
<1>5. ReadsAreLoaded'
  BY DEF ReadsAreLoaded, LoadOps, TransitionOps
<1>6. CancelIsRequested'
  BY DEF CancelIsRequested
<1>7. ResultIsUncancelled'
  BY DEF ResultIsUncancelled
<1>8. WriteIsAllowed'
  BY DEF WriteIsAllowed, Terminal
<1>9. WorkerKnowsStatus'
  BY DEF WorkerKnowsStatus, Terminal, LoadOps
<1>10. NoResultAfterCancel' /\ CompletedHasResult' /\ PendingFits' /\
       NoSnapshotYet'
  BY DEF SnapshotCoversProcesses, NoResultAfterCancel, CompletedHasResult,
     PendingFits, NoSnapshotYet
<1>. QED
  BY <1>1, <1>2, <1>3, <1>4, <1>5, <1>6, <1>7, <1>8, <1>9, <1>10

\* The pending record names neither status: the load fails.
LEMMA ReadPendingMismatchInv ==
  ASSUME IInv, NEW p \in Proc, ReadPendingMismatch(p)
  PROVE  IInv'
<1>. USE NoneAssumption, StatusFacts
         DEF IInv, TypeOK, MaybeManifest, MaybeProc, MaybeRecord,
             ReadPendingMismatch, LoadFails, Return, Goto, Holder, disk,
             history
<1>1. TypeOK'
  BY DEF Ops, ManifestLockHeld, ReadsAreLoaded, LoadOps, TransitionOps
<1>2. ManifestLockHeld'
  BY DEF ManifestLockHeld, TransitionOps, LoadOps
<1>3. PidsLockHeld'
  BY DEF PidsLockHeld, GuardedOps
<1>4. RunLockHeld'
  BY DEF RunLockHeld
<1>5. ReadsAreLoaded'
  BY DEF ReadsAreLoaded, LoadOps, TransitionOps
<1>6. CancelIsRequested'
  BY DEF CancelIsRequested
<1>7. ResultIsUncancelled'
  BY DEF ResultIsUncancelled
<1>8. WriteIsAllowed'
  BY DEF WriteIsAllowed, Terminal
<1>9. WorkerKnowsStatus'
  BY DEF WorkerKnowsStatus, Terminal, LoadOps
<1>10. NoResultAfterCancel' /\ CompletedHasResult' /\ PendingFits' /\
       NoSnapshotYet'
  BY DEF SnapshotCoversProcesses, NoResultAfterCancel, CompletedHasResult,
     PendingFits, NoSnapshotYet
<1>. QED
  BY <1>1, <1>2, <1>3, <1>4, <1>5, <1>6, <1>7, <1>8, <1>9, <1>10

\* Recovery forgets a transition whose manifest was never written.
LEMMA DropPendingInv ==
  ASSUME IInv, NEW p \in Proc, DropPending(p)
  PROVE  IInv'
<1>1. TypeOK'
  BY LoadReturnsType
     DEF DropPending, IInv, TypeOK, MaybeRecord, MaybeProc, locks,
     history
<1>2. ManifestLockHeld'
  BY NoneAssumption, StatusFacts
     DEF IInv, ManifestLockHeld, TransitionOps, LoadOps, DropPending,
         LoadReturns, Goto, Return, locks, history, TypeOK, MaybeManifest,
         MaybeProc, MaybeRecord
<1>3. PidsLockHeld'
  BY NoneAssumption, StatusFacts
     DEF IInv, PidsLockHeld, GuardedOps, DropPending, LoadReturns, Goto,
         Return, locks, history, TypeOK, MaybeManifest, MaybeProc, MaybeRecord
<1>4. RunLockHeld'
  BY NoneAssumption, StatusFacts
     DEF IInv, RunLockHeld, DropPending, LoadReturns, Goto, Return, locks,
         history, TypeOK, MaybeManifest, MaybeProc, MaybeRecord
<1>5. ReadsAreLoaded'
  BY NoneAssumption, StatusFacts
     DEF IInv, ReadsAreLoaded, LoadOps, TransitionOps, DropPending,
         LoadReturns, Goto, Return, locks, history, TypeOK, MaybeManifest,
         MaybeProc, MaybeRecord
<1>6. CancelIsRequested'
  BY NoneAssumption, StatusFacts
     DEF IInv, CancelIsRequested, DropPending, LoadReturns, Goto, Return,
         locks, history, TypeOK, MaybeManifest, MaybeProc, MaybeRecord
<1>7. ResultIsUncancelled'
  BY NoneAssumption, StatusFacts
     DEF IInv, ResultIsUncancelled, DropPending, LoadReturns, Goto, Return,
         locks, history, TypeOK, MaybeManifest, MaybeProc, MaybeRecord
<1>8. WriteIsAllowed'
  BY NoneAssumption, StatusFacts
     DEF IInv, WriteIsAllowed, Terminal, DropPending, LoadReturns, Goto,
         Return, locks, history, TypeOK, MaybeManifest, MaybeProc, MaybeRecord
<1>9. WorkerKnowsStatus'
  BY NoneAssumption, StatusFacts
     DEF IInv, WorkerKnowsStatus, Terminal, LoadOps, DropPending, LoadReturns,
         Goto, Return, locks, history, TypeOK, MaybeManifest, MaybeProc,
         MaybeRecord
<1>10. PendingFits'
  BY NoneAssumption, StatusFacts
     DEF IInv, PendingFits, DropPending, LoadReturns, Goto, Return, locks,
         history, TypeOK, MaybeManifest, MaybeProc, MaybeRecord
<1>11. NoResultAfterCancel' /\ CompletedHasResult' /\ NoSnapshotYet'
  BY IInv
     DEF IInv, DropPending, LoadReturns, Goto, Return, locks, history,
         SnapshotCoversProcesses, NoResultAfterCancel, CompletedHasResult,
         NoSnapshotYet
<1>. QED
  BY <1>1, <1>2, <1>3, <1>4, <1>5, <1>6, <1>7, <1>8, <1>9, <1>10, <1>11 DEF IInv

\* Recovery writes the missing event under .events.lock.
LEMMA RecoverEventInv ==
  ASSUME IInv, NEW p \in Proc, RecoverEvent(p)
  PROVE  IInv'
<1>. USE NoneAssumption, StatusFacts
         DEF IInv, TypeOK, MaybeManifest, MaybeProc, MaybeRecord,
             RecoverEvent, Record, Ids, Goto, history
<1>1. TypeOK'
  BY DEF Ops, ManifestLockHeld, ReadsAreLoaded, LoadOps, TransitionOps
<1>2. ManifestLockHeld'
  BY DEF ManifestLockHeld, TransitionOps, LoadOps
<1>3. PidsLockHeld'
  BY DEF PidsLockHeld, GuardedOps
<1>4. RunLockHeld'
  BY DEF RunLockHeld
<1>5. ReadsAreLoaded'
  BY DEF ReadsAreLoaded, LoadOps, TransitionOps
<1>6. CancelIsRequested'
  BY DEF CancelIsRequested
<1>7. ResultIsUncancelled'
  BY DEF ResultIsUncancelled
<1>8. WriteIsAllowed'
  BY DEF WriteIsAllowed, Terminal
<1>9. WorkerKnowsStatus'
  BY DEF WorkerKnowsStatus, Terminal, LoadOps
<1>10. NoResultAfterCancel' /\ CompletedHasResult' /\ PendingFits' /\
       NoSnapshotYet'
  BY DEF SnapshotCoversProcesses, NoResultAfterCancel, CompletedHasResult,
     PendingFits, NoSnapshotYet
<1>. QED
  BY <1>1, <1>2, <1>3, <1>4, <1>5, <1>6, <1>7, <1>8, <1>9, <1>10

\* Recovery forgets the record it completed, and the load returns.
LEMMA RecoverDoneInv ==
  ASSUME IInv, NEW p \in Proc, RecoverDone(p)
  PROVE  IInv'
<1>1. TypeOK'
  BY LoadReturnsType
     DEF RecoverDone, IInv, TypeOK, MaybeRecord, MaybeProc, locks,
     history
<1>2. ManifestLockHeld'
  BY NoneAssumption, StatusFacts
     DEF IInv, ManifestLockHeld, TransitionOps, LoadOps, RecoverDone,
         LoadReturns, Goto, Return, history, TypeOK, MaybeManifest, MaybeProc,
         MaybeRecord
<1>3. PidsLockHeld'
  BY NoneAssumption, StatusFacts
     DEF IInv, PidsLockHeld, GuardedOps, RecoverDone, LoadReturns, Goto,
         Return, history, TypeOK, MaybeManifest, MaybeProc, MaybeRecord
<1>4. RunLockHeld'
  BY NoneAssumption, StatusFacts
     DEF IInv, RunLockHeld, RecoverDone, LoadReturns, Goto, Return, history,
         TypeOK, MaybeManifest, MaybeProc, MaybeRecord
<1>5. ReadsAreLoaded'
  BY NoneAssumption, StatusFacts
     DEF IInv, ReadsAreLoaded, LoadOps, TransitionOps, RecoverDone,
         LoadReturns, Goto, Return, history, TypeOK, MaybeManifest, MaybeProc,
         MaybeRecord
<1>6. CancelIsRequested'
  BY NoneAssumption, StatusFacts
     DEF IInv, CancelIsRequested, RecoverDone, LoadReturns, Goto, Return,
         history, TypeOK, MaybeManifest, MaybeProc, MaybeRecord
<1>7. ResultIsUncancelled'
  BY NoneAssumption, StatusFacts
     DEF IInv, ResultIsUncancelled, RecoverDone, LoadReturns, Goto, Return,
         history, TypeOK, MaybeManifest, MaybeProc, MaybeRecord
<1>8. WriteIsAllowed'
  BY NoneAssumption, StatusFacts
     DEF IInv, WriteIsAllowed, Terminal, RecoverDone, LoadReturns, Goto,
         Return, history, TypeOK, MaybeManifest, MaybeProc, MaybeRecord
<1>9. WorkerKnowsStatus'
  BY NoneAssumption, StatusFacts
     DEF IInv, WorkerKnowsStatus, Terminal, LoadOps, RecoverDone, LoadReturns,
         Goto, Return, history, TypeOK, MaybeManifest, MaybeProc, MaybeRecord
<1>10. PendingFits'
  BY NoneAssumption, StatusFacts
     DEF IInv, PendingFits, RecoverDone, LoadReturns, Goto, Return, history,
         TypeOK, MaybeManifest, MaybeProc, MaybeRecord
<1>11. NoResultAfterCancel' /\ CompletedHasResult' /\ NoSnapshotYet'
  BY IInv
     DEF IInv, RecoverDone, LoadReturns, Goto, Return, history,
         SnapshotCoversProcesses, NoResultAfterCancel, CompletedHasResult,
         NoSnapshotYet
<1>. QED
  BY <1>1, <1>2, <1>3, <1>4, <1>5, <1>6, <1>7, <1>8, <1>9, <1>10, <1>11 DEF IInv

\* transition() takes .manifest.lock and reads the manifest again.
LEMMA TransitionInv ==
  ASSUME IInv, NEW p \in Proc, NEW s \in RunStatuses,
         MayRequest(p, s), Transition(p, s)
  PROVE  IInv'
<1>. USE NoneAssumption, StatusFacts
         DEF IInv, TypeOK, MaybeManifest, MaybeProc, MaybeRecord, Transition,
             Goto, disk, history, MayRequest, Unguarded, Working
<1>1. TypeOK'
  BY DEF Ops, ManifestLockHeld, ReadsAreLoaded, LoadOps, TransitionOps
<1>2. ManifestLockHeld'
  BY DEF ManifestLockHeld, TransitionOps, LoadOps
<1>3. PidsLockHeld'
  BY DEF PidsLockHeld, GuardedOps
<1>4. RunLockHeld'
  BY DEF RunLockHeld
<1>5. ReadsAreLoaded'
  BY DEF ReadsAreLoaded, LoadOps, TransitionOps
<1>6. CancelIsRequested'
  BY DEF CancelIsRequested
<1>7. ResultIsUncancelled'
  BY DEF ResultIsUncancelled
<1>8. WriteIsAllowed'
  BY DEF WriteIsAllowed, Terminal
<1>9. WorkerKnowsStatus'
  BY DEF WorkerKnowsStatus, Terminal, LoadOps
<1>10. NoResultAfterCancel' /\ CompletedHasResult' /\ PendingFits' /\
       NoSnapshotYet'
  BY DEF SnapshotCoversProcesses, NoResultAfterCancel, CompletedHasResult,
     PendingFits, NoSnapshotYet
<1>. QED
  BY <1>1, <1>2, <1>3, <1>4, <1>5, <1>6, <1>7, <1>8, <1>9, <1>10

\* transition() finds the run ended by somebody else.
LEMMA DecideTerminalInv ==
  ASSUME IInv, NEW p \in Proc, DecideTerminal(p)
  PROVE  IInv'
<1>. USE NoneAssumption, StatusFacts
         DEF IInv, TypeOK, MaybeManifest, MaybeProc, MaybeRecord,
             DecideTerminal, Terminal, Return, Goto, disk, history
<1>1. TypeOK'
  BY DEF Ops, ManifestLockHeld, ReadsAreLoaded, LoadOps, TransitionOps
<1>2. ManifestLockHeld'
  BY DEF ManifestLockHeld, TransitionOps, LoadOps
<1>3. PidsLockHeld'
  BY DEF PidsLockHeld, GuardedOps
<1>4. RunLockHeld'
  BY DEF RunLockHeld
<1>5. ReadsAreLoaded'
  BY DEF ReadsAreLoaded, LoadOps, TransitionOps
<1>6. CancelIsRequested'
  BY DEF CancelIsRequested
<1>7. ResultIsUncancelled'
  BY DEF ResultIsUncancelled
<1>8. WriteIsAllowed'
  BY DEF WriteIsAllowed
<1>9. WorkerKnowsStatus'
  BY DEF WorkerKnowsStatus, LoadOps, ManifestLockHeld, TransitionOps,
     ReadsAreLoaded
<1>10. NoResultAfterCancel' /\ CompletedHasResult' /\ PendingFits' /\
       NoSnapshotYet'
  BY DEF SnapshotCoversProcesses, NoResultAfterCancel, CompletedHasResult,
     PendingFits, NoSnapshotYet
<1>. QED
  BY <1>1, <1>2, <1>3, <1>4, <1>5, <1>6, <1>7, <1>8, <1>9, <1>10

\* transition() settles on the status it writes, or on an error.
LEMMA DecideInv ==
  ASSUME IInv, NEW p \in Proc, Decide(p)
  PROVE  IInv'
<1>1. TypeOK'
  <2>1. CASE Return(p, FALSE) /\ manifestLock' = NoProc
    BY <2>1, DecideFacts, ReturnType DEF IInv, TypeOK, MaybeProc, history
  <2>2. CASE UNCHANGED <<cur, seen, ok, manifestLock>> /\ Goto(p, "writePending")
             /\ \E to \in RunStatuses : want' = [want EXCEPT ![p] = to]
    <3>1. PICK to \in RunStatuses : want' = [want EXCEPT ![p] = to]
      BY <2>2
    <3>2. want' \in [Proc -> RunStatuses \cup {"none"}]
      BY <3>1 DEF IInv, TypeOK
    <3>3. op' \in [Proc -> Ops]
      BY <2>2 DEF IInv, TypeOK, Goto, Ops
    <3>. QED
      BY <2>2, <3>2, <3>3, DecideFacts DEF IInv, TypeOK, history
  <2>. QED
    BY <2>1, <2>2, DecideFacts
<1>2. NoResultAfterCancel'
  BY DecideFacts, NoneAssumption, StatusFacts
     DEF IInv, NoResultAfterCancel, Goto, Return, history, TypeOK,
         MaybeManifest, MaybeProc, MaybeRecord
<1>3. ManifestLockHeld'
  BY DecideFacts, NoneAssumption, StatusFacts
     DEF IInv, ManifestLockHeld, TransitionOps, LoadOps, Goto, Return,
         history, TypeOK, MaybeManifest, MaybeProc, MaybeRecord
<1>4. PidsLockHeld'
  BY DecideFacts, NoneAssumption, StatusFacts
     DEF IInv, PidsLockHeld, GuardedOps, Goto, Return, history, TypeOK,
         MaybeManifest, MaybeProc, MaybeRecord
<1>5. RunLockHeld'
  BY DecideFacts, NoneAssumption, StatusFacts
     DEF IInv, RunLockHeld, Goto, Return, history, TypeOK, MaybeManifest,
         MaybeProc, MaybeRecord
<1>6. ReadsAreLoaded'
  BY DecideFacts, NoneAssumption, StatusFacts
     DEF IInv, ReadsAreLoaded, LoadOps, TransitionOps, Goto, Return, history,
         TypeOK, MaybeManifest, MaybeProc, MaybeRecord
<1>7. CancelIsRequested'
  BY DecideFacts, NoneAssumption, StatusFacts
     DEF IInv, CancelIsRequested, Goto, Return, history, TypeOK,
         MaybeManifest, MaybeProc, MaybeRecord
<1>8. ResultIsUncancelled'
  BY DecideFacts, NoneAssumption, StatusFacts
     DEF IInv, ResultIsUncancelled, Goto, Return, history, TypeOK,
         MaybeManifest, MaybeProc, MaybeRecord
<1>9. WriteIsAllowed'
  BY DecideFacts, NoneAssumption, StatusFacts
     DEF IInv, WriteIsAllowed, Terminal, Goto, Return, history, TypeOK,
         MaybeManifest, MaybeProc, MaybeRecord
<1>10. WorkerKnowsStatus'
  BY DecideFacts, NoneAssumption, StatusFacts
     DEF IInv, WorkerKnowsStatus, Terminal, LoadOps, Goto, Return, history,
         TypeOK, MaybeManifest, MaybeProc, MaybeRecord
<1>11. NoSnapshotYet'
  BY DecideFacts, NoneAssumption, StatusFacts
     DEF IInv, NoSnapshotYet, SnapshotCoversProcesses, Goto, Return, history,
         TypeOK, MaybeManifest, MaybeProc, MaybeRecord
<1>12. CompletedHasResult' /\ PendingFits'
  BY IInv, DecideFacts
     DEF IInv, Goto, Return, history, SnapshotCoversProcesses,
         CompletedHasResult, PendingFits
<1>. QED
  BY <1>1, <1>2, <1>3, <1>4, <1>5, <1>6, <1>7, <1>8, <1>9, <1>10, <1>11, <1>12
     DEF IInv

\* transition() writes pending-transition.json.
LEMMA WritePendingInv ==
  ASSUME IInv, NEW p \in Proc, WritePending(p)
  PROVE  IInv'
<1>1. TypeOK'
  <2>1. /\ seen' = [seen EXCEPT ![p] = pending']
        /\ written' = written + 1
        /\ Goto(p, "save")
    BY DEF WritePending
  <2>2. seen' \in [Proc -> MaybeRecord] /\ pending' \in MaybeRecord
    BY <2>1, WritePendingFacts DEF IInv, TypeOK, MaybeRecord
  <2>3. op' \in [Proc -> Ops] /\ written' \in Nat
    BY <2>1 DEF IInv, TypeOK, Goto, Ops
  <2>. QED
    BY <2>2, <2>3 DEF WritePending, IInv, TypeOK, locks
<1>2. ManifestLockHeld'
  BY WritePendingFacts, NoneAssumption, StatusFacts
     DEF IInv, ManifestLockHeld, TransitionOps, LoadOps, WritePending, Goto,
         locks, TypeOK, MaybeManifest, MaybeProc, MaybeRecord, ReadsAreLoaded
<1>3. PidsLockHeld'
  BY WritePendingFacts, NoneAssumption, StatusFacts
     DEF IInv, PidsLockHeld, GuardedOps, WritePending, Goto, locks, TypeOK,
         MaybeManifest, MaybeProc, MaybeRecord, ManifestLockHeld, LoadOps,
         TransitionOps, ReadsAreLoaded
<1>4. RunLockHeld'
  BY WritePendingFacts, NoneAssumption, StatusFacts
     DEF IInv, RunLockHeld, WritePending, Goto, locks, TypeOK, MaybeManifest,
         MaybeProc, MaybeRecord, ManifestLockHeld, LoadOps, TransitionOps,
         ReadsAreLoaded
<1>5. ReadsAreLoaded'
  BY WritePendingFacts, NoneAssumption, StatusFacts
     DEF IInv, ReadsAreLoaded, LoadOps, TransitionOps, WritePending, Goto,
         locks, TypeOK, MaybeManifest, MaybeProc, MaybeRecord,
         ManifestLockHeld
<1>6. CancelIsRequested'
  BY WritePendingFacts, NoneAssumption, StatusFacts
     DEF IInv, CancelIsRequested, WritePending, Goto, locks, TypeOK,
         MaybeManifest, MaybeProc, MaybeRecord, ManifestLockHeld, LoadOps,
         TransitionOps, ReadsAreLoaded
<1>7. ResultIsUncancelled'
  BY WritePendingFacts, NoneAssumption, StatusFacts
     DEF IInv, ResultIsUncancelled, WritePending, Goto, locks, TypeOK,
         MaybeManifest, MaybeProc, MaybeRecord, ManifestLockHeld, LoadOps,
         TransitionOps, ReadsAreLoaded
<1>8. WriteIsAllowed'
  BY WritePendingFacts, NoneAssumption, StatusFacts
     DEF IInv, WriteIsAllowed, Terminal, WritePending, Goto, locks, TypeOK,
         MaybeManifest, MaybeProc, MaybeRecord, ManifestLockHeld, LoadOps,
         TransitionOps, ReadsAreLoaded
<1>9. WorkerKnowsStatus'
  BY WritePendingFacts, NoneAssumption, StatusFacts
     DEF IInv, WorkerKnowsStatus, Terminal, LoadOps, WritePending, Goto,
         locks, TypeOK, MaybeManifest, MaybeProc, MaybeRecord,
         ManifestLockHeld, TransitionOps, ReadsAreLoaded
<1>10. PendingFits'
  BY WritePendingFacts, NoneAssumption, StatusFacts
     DEF IInv, PendingFits, WritePending, Goto, locks, TypeOK, MaybeManifest,
         MaybeProc, MaybeRecord, ManifestLockHeld, LoadOps, TransitionOps,
         ReadsAreLoaded
<1>11. NoResultAfterCancel' /\ CompletedHasResult' /\ NoSnapshotYet'
  BY IInv, WritePendingFacts
     DEF IInv, WritePending, Goto, locks, SnapshotCoversProcesses,
         NoResultAfterCancel, CompletedHasResult, NoSnapshotYet
<1>. QED
  BY <1>1, <1>2, <1>3, <1>4, <1>5, <1>6, <1>7, <1>8, <1>9, <1>10, <1>11 DEF IInv

\* transition() saves the manifest: the point where the status moves.
LEMMA SaveTransitionInv ==
  ASSUME IInv, NEW p \in Proc, SaveTransition(p)
  PROVE  IInv'
<1>1. TypeOK'
  <2>1. op' \in [Proc -> Ops]
    BY DEF SaveTransition, IInv, TypeOK, Goto, Ops
  <2>2. committed' \in Seq(Records)
    <3>1. committed \in Seq(Records) /\ seen[p] \in Records
      BY SaveTransitionFacts DEF IInv, TypeOK
    <3>2. committed' = Append(committed, seen[p])
      BY SaveTransitionFacts
    <3>. QED
      BY <3>1, <3>2, AppendIsSeq
  <2>3. mem' \in [Proc -> MaybeManifest]
    BY SaveTransitionFacts DEF IInv, TypeOK, MaybeManifest
  <2>. QED
    BY <2>1, <2>2, <2>3, SaveTransitionFacts
       DEF SaveTransition, IInv, TypeOK, locks
<1>2. NoResultAfterCancel'
  BY SaveTransitionFacts, NoneAssumption, StatusFacts
     DEF IInv, NoResultAfterCancel, SaveTransition, Goto, locks, TypeOK,
         MaybeManifest, MaybeProc, MaybeRecord, ManifestLockHeld, LoadOps,
         TransitionOps, PidsLockHeld, GuardedOps, ReadsAreLoaded,
         WriteIsAllowed, ResultIsUncancelled, CancelIsRequested
<1>3. CompletedHasResult'
  BY SaveTransitionFacts, NoneAssumption, StatusFacts
     DEF IInv, CompletedHasResult, SaveTransition, Goto, locks, TypeOK,
         MaybeManifest, MaybeProc, MaybeRecord, ManifestLockHeld, LoadOps,
         TransitionOps, PidsLockHeld, GuardedOps, ReadsAreLoaded,
         WriteIsAllowed, ResultIsUncancelled, CancelIsRequested
<1>4. ManifestLockHeld'
  BY SaveTransitionFacts, NoneAssumption, StatusFacts
     DEF IInv, ManifestLockHeld, TransitionOps, LoadOps, SaveTransition, Goto,
         locks, TypeOK, MaybeManifest, MaybeProc, MaybeRecord, PidsLockHeld,
         GuardedOps, ReadsAreLoaded, WriteIsAllowed, ResultIsUncancelled,
         CancelIsRequested
<1>5. PidsLockHeld'
  BY SaveTransitionFacts, NoneAssumption, StatusFacts
     DEF IInv, PidsLockHeld, GuardedOps, SaveTransition, Goto, locks, TypeOK,
         MaybeManifest, MaybeProc, MaybeRecord, ManifestLockHeld, LoadOps,
         TransitionOps, ReadsAreLoaded, WriteIsAllowed, ResultIsUncancelled,
         CancelIsRequested
<1>6. RunLockHeld'
  <2>1. mem'[p] # NoManifest /\ \A q \in Proc : q # p => mem'[q] = mem[q]
    BY SaveTransitionFacts, NoneAssumption DEF IInv, TypeOK
  <2>2. UNCHANGED <<runLock, manifestLock, want>>
    BY DEF SaveTransition, locks
  <2>3. \A q \in Proc : op'[q] \in {"publish", "published", "spawn"}
                           => op[q] \in {"publish", "published", "spawn"}
    BY DEF SaveTransition, Goto, IInv, TypeOK
  <2>. QED
    BY <2>1, <2>2, <2>3 DEF RunLockHeld, IInv
<1>7. ReadsAreLoaded'
  BY SaveTransitionFacts, NoneAssumption, StatusFacts
     DEF IInv, ReadsAreLoaded, LoadOps, TransitionOps, SaveTransition, Goto,
         locks, TypeOK, MaybeManifest, MaybeProc, MaybeRecord,
         ManifestLockHeld, PidsLockHeld, GuardedOps, WriteIsAllowed,
         ResultIsUncancelled, CancelIsRequested
<1>8. CancelIsRequested'
  BY SaveTransitionFacts, NoneAssumption, StatusFacts
     DEF IInv, CancelIsRequested, SaveTransition, Goto, locks, TypeOK,
         MaybeManifest, MaybeProc, MaybeRecord, ManifestLockHeld, LoadOps,
         TransitionOps, PidsLockHeld, GuardedOps, ReadsAreLoaded,
         WriteIsAllowed, ResultIsUncancelled
<1>9. ResultIsUncancelled'
  BY SaveTransitionFacts, NoneAssumption, StatusFacts
     DEF IInv, ResultIsUncancelled, SaveTransition, Goto, locks, TypeOK,
         MaybeManifest, MaybeProc, MaybeRecord, ManifestLockHeld, LoadOps,
         TransitionOps, PidsLockHeld, GuardedOps, ReadsAreLoaded,
         WriteIsAllowed, CancelIsRequested
<1>10. WriteIsAllowed'
  BY SaveTransitionFacts, NoneAssumption, StatusFacts
     DEF IInv, WriteIsAllowed, Terminal, SaveTransition, Goto, locks, TypeOK,
         MaybeManifest, MaybeProc, MaybeRecord, ManifestLockHeld, LoadOps,
         TransitionOps, PidsLockHeld, GuardedOps, ReadsAreLoaded,
         ResultIsUncancelled, CancelIsRequested
<1>11. WorkerKnowsStatus'
  <2>. SUFFICES ASSUME NEW q \in Proc, runLock' = q, ~cancelRequested',
                       ~Terminal(manifest'.status)
                PROVE  /\ mem'[q] # NoManifest => mem'[q].status = manifest'.status
                       /\ op'[q] \in LoadOps => cur'[q].status = manifest'.status
    BY DEF WorkerKnowsStatus
  <2>1. runLock = p
    BY SaveTransitionFacts
       DEF SaveTransition, IInv, RunLockHeld, CancelIsRequested
  <2>2. q = p
    BY <2>1 DEF SaveTransition, locks
  <2>3. mem'[p] = manifest' /\ op'[p] = "append"
    BY SaveTransitionFacts DEF SaveTransition, Goto, IInv, TypeOK
  <2>. QED
    BY <2>2, <2>3 DEF LoadOps
<1>12. PendingFits'
  BY SaveTransitionFacts, NoneAssumption, StatusFacts
     DEF IInv, PendingFits, SaveTransition, Goto, locks, TypeOK,
         MaybeManifest, MaybeProc, MaybeRecord, ManifestLockHeld, LoadOps,
         TransitionOps, PidsLockHeld, GuardedOps, ReadsAreLoaded,
         WriteIsAllowed, ResultIsUncancelled, CancelIsRequested
<1>13. NoSnapshotYet'
  BY IInv, SaveTransitionFacts
     DEF IInv, SaveTransition, Goto, locks, SnapshotCoversProcesses,
         NoSnapshotYet
<1>. QED
  BY <1>1, <1>2, <1>3, <1>4, <1>5, <1>6, <1>7, <1>8, <1>9, <1>10, <1>11,
     <1>12, <1>13
     DEF IInv

\* transition() writes the event of the record it saved.
LEMMA AppendEventInv ==
  ASSUME IInv, NEW p \in Proc, AppendEvent(p)
  PROVE  IInv'
<1>. USE NoneAssumption, StatusFacts
         DEF IInv, TypeOK, MaybeManifest, MaybeProc, MaybeRecord, AppendEvent,
             Record, Ids, Goto, locks, history
<1>1. TypeOK'
  BY DEF Ops, ManifestLockHeld, ReadsAreLoaded, LoadOps, TransitionOps
<1>2. ManifestLockHeld'
  BY DEF ManifestLockHeld, TransitionOps, LoadOps
<1>3. PidsLockHeld'
  BY DEF PidsLockHeld, GuardedOps
<1>4. RunLockHeld'
  BY DEF RunLockHeld
<1>5. ReadsAreLoaded'
  BY DEF ReadsAreLoaded, LoadOps, TransitionOps
<1>6. CancelIsRequested'
  BY DEF CancelIsRequested
<1>7. ResultIsUncancelled'
  BY DEF ResultIsUncancelled
<1>8. WriteIsAllowed'
  BY DEF WriteIsAllowed, Terminal
<1>9. WorkerKnowsStatus'
  BY DEF WorkerKnowsStatus, Terminal, LoadOps
<1>10. NoResultAfterCancel' /\ CompletedHasResult' /\ PendingFits' /\
       NoSnapshotYet'
  BY DEF SnapshotCoversProcesses, NoResultAfterCancel, CompletedHasResult,
     PendingFits, NoSnapshotYet
<1>. QED
  BY <1>1, <1>2, <1>3, <1>4, <1>5, <1>6, <1>7, <1>8, <1>9, <1>10

\* The event cannot be written: the pending record stays behind.
LEMMA AppendEventFailsInv ==
  ASSUME IInv, NEW p \in Proc, AppendEventFails(p)
  PROVE  IInv'
<1>. USE NoneAssumption, StatusFacts
         DEF IInv, TypeOK, MaybeManifest, MaybeProc, MaybeRecord,
             AppendEventFails, Return, Goto, disk
<1>1. TypeOK'
  BY DEF Ops, ManifestLockHeld, ReadsAreLoaded, LoadOps, TransitionOps
<1>2. ManifestLockHeld'
  BY DEF ManifestLockHeld, TransitionOps, LoadOps
<1>3. PidsLockHeld'
  BY DEF PidsLockHeld, GuardedOps
<1>4. RunLockHeld'
  BY DEF RunLockHeld
<1>5. ReadsAreLoaded'
  BY DEF ReadsAreLoaded, LoadOps, TransitionOps
<1>6. CancelIsRequested'
  BY DEF CancelIsRequested
<1>7. ResultIsUncancelled'
  BY DEF ResultIsUncancelled
<1>8. WriteIsAllowed'
  BY DEF WriteIsAllowed, Terminal
<1>9. WorkerKnowsStatus'
  BY DEF WorkerKnowsStatus, Terminal, LoadOps
<1>10. NoResultAfterCancel' /\ CompletedHasResult' /\ PendingFits' /\
       NoSnapshotYet'
  BY DEF SnapshotCoversProcesses, NoResultAfterCancel, CompletedHasResult,
     PendingFits, NoSnapshotYet
<1>. QED
  BY <1>1, <1>2, <1>3, <1>4, <1>5, <1>6, <1>7, <1>8, <1>9, <1>10

\* transition() removes its pending record and returns.
LEMMA RemovePendingInv ==
  ASSUME IInv, NEW p \in Proc, RemovePending(p)
  PROVE  IInv'
<1>. USE NoneAssumption, StatusFacts
         DEF IInv, TypeOK, MaybeManifest, MaybeProc, MaybeRecord,
             RemovePending, Return, Goto, history
<1>1. TypeOK'
  BY DEF Ops, ManifestLockHeld, ReadsAreLoaded, LoadOps, TransitionOps
<1>2. ManifestLockHeld'
  BY DEF ManifestLockHeld, TransitionOps, LoadOps
<1>3. PidsLockHeld'
  BY DEF PidsLockHeld, GuardedOps
<1>4. RunLockHeld'
  BY DEF RunLockHeld
<1>5. ReadsAreLoaded'
  BY DEF ReadsAreLoaded, LoadOps, TransitionOps
<1>6. CancelIsRequested'
  BY DEF CancelIsRequested
<1>7. ResultIsUncancelled'
  BY DEF ResultIsUncancelled
<1>8. WriteIsAllowed'
  BY DEF WriteIsAllowed, Terminal
<1>9. WorkerKnowsStatus'
  BY DEF WorkerKnowsStatus, Terminal, LoadOps
<1>10. PendingFits'
  BY DEF PendingFits
<1>11. NoResultAfterCancel' /\ CompletedHasResult' /\ NoSnapshotYet'
  BY DEF SnapshotCoversProcesses, NoResultAfterCancel, CompletedHasResult,
     NoSnapshotYet
<1>. QED
  BY <1>1, <1>2, <1>3, <1>4, <1>5, <1>6, <1>7, <1>8, <1>9, <1>10, <1>11

\* An edit is of a field other than the status.
LEMMA EditedFacts ==
  ASSUME NEW m \in Manifests
  PROVE  Edited(m) \in Manifests /\ Edited(m).status = m.status
  BY ManifestUpdate DEF Edited

\* The worker changes its copy of the manifest.
LEMMA EditManifestInv ==
  ASSUME IInv, NEW p \in Proc, Working(p), EditManifest(p)
  PROVE  IInv'
<1>. USE NoneAssumption, StatusFacts
         DEF IInv, TypeOK, MaybeManifest, MaybeProc, MaybeRecord,
             EditManifest, disk, locks, history, Working, Unguarded
<1>1. TypeOK'
  BY EditedFacts
     DEF Ops, ManifestLockHeld, ReadsAreLoaded, LoadOps, TransitionOps
<1>2. RunLockHeld'
  BY EditedFacts DEF RunLockHeld
<1>3. WorkerKnowsStatus'
  BY EditedFacts DEF WorkerKnowsStatus, Terminal, LoadOps
<1>4. NoResultAfterCancel' /\ CompletedHasResult' /\ ManifestLockHeld' /\
      PidsLockHeld' /\ ReadsAreLoaded' /\ CancelIsRequested' /\
      ResultIsUncancelled' /\ WriteIsAllowed' /\ PendingFits' /\
      NoSnapshotYet'
  BY DEF SnapshotCoversProcesses, NoResultAfterCancel, CompletedHasResult,
     ManifestLockHeld, PidsLockHeld, ReadsAreLoaded, CancelIsRequested,
     ResultIsUncancelled, WriteIsAllowed, PendingFits, NoSnapshotYet
<1>. QED
  BY <1>1, <1>2, <1>3, <1>4

\* save_manifest writes the worker's copy, unless the run is over or cancelled.
LEMMA SaveManifestInv ==
  ASSUME IInv, NEW p \in Proc, Working(p), SaveManifest(p)
  PROVE  IInv'
<1>. USE NoneAssumption, StatusFacts
         DEF IInv, TypeOK, MaybeManifest, MaybeProc, MaybeRecord,
             SaveManifest, SaveSkipped, Terminal, locks, history, Working,
             Unguarded
<1>1. TypeOK'
  BY EditedFacts
     DEF Ops, ManifestLockHeld, ReadsAreLoaded, LoadOps, TransitionOps
<1>2. NoResultAfterCancel'
  BY DEF NoResultAfterCancel
<1>3. CompletedHasResult'
  BY EditedFacts
     DEF CompletedHasResult, WorkerKnowsStatus, ManifestLockHeld, LoadOps,
         TransitionOps
<1>4. RunLockHeld'
  BY DEF RunLockHeld
<1>5. ReadsAreLoaded'
  BY DEF ReadsAreLoaded, LoadOps, TransitionOps
<1>6. CancelIsRequested'
  BY EditedFacts
     DEF CancelIsRequested, WorkerKnowsStatus, ManifestLockHeld, LoadOps,
         TransitionOps
<1>7. ResultIsUncancelled'
  BY EditedFacts
     DEF ResultIsUncancelled, WorkerKnowsStatus, ManifestLockHeld, LoadOps,
         TransitionOps
<1>8. WriteIsAllowed'
  BY EditedFacts
     DEF WriteIsAllowed, WorkerKnowsStatus, ManifestLockHeld, LoadOps,
         TransitionOps
<1>9. WorkerKnowsStatus'
  BY EditedFacts DEF WorkerKnowsStatus, LoadOps
<1>10. PendingFits'
  BY EditedFacts
     DEF PendingFits, WorkerKnowsStatus, ManifestLockHeld, LoadOps,
         TransitionOps
<1>11. ManifestLockHeld' /\ PidsLockHeld' /\ NoSnapshotYet'
  BY DEF SnapshotCoversProcesses, ManifestLockHeld, PidsLockHeld, NoSnapshotYet
<1>. QED
  BY <1>1, <1>2, <1>3, <1>4, <1>5, <1>6, <1>7, <1>8, <1>9, <1>10, <1>11

\* request_cancellation takes .active-pids.lock on a run that lives.
LEMMA RequestCancellationInv ==
  ASSUME IInv, NEW p \in Proc, RequestCancellation(p)
  PROVE  IInv'
<1>. USE NoneAssumption, StatusFacts
         DEF IInv, TypeOK, MaybeManifest, MaybeProc, MaybeRecord,
             RequestCancellation, Terminal, TakePidsLock, Goto, disk, history
<1>1. TypeOK'
  BY DEF Ops, ManifestLockHeld, ReadsAreLoaded, LoadOps, TransitionOps
<1>2. ManifestLockHeld'
  BY DEF ManifestLockHeld, TransitionOps, LoadOps
<1>3. PidsLockHeld'
  BY DEF PidsLockHeld, GuardedOps
<1>4. RunLockHeld'
  BY DEF RunLockHeld
<1>5. ReadsAreLoaded'
  BY DEF ReadsAreLoaded, LoadOps, TransitionOps
<1>6. CancelIsRequested'
  BY DEF CancelIsRequested
<1>7. ResultIsUncancelled'
  BY DEF ResultIsUncancelled
<1>8. WriteIsAllowed'
  BY DEF WriteIsAllowed
<1>9. WorkerKnowsStatus'
  BY DEF WorkerKnowsStatus, LoadOps
<1>10. NoResultAfterCancel' /\ CompletedHasResult' /\ PendingFits' /\
       NoSnapshotYet'
  BY DEF SnapshotCoversProcesses, NoResultAfterCancel, CompletedHasResult,
     PendingFits, NoSnapshotYet
<1>. QED
  BY <1>1, <1>2, <1>3, <1>4, <1>5, <1>6, <1>7, <1>8, <1>9, <1>10

\* request_cancellation returns the manifest of a run that ended.
LEMMA RequestCancellationTooLateInv ==
  ASSUME IInv, NEW p \in Proc, RequestCancellationTooLate(p)
  PROVE  IInv'
<1>. USE NoneAssumption, StatusFacts
         DEF IInv, TypeOK, MaybeManifest, MaybeProc, MaybeRecord,
             RequestCancellationTooLate, Terminal, disk, locks, history
<1>1. TypeOK'
  BY DEF Ops, ManifestLockHeld, ReadsAreLoaded, LoadOps, TransitionOps
<1>2. RunLockHeld'
  BY DEF RunLockHeld
<1>3. WorkerKnowsStatus'
  BY DEF WorkerKnowsStatus, LoadOps
<1>4. NoResultAfterCancel' /\ CompletedHasResult' /\ ManifestLockHeld' /\
      PidsLockHeld' /\ ReadsAreLoaded' /\ CancelIsRequested' /\
      ResultIsUncancelled' /\ WriteIsAllowed' /\ PendingFits' /\
      NoSnapshotYet'
  BY DEF SnapshotCoversProcesses, NoResultAfterCancel, CompletedHasResult,
     ManifestLockHeld, PidsLockHeld, ReadsAreLoaded, CancelIsRequested,
     ResultIsUncancelled, WriteIsAllowed, PendingFits, NoSnapshotYet
<1>. QED
  BY <1>1, <1>2, <1>3, <1>4

\* request_cancellation writes cancel.requested.
LEMMA WriteCancelRequestedInv ==
  ASSUME IInv, NEW p \in Proc, WriteCancelRequested(p)
  PROVE  IInv'
<1>. USE NoneAssumption, StatusFacts
         DEF IInv, TypeOK, MaybeManifest, MaybeProc, MaybeRecord,
             WriteCancelRequested, Goto, locks, history
<1>1. TypeOK'
  BY DEF Ops, ManifestLockHeld, ReadsAreLoaded, LoadOps, TransitionOps
<1>2. NoResultAfterCancel'
  BY DEF NoResultAfterCancel, ResultIsUncancelled, ManifestLockHeld, LoadOps,
     TransitionOps, PidsLockHeld, GuardedOps
<1>3. ManifestLockHeld'
  BY DEF ManifestLockHeld, TransitionOps, LoadOps
<1>4. PidsLockHeld'
  BY DEF PidsLockHeld, GuardedOps
<1>5. RunLockHeld'
  BY DEF RunLockHeld
<1>6. ReadsAreLoaded'
  BY DEF ReadsAreLoaded, LoadOps, TransitionOps
<1>7. CancelIsRequested'
  BY DEF CancelIsRequested
<1>8. ResultIsUncancelled'
  BY DEF ResultIsUncancelled, ManifestLockHeld, LoadOps, TransitionOps,
     PidsLockHeld, GuardedOps
<1>9. WriteIsAllowed'
  BY DEF WriteIsAllowed, Terminal
<1>10. WorkerKnowsStatus'
  BY DEF WorkerKnowsStatus, Terminal, LoadOps
<1>11. NoSnapshotYet'
  BY DEF NoSnapshotYet, SnapshotCoversProcesses
<1>12. CompletedHasResult' /\ PendingFits'
  BY DEF SnapshotCoversProcesses, CompletedHasResult, PendingFits
<1>. QED
  BY <1>1, <1>2, <1>3, <1>4, <1>5, <1>6, <1>7, <1>8, <1>9, <1>10, <1>11, <1>12

\* request_cancellation removes result.json and reads the list of children.
LEMMA CleanAndSnapshotInv ==
  ASSUME IInv, NEW p \in Proc, CleanAndSnapshot(p)
  PROVE  IInv'
<1>. USE NoneAssumption, StatusFacts
         DEF IInv, TypeOK, MaybeManifest, MaybeProc, MaybeRecord,
             CleanAndSnapshot, DropPidsLock, Goto, history
<1>1. TypeOK'
  BY DEF Ops, ManifestLockHeld, ReadsAreLoaded, LoadOps, TransitionOps
<1>2. CompletedHasResult'
  BY DEF CompletedHasResult, ResultIsUncancelled, ManifestLockHeld, LoadOps,
     TransitionOps, PidsLockHeld, GuardedOps, CancelIsRequested
<1>3. ManifestLockHeld'
  BY DEF ManifestLockHeld, TransitionOps, LoadOps
<1>4. PidsLockHeld'
  BY DEF PidsLockHeld, GuardedOps, ResultIsUncancelled, ManifestLockHeld,
     LoadOps, TransitionOps, CancelIsRequested
<1>5. RunLockHeld'
  BY DEF RunLockHeld
<1>6. ReadsAreLoaded'
  BY DEF ReadsAreLoaded, LoadOps, TransitionOps
<1>7. CancelIsRequested'
  BY DEF CancelIsRequested
<1>8. ResultIsUncancelled'
  BY DEF ResultIsUncancelled, ManifestLockHeld, LoadOps, TransitionOps,
     PidsLockHeld, GuardedOps, CancelIsRequested
<1>9. WriteIsAllowed'
  BY DEF WriteIsAllowed, Terminal
<1>10. WorkerKnowsStatus'
  BY DEF WorkerKnowsStatus, Terminal, LoadOps
<1>11. NoSnapshotYet'
  BY DEF NoSnapshotYet, SnapshotCoversProcesses, ResultIsUncancelled,
     ManifestLockHeld, LoadOps, TransitionOps, PidsLockHeld, GuardedOps,
     CancelIsRequested
<1>12. NoResultAfterCancel' /\ PendingFits'
  BY DEF SnapshotCoversProcesses, NoResultAfterCancel, PendingFits
<1>. QED
  BY <1>1, <1>2, <1>3, <1>4, <1>5, <1>6, <1>7, <1>8, <1>9, <1>10, <1>11, <1>12

\* finalization_guard: no cancellation is requested, and none will be.
LEMMA BeginFinalizationInv ==
  ASSUME IInv, NEW p \in Proc,
         Working(p), mem[p].status = "Merging", BeginFinalization(p)
  PROVE  IInv'
<1>. USE NoneAssumption, StatusFacts
         DEF IInv, TypeOK, MaybeManifest, MaybeProc, MaybeRecord,
             BeginFinalization, TakePidsLock, Goto, disk, history, Working,
             Unguarded
<1>1. TypeOK'
  BY DEF Ops, ManifestLockHeld, ReadsAreLoaded, LoadOps, TransitionOps
<1>2. ManifestLockHeld'
  BY DEF ManifestLockHeld, TransitionOps, LoadOps
<1>3. PidsLockHeld'
  BY DEF PidsLockHeld, GuardedOps
<1>4. RunLockHeld'
  BY DEF RunLockHeld
<1>5. ReadsAreLoaded'
  BY DEF ReadsAreLoaded, LoadOps, TransitionOps
<1>6. CancelIsRequested'
  BY DEF CancelIsRequested
<1>7. ResultIsUncancelled'
  BY DEF ResultIsUncancelled
<1>8. WriteIsAllowed'
  BY DEF WriteIsAllowed, Terminal
<1>9. WorkerKnowsStatus'
  BY DEF WorkerKnowsStatus, Terminal, LoadOps
<1>10. NoResultAfterCancel' /\ CompletedHasResult' /\ PendingFits' /\
       NoSnapshotYet'
  BY DEF SnapshotCoversProcesses, NoResultAfterCancel, CompletedHasResult,
     PendingFits, NoSnapshotYet
<1>. QED
  BY <1>1, <1>2, <1>3, <1>4, <1>5, <1>6, <1>7, <1>8, <1>9, <1>10

\* The worker writes result.json under the finalization guard.
LEMMA WriteResultInv ==
  ASSUME IInv, NEW p \in Proc, WriteResult(p)
  PROVE  IInv'
<1>. USE NoneAssumption, StatusFacts
         DEF IInv, TypeOK, MaybeManifest, MaybeProc, MaybeRecord, WriteResult,
             Goto, locks, history
<1>1. TypeOK'
  BY DEF Ops, ManifestLockHeld, ReadsAreLoaded, LoadOps, TransitionOps
<1>2. CompletedHasResult'
  BY DEF CompletedHasResult
<1>3. ManifestLockHeld'
  BY DEF ManifestLockHeld, TransitionOps, LoadOps
<1>4. PidsLockHeld'
  BY DEF PidsLockHeld, GuardedOps
<1>5. RunLockHeld'
  BY DEF RunLockHeld
<1>6. ReadsAreLoaded'
  BY DEF ReadsAreLoaded, LoadOps, TransitionOps
<1>7. CancelIsRequested'
  BY DEF CancelIsRequested
<1>8. ResultIsUncancelled'
  BY DEF ResultIsUncancelled
<1>9. WriteIsAllowed'
  BY DEF WriteIsAllowed, Terminal
<1>10. WorkerKnowsStatus'
  BY DEF WorkerKnowsStatus, Terminal, LoadOps
<1>11. NoResultAfterCancel' /\ PendingFits' /\ NoSnapshotYet'
  BY DEF SnapshotCoversProcesses, NoResultAfterCancel, PendingFits,
     NoSnapshotYet
<1>. QED
  BY <1>1, <1>2, <1>3, <1>4, <1>5, <1>6, <1>7, <1>8, <1>9, <1>10, <1>11

\* The worker drops the finalization guard.
LEMMA EndFinalizationInv ==
  ASSUME IInv, NEW p \in Proc, EndFinalization(p)
  PROVE  IInv'
<1>. USE NoneAssumption, StatusFacts
         DEF IInv, TypeOK, MaybeManifest, MaybeProc, MaybeRecord,
             EndFinalization, DropPidsLock, disk, local, history
<1>1. TypeOK'
  BY DEF Ops, ManifestLockHeld, ReadsAreLoaded, LoadOps, TransitionOps
<1>2. PidsLockHeld'
  BY DEF PidsLockHeld, GuardedOps, ManifestLockHeld, LoadOps, TransitionOps
<1>3. NoResultAfterCancel' /\ CompletedHasResult' /\ ManifestLockHeld' /\
      RunLockHeld' /\ ReadsAreLoaded' /\ CancelIsRequested' /\
      ResultIsUncancelled' /\ WriteIsAllowed' /\ WorkerKnowsStatus' /\
      PendingFits' /\ NoSnapshotYet'
  BY DEF SnapshotCoversProcesses, NoResultAfterCancel, CompletedHasResult,
     ManifestLockHeld, RunLockHeld, ReadsAreLoaded, CancelIsRequested,
     ResultIsUncancelled, WriteIsAllowed, WorkerKnowsStatus, PendingFits,
     NoSnapshotYet
<1>. QED
  BY <1>1, <1>2, <1>3

\* process_registration takes .active-pids.lock for a child to be spawned.
LEMMA BeginRegistrationInv ==
  ASSUME IInv, NEW p \in Proc, Working(p), BeginRegistration(p)
  PROVE  IInv'
<1>. USE NoneAssumption, StatusFacts
         DEF IInv, TypeOK, MaybeManifest, MaybeProc, MaybeRecord,
             BeginRegistration, TakePidsLock, Goto, disk, history, Working,
             Unguarded
<1>1. TypeOK'
  BY DEF Ops, ManifestLockHeld, ReadsAreLoaded, LoadOps, TransitionOps
<1>2. ManifestLockHeld'
  BY DEF ManifestLockHeld, TransitionOps, LoadOps
<1>3. PidsLockHeld'
  BY DEF PidsLockHeld, GuardedOps
<1>4. RunLockHeld'
  BY DEF RunLockHeld
<1>5. ReadsAreLoaded'
  BY DEF ReadsAreLoaded, LoadOps, TransitionOps
<1>6. CancelIsRequested'
  BY DEF CancelIsRequested
<1>7. ResultIsUncancelled'
  BY DEF ResultIsUncancelled
<1>8. WriteIsAllowed'
  BY DEF WriteIsAllowed, Terminal
<1>9. WorkerKnowsStatus'
  BY DEF WorkerKnowsStatus, Terminal, LoadOps
<1>10. NoResultAfterCancel' /\ CompletedHasResult' /\ PendingFits' /\
       NoSnapshotYet'
  BY DEF SnapshotCoversProcesses, NoResultAfterCancel, CompletedHasResult,
     PendingFits, NoSnapshotYet
<1>. QED
  BY <1>1, <1>2, <1>3, <1>4, <1>5, <1>6, <1>7, <1>8, <1>9, <1>10

\* The child is spawned and added to active-pids.json.
LEMMA RegisterProcessInv ==
  ASSUME IInv, NEW p \in Proc, NEW l \in Lane, RegisterProcess(p, l)
  PROVE  IInv'
<1>. USE NoneAssumption, StatusFacts
         DEF IInv, TypeOK, MaybeManifest, MaybeProc, MaybeRecord,
             RegisterProcess, DropPidsLock, Goto, history
<1>1. TypeOK'
  BY DEF Ops, ManifestLockHeld, ReadsAreLoaded, LoadOps, TransitionOps
<1>2. ManifestLockHeld'
  BY DEF ManifestLockHeld, TransitionOps, LoadOps
<1>3. PidsLockHeld'
  BY DEF PidsLockHeld, GuardedOps, ManifestLockHeld, LoadOps, TransitionOps
<1>4. RunLockHeld'
  BY DEF RunLockHeld
<1>5. ReadsAreLoaded'
  BY DEF ReadsAreLoaded, LoadOps, TransitionOps
<1>6. CancelIsRequested'
  BY DEF CancelIsRequested
<1>7. ResultIsUncancelled'
  BY DEF ResultIsUncancelled
<1>8. WriteIsAllowed'
  BY DEF WriteIsAllowed, Terminal
<1>9. WorkerKnowsStatus'
  BY DEF WorkerKnowsStatus, Terminal, LoadOps
<1>10. NoSnapshotYet'
  BY DEF NoSnapshotYet, SnapshotCoversProcesses, ManifestLockHeld, LoadOps,
     TransitionOps, PidsLockHeld, GuardedOps, ResultIsUncancelled
<1>11. NoResultAfterCancel' /\ CompletedHasResult' /\ PendingFits'
  BY DEF SnapshotCoversProcesses, NoResultAfterCancel, CompletedHasResult,
     PendingFits
<1>. QED
  BY <1>1, <1>2, <1>3, <1>4, <1>5, <1>6, <1>7, <1>8, <1>9, <1>10, <1>11

\* remove_active_process strikes a child that ended.
LEMMA UnregisterProcessInv ==
  ASSUME IInv, NEW p \in Proc, NEW l \in Lane,
         runLock = p, UnregisterProcess(p, l)
  PROVE  IInv'
<1>. USE NoneAssumption, StatusFacts
         DEF IInv, TypeOK, MaybeManifest, MaybeProc, MaybeRecord,
             UnregisterProcess, locks, local, history
<1>1. TypeOK'
  BY DEF Ops, ManifestLockHeld, ReadsAreLoaded, LoadOps, TransitionOps
<1>2. NoSnapshotYet'
  BY DEF NoSnapshotYet, SnapshotCoversProcesses
<1>3. NoResultAfterCancel' /\ CompletedHasResult' /\ ManifestLockHeld' /\
      PidsLockHeld' /\ RunLockHeld' /\ ReadsAreLoaded' /\
      CancelIsRequested' /\ ResultIsUncancelled' /\ WriteIsAllowed' /\
      WorkerKnowsStatus' /\ PendingFits'
  BY DEF SnapshotCoversProcesses, NoResultAfterCancel, CompletedHasResult,
     ManifestLockHeld, PidsLockHeld, RunLockHeld, ReadsAreLoaded,
     CancelIsRequested, ResultIsUncancelled, WriteIsAllowed,
     WorkerKnowsStatus, PendingFits
<1>. QED
  BY <1>1, <1>2, <1>3

\* A process is killed, and the kernel releases its locks.
LEMMA CrashInv ==
  ASSUME IInv, NEW p \in Proc, Crash(p)
  PROVE  IInv'
<1>. USE NoneAssumption, StatusFacts
         DEF IInv, TypeOK, MaybeManifest, MaybeProc, MaybeRecord, Crash,
             Holder, Return, Goto, disk
<1>1. TypeOK'
  BY DEF Ops, ManifestLockHeld, ReadsAreLoaded, LoadOps, TransitionOps
<1>2. ManifestLockHeld'
  BY DEF ManifestLockHeld, TransitionOps, LoadOps
<1>3. PidsLockHeld'
  BY DEF PidsLockHeld, GuardedOps
<1>4. RunLockHeld'
  BY DEF RunLockHeld
<1>5. ReadsAreLoaded'
  BY DEF ReadsAreLoaded, LoadOps, TransitionOps
<1>6. CancelIsRequested'
  BY DEF CancelIsRequested
<1>7. ResultIsUncancelled'
  BY DEF ResultIsUncancelled
<1>8. WriteIsAllowed'
  BY DEF WriteIsAllowed, Terminal
<1>9. WorkerKnowsStatus'
  BY DEF WorkerKnowsStatus, Terminal, LoadOps
<1>10. NoSnapshotYet'
  BY DEF NoSnapshotYet, SnapshotCoversProcesses
<1>11. NoResultAfterCancel' /\ CompletedHasResult' /\ PendingFits'
  BY DEF SnapshotCoversProcesses, NoResultAfterCancel, CompletedHasResult,
     PendingFits
<1>. QED
  BY <1>1, <1>2, <1>3, <1>4, <1>5, <1>6, <1>7, <1>8, <1>9, <1>10, <1>11

-----------------------------------------------------------------------------
\* A run as its creation, or a command that resumes it, finds it.
LEMMA InitInv == Init => IInv
<1>. SUFFICES ASSUME Init PROVE IInv
  OBVIOUS
<1>. USE StartAssumption, NoneAssumption, StatusFacts
<1>1. start \in RunStatuses /\ ~Terminal(start) /\ start \notin CancelStatus
  BY DEF Init, Terminal
<1>2. TypeOK
  <2>1. manifest \in Manifests /\ start \in StartStatus
    BY <1>1 DEF Init, Manifests
  <2>2. events \in Seq(Records) /\ committed \in Seq(Records)
    BY DEF Init
  <2>3. /\ op \in [Proc -> Ops]
        /\ mem \in [Proc -> MaybeManifest]
        /\ cur \in [Proc -> MaybeManifest]
        /\ want \in [Proc -> RunStatuses \cup {"none"}]
        /\ seen \in [Proc -> MaybeRecord]
    BY DEF Init, Ops, MaybeManifest, MaybeRecord
  <2>. QED
    BY <2>1, <2>2, <2>3 DEF Init, TypeOK, MaybeProc, MaybeRecord
<1>3. NoResultAfterCancel /\ CompletedHasResult /\ PendingFits
  BY <1>1 DEF Init, NoResultAfterCancel, CompletedHasResult, PendingFits, Terminal
<1>4. ManifestLockHeld /\ PidsLockHeld /\ RunLockHeld
  BY DEF Init, ManifestLockHeld, PidsLockHeld, RunLockHeld, LoadOps,
         TransitionOps, GuardedOps
<1>5. ReadsAreLoaded /\ CancelIsRequested /\ ResultIsUncancelled
  BY <1>1 DEF Init, ReadsAreLoaded, CancelIsRequested, ResultIsUncancelled,
              LoadOps, TransitionOps
<1>6. WriteIsAllowed /\ WorkerKnowsStatus /\ NoSnapshotYet
  BY DEF Init, WriteIsAllowed, WorkerKnowsStatus, NoSnapshotYet,
         SnapshotCoversProcesses
<1>. QED
  BY <1>2, <1>3, <1>4, <1>5, <1>6 DEF IInv

\* What a command calls of the store: the operations of src/store.rs, under
\* the rules of src/run.rs.
LEMMA CallInv ==
  ASSUME IInv, NEW p \in Proc, Call(p)
  PROVE  IInv'
<1>1. CASE TakeRunLock(p)
  BY <1>1, TakeRunLockInv
<1>2. CASE Unguarded(p) /\ DropRunLock(p)
  BY <1>2, DropRunLockInv
<1>3. CASE Leave(p)
  BY <1>3, LeaveInv
<1>4. CASE Unguarded(p) /\ Load(p)
  BY <1>4, LoadInv
<1>5. CASE \E s \in RunStatuses : MayRequest(p, s) /\ Transition(p, s)
  BY <1>5, TransitionInv
<1>6. CASE Working(p) /\ EditManifest(p)
  BY <1>6, EditManifestInv
<1>7. CASE Working(p) /\ SaveManifest(p)
  BY <1>7, SaveManifestInv
<1>8. CASE RequestCancellation(p)
  BY <1>8, RequestCancellationInv
<1>9. CASE RequestCancellationTooLate(p)
  BY <1>9, RequestCancellationTooLateInv
<1>10. CASE Working(p) /\ mem[p].status = "Merging" /\ BeginFinalization(p)
  BY <1>10, BeginFinalizationInv
<1>11. CASE WriteResult(p)
  BY <1>11, WriteResultInv
<1>12. CASE EndFinalization(p)
  BY <1>12, EndFinalizationInv
<1>13. CASE Working(p) /\ BeginRegistration(p)
  BY <1>13, BeginRegistrationInv
<1>14. CASE \E l \in Lane : RegisterProcess(p, l)
  BY <1>14, RegisterProcessInv
<1>15. CASE \E l \in Lane : runLock = p /\ UnregisterProcess(p, l)
  BY <1>15, UnregisterProcessInv
<1>. QED
  BY <1>1, <1>2, <1>3, <1>4, <1>5, <1>6, <1>7, <1>8, <1>9, <1>10, <1>11, <1>12, <1>13,
     <1>14, <1>15
     DEF Call

\* The steps of load_manifest after it read manifest.json.
LEMMA LoadStepInv ==
  ASSUME IInv, NEW p \in Proc, LoadStep(p)
  PROVE  IInv'
  BY PendingExistsInv, ReadPendingInv, ReadPendingVanishedInv, ReadPendingMismatchInv,
     DropPendingInv, RecoverEventInv, RecoverDoneInv
     DEF LoadStep

\* The steps of transition() after it loaded the manifest.
LEMMA TransitionStepInv ==
  ASSUME IInv, NEW p \in Proc, TransitionStep(p)
  PROVE  IInv'
  BY DecideTerminalInv, DecideInv, WritePendingInv, SaveTransitionInv, AppendEventInv,
     AppendEventFailsInv, RemovePendingInv
     DEF TransitionStep

\* The steps of request_cancellation under .active-pids.lock.
LEMMA CancellationStepInv ==
  ASSUME IInv, NEW p \in Proc, CancellationStep(p)
  PROVE  IInv'
  BY WriteCancelRequestedInv, CleanAndSnapshotInv
     DEF CancellationStep

\* IInv is inductive: no step of any process, and no step that leaves the run
\* alone, breaks it.
LEMMA NextInv == IInv /\ [Next]_vars => IInv'
<1>. SUFFICES ASSUME IInv, [Next]_vars PROVE IInv'
  OBVIOUS
<1>1. CASE UNCHANGED vars
  <2>. USE <1>1 DEF IInv, vars, disk, locks, local, history
  <2>1. TypeOK' /\ PendingFits' /\ NoResultAfterCancel' /\ CompletedHasResult'
    BY DEF TypeOK, PendingFits, NoResultAfterCancel, CompletedHasResult
  <2>2. ManifestLockHeld' /\ PidsLockHeld' /\ RunLockHeld' /\ ReadsAreLoaded'
    BY DEF ManifestLockHeld, PidsLockHeld, RunLockHeld, ReadsAreLoaded
  <2>3. CancelIsRequested' /\ ResultIsUncancelled' /\ WriteIsAllowed'
    BY DEF CancelIsRequested, ResultIsUncancelled, WriteIsAllowed
  <2>4. WorkerKnowsStatus' /\ NoSnapshotYet'
    BY DEF WorkerKnowsStatus, NoSnapshotYet, SnapshotCoversProcesses
  <2>. QED
    BY <2>1, <2>2, <2>3, <2>4
<1>2. ASSUME NEW p \in Proc,
             \/ Call(p)
             \/ LoadStep(p)
             \/ TransitionStep(p)
             \/ CancellationStep(p)
             \/ Crash(p)
      PROVE  IInv'
  BY <1>2, CallInv, LoadStepInv, TransitionStepInv, CancellationStepInv,
     CrashInv
<1>. QED
  BY <1>1, <1>2 DEF Next

\* The inductive invariant holds in every state of every run, whatever
\* commands operate on it, interleave and are killed (src/store.rs).
THEOREM Invariance == Spec => []IInv
  BY InitInv, NextInv, PTL DEF Spec

\* The shape of every variable of the store, in every state.
THEOREM TypeCorrect == Spec => []TypeOK
<1>1. IInv => TypeOK
  BY DEF IInv
<1>. QED
  BY <1>1, Invariance, PTL

\* Once cancel.requested exists the run never completes, whatever a worker
\* was merging at the time: finalization_guard and request_cancellation
\* exclude each other.
THEOREM CancelPreventsResult == Spec => []NoResultAfterCancel
<1>1. IInv => NoResultAfterCancel
  BY DEF IInv
<1>. QED
  BY <1>1, Invariance, PTL

\* A completed manifest has its result.json: the cleanup of a cancellation
\* never meets the worker that publishes it.
THEOREM ResultIsKept == Spec => []CompletedHasResult
<1>1. IInv => CompletedHasResult
  BY DEF IInv
<1>. QED
  BY <1>1, Invariance, PTL

\* No child is registered after a cancellation took its list, so the list
\* names every child there is to terminate (process_registration).
THEOREM SnapshotIsComplete == Spec => []SnapshotCoversProcesses
<1>1. IInv => SnapshotCoversProcesses
  BY DEF IInv, NoSnapshotYet
<1>. QED
  BY <1>1, Invariance, PTL

\* A record left behind by a dead writer fits the manifest, so a later
\* transition never fails in recover_pending_transition.
THEOREM RecoveryFits == Spec => []PendingFitsManifest
<1>1. IInv => PendingFitsManifest
  BY DEF IInv, PendingFits, PendingFitsManifest
<1>. QED
  BY <1>1, Invariance, PTL

-----------------------------------------------------------------------------
\* The status on disk is moved by transition() alone, and cancel.requested
\* appears in request_cancellation alone; what else writes the manifest is
\* save_manifest, by the holder of .run.lock.
LEMMA OtherStepsKeepStatus ==
  ASSUME IInv, NEW p \in Proc,
         \/ Call(p)
         \/ LoadStep(p)
         \/ TransitionStep(p)
         \/ CancellationStep(p)
         \/ Crash(p),
         ~SaveTransition(p),
         ~WriteCancelRequested(p),
         ~(Working(p) /\ SaveManifest(p))
  PROVE  UNCHANGED <<manifest, cancelRequested>>
<1>1. CASE Call(p)
  BY <1>1 DEF Call, disk, TakeRunLock, DropRunLock, Leave, Load, Transition,
     EditManifest, RequestCancellation, RequestCancellationTooLate,
     BeginFinalization, WriteResult, EndFinalization, BeginRegistration,
     RegisterProcess, UnregisterProcess
<1>2. CASE LoadStep(p)
  BY <1>2 DEF LoadStep, disk, LoadFails, PendingExists, ReadPending,
     ReadPendingVanished, ReadPendingMismatch, DropPending, RecoverEvent,
     RecoverDone
<1>3. CASE TransitionStep(p)
  BY <1>3, DecideFacts
     DEF TransitionStep, disk, DecideTerminal, WritePending, AppendEvent,
         AppendEventFails, RemovePending
<1>4. CASE CancellationStep(p) \/ Crash(p)
  BY <1>4 DEF CancellationStep, disk, CleanAndSnapshot, Crash
<1>. QED
  BY <1>1, <1>2, <1>3, <1>4

\* RunLifecycle and RunStore name the same statuses and the same edges.
LEMMA LifecycleStatuses ==
  /\ Lifecycle!RunStatuses = RunStatuses
  /\ Lifecycle!TerminalStatus = TerminalStatus
  /\ Lifecycle!CancelStatus = CancelStatus
  /\ Lifecycle!PublicStatus = PublicStatus
  /\ \A s, t : Lifecycle!TransitionAllowed(s, t) <=> TransitionAllowed(s, t)
<1>1. /\ Lifecycle!RunStatuses = RunStatuses
      /\ Lifecycle!TerminalStatus = TerminalStatus
      /\ Lifecycle!CancelStatus = CancelStatus
      /\ Lifecycle!PublicStatus = PublicStatus
  BY DEF Lifecycle!RunStatuses, RunStatuses, Lifecycle!Stages, Stages,
         Lifecycle!TerminalStatus, TerminalStatus, Lifecycle!CancelStatus,
         CancelStatus, Lifecycle!PublicStatus, PublicStatus
<1>2. Lifecycle!AbortStatus = AbortStatus /\ Lifecycle!StageEdges = StageEdges
  BY DEF Lifecycle!AbortStatus, AbortStatus, Lifecycle!StageEdges, StageEdges,
         Lifecycle!CancelStatus, CancelStatus
<1>. QED
  BY <1>1, <1>2 DEF Lifecycle!TransitionAllowed, TransitionAllowed

\* transition() moves the status as RunLifecycle allows: along an edge, never
\* out of a cancellation, and into a cancellation only once it is requested.
LEMMA TransitionMoves ==
  ASSUME IInv, NEW p \in Proc, SaveTransition(p)
  PROVE  Lifecycle!Move(want[p])
<1>1. /\ manifestLock = p
      /\ op[p] = "save"
      /\ want[p] \in RunStatuses
      /\ manifest'.status = want[p]
      /\ cancelRequested' = cancelRequested
  BY SaveTransitionFacts DEF SaveTransition
<1>2. /\ ~Terminal(manifest.status)
      /\ TransitionAllowed(manifest.status, want[p])
      /\ manifest.status = "Cancelling" => want[p] \in CancelStatus
  BY <1>1 DEF IInv, WriteIsAllowed
<1>3. /\ want[p] \in CancelStatus => cancelRequested
      /\ want[p] \in PublicStatus => ~cancelRequested
  BY DEF IInv, CancelIsRequested, ResultIsUncancelled
<1>. QED
  BY <1>1, <1>2, <1>3, LifecycleStatuses DEF Lifecycle!Move, Terminal

\* save_manifest leaves the status as it was: whoever holds .run.lock knows
\* it, unless the run ended or is cancelled, and then nothing is written.
LEMMA SaveKeepsStatus ==
  ASSUME IInv, NEW p \in Proc, Working(p), SaveManifest(p)
  PROVE  manifest'.status = manifest.status /\ cancelRequested' = cancelRequested
<1>1. cancelRequested' = cancelRequested
  BY DEF SaveManifest
<1>2. CASE SaveSkipped
  BY <1>1, <1>2 DEF SaveManifest
<1>3. CASE ~SaveSkipped
  <2>1. mem[p] \in Manifests /\ mem[p].status = manifest.status
    BY <1>3 DEF SaveSkipped, Working, IInv, WorkerKnowsStatus, TypeOK,
       MaybeManifest
  <2>2. manifest' = Edited(mem[p])
    BY <1>3 DEF SaveManifest
  <2>. QED
    BY <1>1, <2>1, <2>2, EditedFacts
<1>. QED
  BY <1>2, <1>3

\* Every step of the store is a step of RunLifecycle, or none.
LEMMA StepRefines == IInv /\ [Next]_vars => [Lifecycle!Next]_(Lifecycle!vars)
<1>. SUFFICES ASSUME IInv, [Next]_vars
              PROVE  [Lifecycle!Next]_(Lifecycle!vars)
  OBVIOUS
<1>1. CASE UNCHANGED vars
  BY <1>1 DEF vars, disk, Lifecycle!vars
<1>2. ASSUME NEW p \in Proc,
             \/ Call(p)
             \/ LoadStep(p)
             \/ TransitionStep(p)
             \/ CancellationStep(p)
             \/ Crash(p)
      PROVE  [Lifecycle!Next]_(Lifecycle!vars)
  <2>1. CASE SaveTransition(p)
    <3>1. want[p] \in Lifecycle!RunStatuses
      BY <2>1, SaveTransitionFacts, LifecycleStatuses
    <3>. QED
      BY <2>1, <3>1, TransitionMoves DEF Lifecycle!Next
  <2>2. CASE WriteCancelRequested(p)
    <3>1. manifest.status \notin PublicStatus
      BY <2>2 DEF WriteCancelRequested, IInv, ResultIsUncancelled
    <3>. QED
      BY <2>2, <3>1, LifecycleStatuses
         DEF WriteCancelRequested, Lifecycle!Next,
             Lifecycle!RequestCancellation
  <2>3. CASE Working(p) /\ SaveManifest(p)
    BY <2>3, SaveKeepsStatus DEF Lifecycle!vars
  <2>4. CASE ~SaveTransition(p) /\ ~WriteCancelRequested(p)
             /\ ~(Working(p) /\ SaveManifest(p))
    <3>1. UNCHANGED <<manifest, cancelRequested>>
      BY <1>2, <2>4, OtherStepsKeepStatus
    <3>. QED
      BY <3>1 DEF Lifecycle!vars
  <2>. QED
    BY <2>1, <2>2, <2>3, <2>4
<1>. QED
  BY <1>1, <1>2 DEF Next

\* The store, with its locks, stale copies, readers that repair and processes
\* that are killed, behaves for its callers as RunLifecycle says.
THEOREM Refinement == Spec => LifecycleSpec
<1>1. Init => Lifecycle!Init
  BY DEF Init, Lifecycle!Init
<1>2. IInv /\ [Next]_vars => [Lifecycle!Next]_(Lifecycle!vars)
  BY StepRefines
<1>. QED
  BY <1>1, <1>2, Invariance, PTL DEF Spec, LifecycleSpec, Lifecycle!Spec

\* A terminal run stays as it is and a cancelling run can only be cancelled,
\* though stale in-memory manifests are saved at any time.
THEOREM EndIsFinal == Spec => TerminalIsFinal
<1>1. IInv /\ [Next]_vars
        => [/\ Terminal(manifest.status) => manifest'.status = manifest.status
            /\ manifest.status = "Cancelling" => manifest'.status \in CancelStatus]_vars
  <2>. SUFFICES ASSUME IInv, [Next]_vars
                PROVE  /\ Terminal(manifest.status)
                            => manifest'.status = manifest.status
                       /\ manifest.status = "Cancelling"
                            => manifest'.status \in CancelStatus
    OBVIOUS
  <2>1. CASE UNCHANGED Lifecycle!vars
    BY <2>1, StatusFacts DEF Lifecycle!vars
  <2>2. CASE Lifecycle!RequestCancellation
    BY <2>2, StatusFacts DEF Lifecycle!RequestCancellation
  <2>3. ASSUME NEW to, Lifecycle!Move(to)
        PROVE  /\ ~Terminal(manifest.status)
               /\ manifest.status = "Cancelling" => to \in CancelStatus
               /\ manifest'.status = to
    BY <2>3, LifecycleStatuses DEF Lifecycle!Move, Terminal
  <2>. QED
    BY <2>1, <2>2, <2>3, StepRefines DEF Lifecycle!Next
<1>. QED
  BY <1>1, Invariance, PTL DEF Spec, TerminalIsFinal

-----------------------------------------------------------------------------
(* The log.                                                                *)

\* A rank is a number.
LEMMA RankIsNat == \A s \in RunStatuses : Rank[s] \in Nat
  BY DEF Rank, RunStatuses, Stages, TerminalStatus

\* Every edge but that of a status to itself leads on (transition_allowed).
LEMMA RankGrows ==
  ASSUME NEW s \in RunStatuses, NEW t \in RunStatuses, TransitionAllowed(s, t)
  PROVE  /\ Rank[s] \in Nat /\ Rank[t] \in Nat
         /\ s # t => Rank[s] < Rank[t]
<1>1. CASE s = t
  BY <1>1, RankIsNat
<1>2. CASE t \in AbortStatus /\ s \notin TerminalStatus
  BY <1>2 DEF Rank, AbortStatus, CancelStatus, TerminalStatus, RunStatuses, Stages
<1>3. CASE <<s, t>> \in StageEdges
  BY <1>3 DEF Rank, StageEdges
<1>. QED
  BY <1>1, <1>2, <1>3 DEF TransitionAllowed

\* What Append adds to the records of a log.
LEMMA AppendRecords ==
  ASSUME NEW log \in Seq(Records), NEW r \in Records
  PROVE  /\ RecordsOf(Append(log, r)) = RecordsOf(log) \cup {r}
         /\ Ids(Append(log, r)) = Ids(log) \cup {r.id}
<1>1. /\ DOMAIN Append(log, r) = DOMAIN log \cup {Len(log) + 1}
      /\ \A i \in DOMAIN log : Append(log, r)[i] = log[i]
      /\ Append(log, r)[Len(log) + 1] = r
  OBVIOUS
<1>2. RecordsOf(Append(log, r)) = RecordsOf(log) \cup {r}
  BY <1>1 DEF RecordsOf
<1>3. Ids(Append(log, r)) = Ids(log) \cup {r.id}
  BY <1>1 DEF Ids
<1>. QED
  BY <1>2, <1>3

\* The numbers of the records are the records' numbers.
LEMMA IdsOfRecords ==
  ASSUME NEW log
  PROVE  \A r \in RecordsOf(log) : r.id \in Ids(log)
  BY DEF RecordsOf, Ids

\* A step that writes neither status, record nor log, and settles on no record.
Quiet ==
  /\ manifest'.status = manifest.status
  /\ pending' \in {pending, NoPending}
  /\ UNCHANGED <<events, committed, written>>
  /\ \/ UNCHANGED <<crashes, faults>>
     \/ crashes' # 0
     \/ faults' # 0
  /\ \A q \in Proc :
        /\ op'[q] \in LoadOps
           => \/ cur'[q] = manifest
              \/ op[q] \in LoadOps /\ cur'[q] = cur[q]
        /\ op'[q] \in {"recover", "append", "removePending", "save"}
           => op'[q] = op[q] /\ seen'[q] = seen[q]
        /\ op[q] = "append"
           => \/ op'[q] = "append"
              \/ crashes' # 0
              \/ faults' # 0

LEMMA QuietKeepsLog ==
  ASSUME IInv, LogInv, Quiet
  PROVE  LogInv'
<1>1. ReadsAreOld'
  <2>. SUFFICES ASSUME NEW q \in Proc, op'[q] \in LoadOps
                PROVE  Rank[cur'[q].status] <= Rank[manifest'.status]
    BY DEF ReadsAreOld
  <2>1. manifest'.status = manifest.status /\ Rank[manifest.status] \in Nat
    BY RankIsNat DEF IInv, TypeOK, Manifests, Quiet
  <2>2. CASE cur'[q] = manifest
    BY <2>1, <2>2
  <2>3. CASE op[q] \in LoadOps /\ cur'[q] = cur[q]
    BY <2>1, <2>3 DEF LogInv, ReadsAreOld
  <2>. QED
    BY <2>2, <2>3 DEF Quiet
<1>2. PendingIsKnown'
  BY DEF LogInv, PendingIsKnown, Quiet, RecordsOf
<1>3. WritersAreRight'
  BY DEF LogInv, WritersAreRight, Quiet, RecordsOf
<1>4. RecordsAreNumbered'
  BY DEF LogInv, RecordsAreNumbered, Quiet, RecordsOf, Ids
<1>5. LogIsFaithful'
  BY DEF LogInv, LogIsFaithful, Quiet, Ids
<1>6. LogKeepsUp'
  BY DEF LogInv, LogKeepsUp, Quiet, Ids
<1>. QED
  BY <1>1, <1>2, <1>3, <1>4, <1>5, <1>6 DEF LogInv

\* Neither the end of a load nor its return touches what the log is about.
LEMMA CallIsQuiet ==
  ASSUME IInv, NEW p \in Proc, Call(p)
  PROVE  Quiet
<1>. USE DEF Quiet, LoadOps, disk, locks, local, history
<1>1. CASE TakeRunLock(p)
  BY <1>1 DEF TakeRunLock
<1>2. CASE DropRunLock(p)
  BY <1>2 DEF DropRunLock
<1>3. CASE Leave(p)
  BY <1>3 DEF Leave
<1>4. CASE Load(p)
  BY <1>4 DEF Load, Goto, IInv, TypeOK
<1>5. ASSUME NEW s \in RunStatuses, Transition(p, s)
      PROVE  Quiet
  BY <1>5 DEF Transition, Goto, IInv, TypeOK
<1>6. CASE EditManifest(p)
  BY <1>6 DEF EditManifest
<1>7. CASE Working(p) /\ SaveManifest(p)
  BY <1>7, SaveKeepsStatus DEF SaveManifest
<1>8. CASE RequestCancellation(p)
  BY <1>8 DEF RequestCancellation, Goto, IInv, TypeOK
<1>9. CASE RequestCancellationTooLate(p)
  BY <1>9 DEF RequestCancellationTooLate
<1>10. CASE BeginFinalization(p)
  BY <1>10 DEF BeginFinalization, Goto, IInv, TypeOK
<1>11. CASE WriteResult(p)
  BY <1>11 DEF WriteResult, Goto, IInv, TypeOK
<1>12. CASE EndFinalization(p)
  BY <1>12 DEF EndFinalization
<1>13. CASE BeginRegistration(p)
  BY <1>13 DEF BeginRegistration, Goto, IInv, TypeOK
<1>14. ASSUME NEW l \in Lane, RegisterProcess(p, l)
       PROVE  Quiet
  BY <1>14 DEF RegisterProcess, Goto, IInv, TypeOK
<1>15. ASSUME NEW l \in Lane, UnregisterProcess(p, l)
       PROVE  Quiet
  BY <1>15 DEF UnregisterProcess
<1>. QED
  BY <1>1, <1>2, <1>3, <1>4, <1>5, <1>6, <1>7, <1>8, <1>9, <1>10, <1>11, <1>12,
     <1>13, <1>14, <1>15 DEF Call

\* A load that goes on or returns: its caller is at no step that writes.
LEMMA LoadReturnsIsQuiet ==
  ASSUME IInv, NEW p \in Proc, op[p] \in LoadOps, LoadReturns(p),
         UNCHANGED manifest, pending' \in {pending, NoPending},
         UNCHANGED <<events, history>>
  PROVE  Quiet
<1>. USE DEF Quiet, LoadOps, history
<1>1. CASE manifestLock = p
  BY <1>1 DEF LoadReturns, Goto, IInv, TypeOK
<1>2. CASE manifestLock # p
  BY <1>2 DEF LoadReturns, Return, Goto, IInv, TypeOK
<1>. QED
  BY <1>1, <1>2

\* What load_manifest does but reading the pending record and recording it.
LEMMA LoadStepIsQuiet ==
  ASSUME IInv, NEW p \in Proc, LoadStep(p), ~ReadPending(p), ~RecoverEvent(p)
  PROVE  Quiet
<1>1. CASE PendingExists(p)
  <2>1. CASE pending = NoPending
    BY <1>1, <2>1, LoadReturnsIsQuiet DEF PendingExists, LoadOps, disk, history
  <2>2. CASE pending # NoPending
    BY <1>1, <2>2 DEF PendingExists, Goto, Quiet, LoadOps, disk, history, IInv,
       TypeOK
  <2>. QED
    BY <2>1, <2>2
<1>2. CASE ReadPendingVanished(p) \/ ReadPendingMismatch(p)
  BY <1>2 DEF ReadPendingVanished, ReadPendingMismatch, LoadFails, Return, Goto,
     Quiet, LoadOps, disk, history, IInv, TypeOK
<1>3. CASE DropPending(p) \/ RecoverDone(p)
  BY <1>3, LoadReturnsIsQuiet DEF DropPending, RecoverDone, LoadOps
<1>. QED
  BY <1>1, <1>2, <1>3 DEF LoadStep

\* A transition that decides or returns, a cancellation request, a kill.
LEMMA OtherStepIsQuiet ==
  ASSUME IInv, NEW p \in Proc,
         \/ DecideTerminal(p)
         \/ Decide(p)
         \/ AppendEventFails(p)
         \/ RemovePending(p)
         \/ CancellationStep(p)
         \/ Crash(p)
  PROVE  Quiet
<1>. USE DEF Quiet, LoadOps, Return, Goto, disk, locks, history, IInv, TypeOK
<1>1. CASE DecideTerminal(p)
  BY <1>1 DEF DecideTerminal
<1>2. CASE Decide(p)
  BY <1>2, DecideFacts
<1>3. CASE AppendEventFails(p)
  BY <1>3 DEF AppendEventFails
<1>4. CASE RemovePending(p)
  BY <1>4 DEF RemovePending
<1>5. CASE CancellationStep(p)
  BY <1>5 DEF CancellationStep, WriteCancelRequested, CleanAndSnapshot
<1>6. CASE Crash(p)
  BY <1>6 DEF Crash
<1>. QED
  BY <1>1, <1>2, <1>3, <1>4, <1>5, <1>6

\* A load that finds the manifest past the pending record's first status has a
\* record of a transition that was made: ranks only grow, so that the manifest
\* did not get back to where the record begins.
LEMMA ReadPendingKeepsLog ==
  ASSUME IInv, LogInv, NEW p \in Proc, ReadPending(p)
  PROVE  LogInv'
<1>1. /\ op[p] = "readPending"
      /\ pending # NoPending
      /\ pending \in Records
      /\ cur[p].status \in {pending.from, pending.to}
      /\ seen' = [seen EXCEPT ![p] = pending]
      /\ op' = [op EXCEPT ![p] = IF Uncommitted(p) THEN "drop" ELSE "recover"]
      /\ UNCHANGED <<manifest, pending, events, cur, committed, written, crashes,
                     faults>>
  BY DEF ReadPending, Goto, disk, history, IInv, TypeOK, MaybeRecord
<1>2. ASSUME ~Uncommitted(p)
      PROVE  pending \in RecordsOf(committed)
  <2>1. cur[p].status = pending.to /\ pending.to # pending.from
    BY <1>1, <1>2 DEF Uncommitted
  <2>2. Rank[cur[p].status] <= Rank[manifest.status]
    BY <1>1 DEF LogInv, ReadsAreOld, LoadOps
  <2>3. CASE /\ manifest.status = pending.from
             /\ TransitionAllowed(pending.from, pending.to)
    <3>1. pending.from \in RunStatuses /\ pending.to \in RunStatuses
      BY <1>1 DEF Records
    <3>2. /\ Rank[pending.from] < Rank[pending.to]
          /\ Rank[pending.from] \in Nat
          /\ Rank[pending.to] \in Nat
      BY <2>1, <2>3, <3>1, RankGrows
    <3>. QED
      BY <2>1, <2>2, <2>3, <3>2
  <2>. QED
    BY <1>1, <2>3 DEF LogInv, PendingIsKnown
<1>3. ReadsAreOld'
  BY <1>1 DEF LogInv, ReadsAreOld, LoadOps, IInv, TypeOK
<1>4. PendingIsKnown'
  BY <1>1 DEF LogInv, PendingIsKnown, RecordsOf
<1>5. WritersAreRight'
  BY <1>1, <1>2 DEF LogInv, WritersAreRight, RecordsOf, IInv, TypeOK
<1>6. RecordsAreNumbered'
  BY <1>1 DEF LogInv, RecordsAreNumbered, RecordsOf, Ids, IInv, TypeOK
<1>7. LogIsFaithful'
  BY <1>1 DEF LogInv, LogIsFaithful, Ids
<1>8. LogKeepsUp'
  BY <1>1 DEF LogInv, LogKeepsUp, Ids, IInv, TypeOK
<1>. QED
  BY <1>3, <1>4, <1>5, <1>6, <1>7, <1>8 DEF LogInv

\* A record that is written to the log is there once, and was right.
LEMMA RecordKeepsLog ==
  ASSUME IInv, LogIsFaithful, NEW r \in RecordsOf(committed)
  PROVE  /\ \A i \in DOMAIN Record(events, r) :
               Record(events, r)[i].id \in Ids(committed)
         /\ \A i, j \in DOMAIN Record(events, r) :
               Record(events, r)[i].id = Record(events, r)[j].id => i = j
<1>. DEFINE log == Append(events, r)
<1>1. r.id \in Ids(committed) /\ r \in Records
  BY DEF RecordsOf, Ids, IInv, TypeOK
<1>2. CASE r.id \in Ids(events)
  BY <1>2 DEF Record, LogIsFaithful
<1>3. CASE r.id \notin Ids(events)
  <2>1. /\ DOMAIN log = DOMAIN events \cup {Len(events) + 1}
        /\ \A i \in DOMAIN events : log[i] = events[i]
        /\ log[Len(events) + 1] = r
    BY <1>1 DEF IInv, TypeOK
  <2>2. \A i \in DOMAIN events : log[i].id # r.id
    BY <1>3, <2>1 DEF Ids
  <2>. HIDE DEF log
  <2>3. \A i \in DOMAIN log : log[i].id \in Ids(committed)
    BY <1>1, <2>1 DEF LogIsFaithful
  <2>4. \A i, j \in DOMAIN log : log[i].id = log[j].id => i = j
    BY <2>1, <2>2 DEF LogIsFaithful
  <2>. QED
    BY <1>3, <2>3, <2>4 DEF Record, log
<1>. QED
  BY <1>2, <1>3

\* Two processes that hold .manifest.lock are one.
LEMMA OneWriter ==
  ASSUME IInv, NEW p \in Proc, op[p] \in TransitionOps
  PROVE  /\ manifestLock = p
         /\ \A q \in Proc : op[q] \in TransitionOps => q = p
  BY DEF IInv, ManifestLockHeld

\* A reader that completes the log writes the last record, if any: all others
\* are there.
LEMMA RecoverEventKeepsLog ==
  ASSUME IInv, LogInv, NEW p \in Proc, RecoverEvent(p)
  PROVE  LogInv'
<1>1. /\ op[p] = "recover"
      /\ events' = Record(events, seen[p])
      /\ op' = [op EXCEPT ![p] = "recovered"]
      /\ UNCHANGED <<manifest, pending, cur, seen, committed, written, crashes,
                     faults>>
  BY DEF RecoverEvent, Goto, history
<1>2. seen[p] \in RecordsOf(committed) /\ seen[p] \in Records
  BY <1>1 DEF LogInv, WritersAreRight, RecordsOf, IInv, TypeOK
<1>3. ReadsAreOld'
  BY <1>1 DEF LogInv, ReadsAreOld, LoadOps, IInv, TypeOK
<1>4. PendingIsKnown'
  BY <1>1 DEF LogInv, PendingIsKnown, RecordsOf
<1>5. WritersAreRight'
  BY <1>1 DEF LogInv, WritersAreRight, RecordsOf, IInv, TypeOK
<1>6. RecordsAreNumbered'
  BY <1>1 DEF LogInv, RecordsAreNumbered, RecordsOf, Ids, IInv, TypeOK
<1>7. LogIsFaithful'
  BY <1>1, <1>2, RecordKeepsLog DEF LogInv, LogIsFaithful, Ids
<1>8. LogKeepsUp'
  <2>. SUFFICES ASSUME crashes = 0, faults = 0
                PROVE  \/ events' = committed
                       \/ \E q \in Proc :
                             /\ op'[q] = "append"
                             /\ seen[q].id \notin Ids(events')
                             /\ committed = Append(events', seen[q])
    BY <1>1 DEF LogKeepsUp, Ids
  <2>1. CASE events = committed
    BY <1>1, <1>2, <2>1, IdsOfRecords DEF Record
  <2>2. ASSUME NEW q \in Proc,
               op[q] = "append",
               seen[q].id \notin Ids(events),
               committed = Append(events, seen[q])
        PROVE  \/ events' = committed
               \/ /\ op'[q] = "append"
                  /\ seen[q].id \notin Ids(events')
                  /\ committed = Append(events', seen[q])
    <3>1. seen[q] \in Records
      BY <2>2 DEF LogInv, WritersAreRight, RecordsOf, IInv, TypeOK
    <3>2. seen[p] = seen[q] \/ seen[p] \in RecordsOf(events)
      BY <1>2, <2>2, <3>1, AppendRecords DEF IInv, TypeOK
    <3>3. CASE seen[p] = seen[q]
      BY <1>1, <2>2, <3>3 DEF Record
    <3>4. CASE seen[p] \in RecordsOf(events)
      BY <1>1, <2>2, <3>4, IdsOfRecords DEF Record, IInv, TypeOK
    <3>. QED
      BY <3>2, <3>3, <3>4
  <2>. QED
    BY <2>1, <2>2 DEF LogInv, LogKeepsUp
<1>. QED
  BY <1>3, <1>4, <1>5, <1>6, <1>7, <1>8 DEF LogInv

\* A transition announces itself under a number nobody had.
LEMMA WritePendingKeepsLog ==
  ASSUME IInv, LogInv, NEW p \in Proc, WritePending(p)
  PROVE  LogInv'
<1>1. /\ op[p] = "writePending"
      /\ written' = written + 1
      /\ written \in Nat
      /\ pending' = [id |-> written + 1, from |-> cur[p].status, to |-> want[p]]
      /\ seen' = [seen EXCEPT ![p] = pending']
      /\ op' = [op EXCEPT ![p] = "save"]
      /\ UNCHANGED <<manifest, events, cur, committed, crashes, faults>>
  BY DEF WritePending, NewPending, Goto, IInv, TypeOK
<1>2. cur[p] = manifest /\ TransitionAllowed(manifest.status, want[p])
  BY <1>1 DEF IInv, ReadsAreLoaded, ManifestLockHeld, TransitionOps, WriteIsAllowed
<1>3. \A r \in RecordsOf(committed) : r.id \in Nat /\ r.id <= written
  <2>1. \A r \in RecordsOf(committed) : r \in Records
    BY DEF RecordsOf, IInv, TypeOK
  <2>2. \A r \in RecordsOf(committed) : r.id <= written
    BY DEF LogInv, RecordsAreNumbered
  <2>. QED
    BY <2>1, <2>2 DEF Records
<1>4. ReadsAreOld'
  BY <1>1 DEF LogInv, ReadsAreOld, LoadOps, IInv, TypeOK
<1>5. PendingIsKnown'
  <2>1. /\ pending'.from = manifest'.status
        /\ TransitionAllowed(pending'.from, pending'.to)
    BY <1>1, <1>2
  <2>. QED
    BY <2>1 DEF PendingIsKnown
<1>6. WritersAreRight'
  BY <1>1 DEF LogInv, WritersAreRight, RecordsOf, IInv, TypeOK
<1>7. RecordsAreNumbered'
  <2>1. \A r \in RecordsOf(committed) : r.id <= written + 1 /\ r.id # written + 1
    BY <1>1, <1>3
  <2>2. ASSUME NEW q \in Proc, op'[q] = "save"
        PROVE  seen'[q].id <= written' /\ seen'[q].id \notin Ids(committed)
    <3>1. CASE q = p
      <4>1. seen'[q].id = written + 1
        BY <1>1, <3>1 DEF IInv, TypeOK
      <4>2. written + 1 \notin Ids(committed)
        BY <2>1 DEF RecordsOf, Ids
      <4>. QED
        BY <1>1, <4>1, <4>2
    <3>2. CASE q # p
      BY <1>1, <2>2, <3>2, OneWriter DEF TransitionOps, IInv, TypeOK
    <3>. QED
      BY <3>1, <3>2
  <2>. QED
    BY <1>1, <2>1, <2>2 DEF RecordsAreNumbered, RecordsOf, Ids
<1>8. LogIsFaithful'
  BY <1>1 DEF LogInv, LogIsFaithful, Ids
<1>9. LogKeepsUp'
  BY <1>1 DEF LogInv, LogKeepsUp, Ids, IInv, TypeOK
<1>. QED
  BY <1>4, <1>5, <1>6, <1>7, <1>8, <1>9 DEF LogInv

\* The manifest is saved: the record is of a transition that was made.
LEMMA SaveTransitionKeepsLog ==
  ASSUME IInv, LogInv, NEW p \in Proc, SaveTransition(p)
  PROVE  LogInv'
<1>1. /\ op[p] = "save"
      /\ op' = [op EXCEPT ![p] = "append"]
      /\ UNCHANGED <<pending, events, cur, seen, written, crashes, faults>>
  BY DEF SaveTransition, Goto
<1>2. /\ manifest'.status = want[p]
      /\ seen[p] \in Records
      /\ want[p] \in RunStatuses
      /\ committed \in Seq(Records)
      /\ committed' = Append(committed, seen[p])
  BY SaveTransitionFacts DEF IInv, TypeOK
<1>3. /\ TransitionAllowed(manifest.status, want[p])
      /\ pending \in {NoPending, seen[p]}
      /\ seen[p].to = want[p]
  BY <1>1 DEF IInv, WriteIsAllowed
<1>4. /\ RecordsOf(committed') = RecordsOf(committed) \cup {seen[p]}
      /\ Ids(committed') = Ids(committed) \cup {seen[p].id}
  BY <1>2, AppendRecords
<1>5. manifest.status \in RunStatuses
  BY DEF IInv, TypeOK, Manifests
<1>6. ReadsAreOld'
  <2>. SUFFICES ASSUME NEW q \in Proc, op[q] \in LoadOps
                PROVE  Rank[cur[q].status] <= Rank[want[p]]
    BY <1>1, <1>2 DEF ReadsAreOld, LoadOps, IInv, TypeOK
  <2>1. Rank[cur[q].status] <= Rank[manifest.status]
    BY DEF LogInv, ReadsAreOld
  <2>2. cur[q].status \in RunStatuses
    BY DEF IInv, ReadsAreLoaded, TypeOK, MaybeManifest, Manifests
  <2>3. /\ Rank[cur[q].status] \in Nat
        /\ Rank[manifest.status] \in Nat
        /\ Rank[want[p]] \in Nat
        /\ Rank[manifest.status] <= Rank[want[p]]
    BY <1>2, <1>3, <1>5, <2>2, RankIsNat, RankGrows
  <2>. QED
    BY <2>1, <2>3
<1>7. PendingIsKnown'
  BY <1>1, <1>2, <1>3, <1>4 DEF PendingIsKnown
<1>8. WritersAreRight'
  BY <1>1, <1>4 DEF LogInv, WritersAreRight, IInv, TypeOK
<1>9. RecordsAreNumbered'
  <2>1. seen[p].id <= written
    BY <1>1 DEF LogInv, RecordsAreNumbered
  <2>2. \A q \in Proc : op'[q] # "save"
    BY <1>1, OneWriter DEF TransitionOps, IInv, TypeOK
  <2>. QED
    BY <1>1, <1>4, <2>1, <2>2 DEF LogInv, RecordsAreNumbered
<1>10. LogIsFaithful'
  BY <1>1, <1>4 DEF LogInv, LogIsFaithful
<1>11. LogKeepsUp'
  <2>. SUFFICES ASSUME crashes = 0, faults = 0
                PROVE  /\ op'[p] = "append"
                       /\ seen'[p].id \notin Ids(events')
                       /\ committed' = Append(events', seen'[p])
    BY <1>1 DEF LogKeepsUp
  <2>1. \A q \in Proc : op[q] # "append"
    BY <1>1, OneWriter DEF TransitionOps
  <2>2. events = committed
    BY <2>1 DEF LogInv, LogKeepsUp
  <2>3. seen[p].id \notin Ids(committed)
    BY <1>1 DEF LogInv, RecordsAreNumbered
  <2>. QED
    BY <1>1, <1>2, <2>2, <2>3 DEF IInv, TypeOK
<1>. QED
  BY <1>6, <1>7, <1>8, <1>9, <1>10, <1>11 DEF LogInv

\* A transition completes the log itself, if no reader did.
LEMMA AppendEventKeepsLog ==
  ASSUME IInv, LogInv, NEW p \in Proc, AppendEvent(p)
  PROVE  LogInv'
<1>1. /\ op[p] = "append"
      /\ events' = Record(events, seen[p])
      /\ op' = [op EXCEPT ![p] = "removePending"]
      /\ UNCHANGED <<manifest, pending, cur, seen, committed, written, crashes,
                     faults>>
  BY DEF AppendEvent, Goto, history
<1>2. seen[p] \in RecordsOf(committed) /\ seen[p] \in Records
  BY <1>1 DEF LogInv, WritersAreRight, RecordsOf, IInv, TypeOK
<1>3. ReadsAreOld'
  BY <1>1 DEF LogInv, ReadsAreOld, LoadOps, IInv, TypeOK
<1>4. PendingIsKnown'
  BY <1>1 DEF LogInv, PendingIsKnown, RecordsOf
<1>5. WritersAreRight'
  BY <1>1 DEF LogInv, WritersAreRight, RecordsOf, IInv, TypeOK
<1>6. RecordsAreNumbered'
  BY <1>1 DEF LogInv, RecordsAreNumbered, RecordsOf, Ids, IInv, TypeOK
<1>7. LogIsFaithful'
  BY <1>1, <1>2, RecordKeepsLog DEF LogInv, LogIsFaithful, Ids
<1>8. LogKeepsUp'
  <2>. SUFFICES ASSUME crashes = 0, faults = 0
                PROVE  events' = committed
    BY <1>1 DEF LogKeepsUp
  <2>1. CASE events = committed
    BY <1>1, <1>2, <2>1, IdsOfRecords DEF Record
  <2>2. ASSUME NEW q \in Proc,
               op[q] = "append",
               seen[q].id \notin Ids(events),
               committed = Append(events, seen[q])
        PROVE  events' = committed
    <3>1. q = p
      BY <1>1, <2>2, OneWriter DEF TransitionOps
    <3>. QED
      BY <1>1, <2>2, <3>1 DEF Record
  <2>. QED
    BY <2>1, <2>2 DEF LogInv, LogKeepsUp
<1>. QED
  BY <1>3, <1>4, <1>5, <1>6, <1>7, <1>8 DEF LogInv

\* An empty log is one of no transition.
LEMMA LogInit == Init => LogInv
  BY DEF Init, LogInv, ReadsAreOld, LoadOps, PendingIsKnown, WritersAreRight,
     RecordsAreNumbered, RecordsOf, LogIsFaithful, LogKeepsUp, Ids

LEMMA LogNextInv == IInv /\ LogInv /\ [Next]_vars => LogInv'
<1>. SUFFICES ASSUME IInv, LogInv, [Next]_vars
              PROVE  LogInv'
  OBVIOUS
<1>1. CASE UNCHANGED vars
  <2>1. Quiet
    BY <1>1 DEF Quiet, vars, disk, local, history
  <2>. QED
    BY <2>1, QuietKeepsLog
<1>2. ASSUME NEW p \in Proc, Call(p)
      PROVE  LogInv'
  BY <1>2, CallIsQuiet, QuietKeepsLog
<1>3. ASSUME NEW p \in Proc, LoadStep(p)
      PROVE  LogInv'
  BY <1>3, LoadStepIsQuiet, QuietKeepsLog, ReadPendingKeepsLog, RecoverEventKeepsLog
<1>4. ASSUME NEW p \in Proc, TransitionStep(p)
      PROVE  LogInv'
  <2>1. CASE WritePending(p) \/ SaveTransition(p) \/ AppendEvent(p)
    BY <2>1, WritePendingKeepsLog, SaveTransitionKeepsLog, AppendEventKeepsLog
  <2>2. CASE \/ DecideTerminal(p)
             \/ Decide(p)
             \/ AppendEventFails(p)
             \/ RemovePending(p)
    BY <2>2, OtherStepIsQuiet, QuietKeepsLog
  <2>. QED
    BY <1>4, <2>1, <2>2 DEF TransitionStep
<1>5. ASSUME NEW p \in Proc, CancellationStep(p) \/ Crash(p)
      PROVE  LogInv'
  BY <1>5, OtherStepIsQuiet, QuietKeepsLog
<1>. QED
  BY <1>1, <1>2, <1>3, <1>4, <1>5 DEF Next

\* The inductive invariant of the log.
THEOREM LogInvariance == Spec => []LogInv
<1>1. Init => LogInv
  BY LogInit
<1>2. IInv /\ LogInv /\ [Next]_vars => LogInv'
  BY LogNextInv
<1>. QED
  BY <1>1, <1>2, Invariance, PTL DEF Spec

\* Whatever is killed, fails to append, or comes late: the log holds records of
\* transitions the manifest went through only, and each of them once (event_at,
\* recover_pending_transition).
THEOREM LogTellsTheTruth == Spec => []LogIsFaithful
<1>1. LogInv => LogIsFaithful
  BY DEF LogInv
<1>. QED
  BY <1>1, LogInvariance, PTL

\* Without kills and failed appends the log is the history of the manifest
\* whenever no transition is under way, though readers repair it without a lock.
THEOREM LogTellsEverything == Spec => []LogIsComplete
<1>1. IInv /\ LogInv => LogIsComplete
  <2>. SUFFICES ASSUME IInv, LogInv, manifestLock = NoProc, crashes = 0, faults = 0
                PROVE  events = committed
    BY DEF LogIsComplete
  <2>1. \A p \in Proc : op[p] # "append"
    BY OneWriter, NoneAssumption DEF TransitionOps
  <2>. QED
    BY <2>1 DEF LogInv, LogKeepsUp
<1>. QED
  BY <1>1, Invariance, LogInvariance, PTL

-----------------------------------------------------------------------------
(* The commands of RunScheduler keep the rules of RunStore's clients.      *)

\* A command outside the end of advance() has no guard between operations.
LEMMA NoGuard ==
    ASSUME ClientInv, NEW p \in Proc, op[p] = "none", at[p] # "finalized"
    PROVE  Unguarded(p)
<1>1. GuardFits(p)
  BY DEF ClientInv, ClientFits
<1> QED
  BY <1>1 DEF GuardFits, GuardedOps, Unguarded

\* advance() works on a manifest it has loaded, under the run lock.
LEMMA AtWork ==
    ASSUME ClientInv, NEW p \in Proc, op[p] = "none", at[p] \in ActiveLocs
    PROVE  Working(p)
<1>1. LockFits(p) /\ ManifestKnown(p)
  BY DEF ClientInv, ClientFits
<1>2. at[p] # "finalized"
  BY DEF ActiveLocs
<1> QED
  BY <1>1, <1>2, NoGuard DEF LockFits, HeldLocs, ManifestKnown, Working

\* A status that is no cancellation and no result is asked for under the run
\* lock (MayRequest).
LEMMA AskHeld ==
    ASSUME ClientInv, NEW p \in Proc, NEW s \in RunStatuses, NEW loc,
           Request(p, s, loc), op[p] = "none", at[p] \in HeldLocs \ {"finalized"},
           s \notin CancelStatus \cup PublicStatus
    PROVE  Call(p)
<1>1. LockFits(p) /\ Transition(p, s)
  BY DEF ClientInv, ClientFits, Request
<1>2. runLock = p /\ mem[p] # NoManifest
  BY <1>1 DEF LockFits, Transition
<1> QED
  BY <1>1, <1>2, NoGuard DEF MayRequest, Working, Call

\* A cancellation is asked for once it is requested.
LEMMA AskCancel ==
    ASSUME ClientInv, NEW p \in Proc, NEW s \in CancelStatus, NEW loc,
           Request(p, s, loc), op[p] = "none", at[p] # "finalized", cancelRequested
    PROVE  Call(p)
<1>1. s \in RunStatuses /\ Unguarded(p)
  BY NoGuard, StatusFacts
<1>2. MayRequest(p, s) /\ Transition(p, s)
  BY <1>1 DEF MayRequest, Request
<1> QED
  BY <1>1, <1>2 DEF Call

\* What advance() does is an operation of the store it may call, or none.
LEMMA AdvanceCalls ==
    ASSUME IInv, ClientInv, NEW w \in Worker, BeginAdvance(w) \/ Advance(w)
    PROVE  Call(w) \/ UNCHANGED vars
<1>1. w \in Proc
  BY ProcAssumption
<1>2. ClientFits(w)
  BY <1>1 DEF ClientInv
<1>3. CASE BeginAdvance(w) \/ RecordBegin(w)
  BY <1>3 DEF BeginAdvance, RecordBegin, Call
<1>4. CASE \/ AlreadyTerminal(w) \/ Resume(w) \/ PreflightPasses(w) \/ LoadR1(w)
           \/ PassR1Gate(w) \/ SkipR2(w) \/ WriteR2Packet(w) \/ KeepR2Packet(w)
           \/ LoadR2(w) \/ PassR2Gate(w) \/ LoadCounterpart(w) \/ PublishRequest(w)
           \/ RunPrimary(w) \/ WriteResponse(w) \/ LoadSubmission(w) \/ Cancelled(w)
           \/ RecordGivesUp(w) \/ RecordNothing(w) \/ PhaseAccepted(w)
  BY <1>4 DEF AlreadyTerminal, Resume, PreflightPasses, LoadR1, PassR1Gate, SkipR2,
              WriteR2Packet, KeepR2Packet, LoadR2, PassR2Gate, LoadCounterpart,
              PublishRequest, RunPrimary, WriteResponse, LoadSubmission, Cancelled,
              RecordGivesUp, RecordNothing, PhaseAccepted, Only
<1>5. CASE \/ IntegrityDrift(w) \/ Preflight(w) \/ PreflightFails(w) \/ RunR1(w)
           \/ R1Gate(w) \/ R2Packet(w) \/ RunR2(w) \/ R2Gate(w) \/ RunCounterpart(w)
           \/ AwaitPrimary(w) \/ RecoverWaits(w) \/ Merge(w) \/ PhaseFailed(w)
           \/ RecordFailure(w)
  <2>1. PICK s \in RunStatuses \ (CancelStatus \cup PublicStatus) :
            \E loc : Request(w, s, loc)
    BY <1>5 DEF IntegrityDrift, Preflight, PreflightFails, RunR1, R1Gate, R2Packet,
                RunR2, R2Gate, RunCounterpart, AwaitPrimary, RecoverWaits, Merge,
                PhaseFailed, RecordFailure, RunStatuses, Stages, TerminalStatus,
                CancelStatus, PublicStatus
  <2>2. op[w] = "none" /\ at[w] \in HeldLocs \ {"finalized"}
    BY <1>5 DEF IntegrityDrift, Preflight, PreflightFails, RunR1, R1Gate, R2Packet,
                RunR2, R2Gate, RunCounterpart, AwaitPrimary, RecoverWaits, Merge,
                PhaseFailed, RecordFailure, At, Loaded, Contested, InPhase,
                HeldLocs, ActiveLocs, PhaseLocs
  <2> QED
    BY <1>1, <2>1, <2>2, AskHeld
<1>6. CASE ArbiterCancelled(w) \/ FinalizeCancelled(w)
  <2>1. /\ \E loc : Request(w, "Cancelled", loc)
        /\ op[w] = "none" /\ at[w] # "finalized" /\ cancelRequested
    BY <1>6 DEF ArbiterCancelled, FinalizeCancelled, At, InPhase, PhaseLocs
  <2> QED
    BY <1>1, <2>1, AskCancel DEF CancelStatus
<1>7. CASE BeginLoad(w) \/ RecordLoad(w)
  BY <1>1, <1>7, NoGuard DEF BeginLoad, RecordLoad, At, Call
<1>8. CASE ReconcileFails(w) \/ ReturnOk(w) \/ ReturnError(w) \/ RecordReturn(w)
  BY <1>1, <1>8, NoGuard DEF ReconcileFails, ReturnOk, ReturnError, RecordReturn, At, Call
<1>9. CASE CreateChallenge(w) \/ StageResponse(w) \/ AcceptResponse(w) \/ RecoverAccepts(w)
  BY <1>1, <1>9, AtWork DEF CreateChallenge, StageResponse, AcceptResponse, RecoverAccepts,
                            SubmissionIs, Persist, InPhase, At, ActiveLocs, Call
<1>10. CASE Finalize(w)
  <2>1. mem[w].status = "Merging"
    BY <1>2, <1>10 DEF Finalize, At, GoesOn, ClientFits, MergeIsKnown
  <2> QED
    BY <1>1, <1>10, <2>1, AtWork DEF Finalize, At, ActiveLocs, Call
<1>11. CASE PublishResult(w) \/ DropGuard(w)
  BY <1>11 DEF PublishResult, DropGuard, Call
<1>12. CASE Complete(w)
  BY <1>12 DEF Complete, Request, MayRequest, Call, PublicStatus, RunStatuses,
               TerminalStatus
<1>13. CASE ReconcileOrphan(w) \/ ReapChild(w)
  BY <1>2, <1>13 DEF ReconcileOrphan, ReapChild, InPhase, At, ClientFits, LockFits,
                     HeldLocs, ActiveLocs, PhaseLocs, Call
<1>14. CASE SpawnChild(w)
  BY <1>1, <1>14, AtWork DEF SpawnChild, InPhase, PhaseLocs, ActiveLocs, Call
<1>15. CASE RegisterChild(w)
  BY <1>15 DEF RegisterChild, Call
<1> QED
  BY <1>3, <1>4, <1>5, <1>6, <1>7, <1>8, <1>9, <1>10, <1>11, <1>12, <1>13, <1>14,
     <1>15, SMTT(60) DEF Advance, Lanes

\* So does cancel(), and a command that only loads.
LEMMA CancelCalls ==
    ASSUME ClientInv, NEW c \in Canceller, Cancel(c)
    PROVE  Call(c) \/ UNCHANGED vars
<1>1. c \in Proc
  BY ProcAssumption
<1>2. CASE CancelLoad(c) \/ CancelReload(c)
  BY <1>1, <1>2, NoGuard DEF CancelLoad, CancelReload, At, Call
<1>3. CASE CancelRequest(c) \/ CancelTooLate(c)
  BY <1>3 DEF CancelRequest, CancelTooLate, Call
<1>4. CASE CancelMark(c) \/ CancelFinish(c)
  <2>1. MarkIsRequested(c)
    BY <1>1 DEF ClientInv, ClientFits
  <2>2. \E s \in CancelStatus, loc \in FreeLocs : Request(c, s, loc)
    BY <1>4 DEF CancelMark, CancelFinish, CancelStatus, FreeLocs
  <2>3. op[c] = "none" /\ at[c] # "finalized" /\ cancelRequested
    BY <1>4, <2>1 DEF CancelMark, CancelFinish, At, MarkIsRequested
  <2> QED
    BY <1>1, <2>2, <2>3, AskCancel
<1>5. CASE CancelChildren(c) \/ CancelReturns(c) \/ CancelFails(c)
  BY <1>5 DEF CancelChildren, CancelReturns, CancelFails, Only
<1> QED
  BY <1>2, <1>3, <1>4, <1>5 DEF Cancel

LEMMA ReadCalls ==
    ASSUME ClientInv, NEW r \in Reader, Read(r)
    PROVE  Call(r) \/ UNCHANGED vars
<1>1. r \in Proc
  BY ProcAssumption
<1>2. CASE ReaderLoad(r)
  BY <1>1, <1>2, NoGuard DEF ReaderLoad, At, Call
<1>3. CASE ReaderReturns(r)
  BY <1>3 DEF ReaderReturns, Call
<1>4. CASE ReaderFails(r)
  BY <1>4 DEF ReaderFails, Only
<1> QED
  BY <1>2, <1>3, <1>4 DEF Read

\* Every step of the commands is one of RunStore, or none.
LEMMA StepIsStore == IInv /\ ClientInv /\ [SchedNext]_allVars => [Next]_vars
<1> SUFFICES ASSUME IInv, ClientInv, [SchedNext]_allVars
             PROVE  [Next]_vars
  OBVIOUS
<1>1. ASSUME NEW w \in Worker, BeginAdvance(w) \/ Advance(w)
      PROVE  [Next]_vars
  BY <1>1, AdvanceCalls, ProcAssumption DEF Next
<1>2. ASSUME NEW c \in Canceller, Cancel(c)
      PROVE  [Next]_vars
  BY <1>2, CancelCalls, ProcAssumption DEF Next
<1>3. ASSUME NEW r \in Reader, Read(r)
      PROVE  [Next]_vars
  BY <1>3, ReadCalls, ProcAssumption DEF Next
<1>4. ASSUME NEW p \in Proc, StoreStep(p) \/ Kill(p)
      PROVE  [Next]_vars
  BY <1>4 DEF StoreStep, Kill, Next
<1>5. CASE UNCHANGED allVars
  BY <1>5 DEF allVars
<1> QED
  BY <1>1, <1>2, <1>3, <1>4, <1>5 DEF SchedNext

-----------------------------------------------------------------------------
(* A step of one command, for the others.                                  *)

\* p alone moves: other commands keep their place and what they remember, and
\* a lock passes between p and nobody.
StoreApart(p) ==
    /\ \A q \in Proc \ {p} :
          /\ op'[q] = op[q] /\ mem'[q] = mem[q] /\ cur'[q] = cur[q]
          /\ want'[q] = want[q] /\ ok'[q] = ok[q]
    /\ \A q \in Proc \ {p} :
          /\ runLock' = q <=> runLock = q
          /\ manifestLock' = q <=> manifestLock = q
          /\ pidsLock' = q <=> pidsLock = q

StoreMove(p) ==
    \/ Call(p) \/ LoadStep(p) \/ TransitionStep(p) \/ CancellationStep(p)
    \/ Crash(p) \/ UNCHANGED vars

LEMMA MoveIsApart ==
    ASSUME IInv, NEW p \in Proc, StoreMove(p)
    PROVE  StoreApart(p)
<1>1. TypeOK
  BY DEF IInv
<1>2. /\ op[p] \in TransitionOps => manifestLock = p
      /\ op[p] \in GuardedOps => pidsLock = p
  BY DEF IInv, ManifestLockHeld, PidsLockHeld
<1>3. CASE Call(p)
  <2>1. CASE \/ TakeRunLock(p) \/ DropRunLock(p) \/ Leave(p) \/ Load(p)
             \/ \E s \in RunStatuses : Transition(p, s)
    BY <1>1, <2>1, NoneAssumption DEF TakeRunLock, DropRunLock, Leave, Load, Transition,
       StoreApart, TypeOK, RunLockFree, Goto, locks
  <2>2. CASE \/ EditManifest(p) \/ SaveManifest(p) \/ RequestCancellation(p)
             \/ RequestCancellationTooLate(p)
    BY <1>1, <2>2, NoneAssumption DEF EditManifest, SaveManifest, RequestCancellation,
       RequestCancellationTooLate, StoreApart, TypeOK, TakePidsLock, Goto, locks
  <2>3. CASE \/ BeginFinalization(p) \/ WriteResult(p) \/ EndFinalization(p)
             \/ BeginRegistration(p)
    BY <1>1, <2>3, NoneAssumption DEF BeginFinalization, WriteResult, EndFinalization,
       BeginRegistration, StoreApart, TypeOK, TakePidsLock, DropPidsLock, Goto, local, locks
  <2>4. CASE \E l \in Lane : RegisterProcess(p, l) \/ UnregisterProcess(p, l)
    BY <1>1, <1>2, <2>4, NoneAssumption DEF RegisterProcess, UnregisterProcess,
       StoreApart, TypeOK, DropPidsLock, GuardedOps, Goto, local, locks
  <2> QED
    BY <1>3, <2>1, <2>2, <2>3, <2>4 DEF Call
<1>4. CASE LoadStep(p)
  BY <1>1, <1>4, NoneAssumption DEF LoadStep, LoadFails, PendingExists, ReadPending,
     ReadPendingVanished, ReadPendingMismatch, DropPending, RecoverEvent,
     RecoverDone, LoadReturns, Return, Goto, Holder, StoreApart, TypeOK, locks
<1>5. CASE TransitionStep(p)
  BY <1>1, <1>2, <1>5, NoneAssumption DEF TransitionStep, DecideTerminal, Decide,
     WritePending, SaveTransition, AppendEvent, AppendEventFails, RemovePending, Return,
     TransitionOps, Goto, StoreApart, TypeOK, locks
<1>6. CASE CancellationStep(p)
  BY <1>1, <1>2, <1>6, NoneAssumption DEF CancellationStep, WriteCancelRequested,
     CleanAndSnapshot, GuardedOps, DropPidsLock, Goto, StoreApart, TypeOK, locks
<1>7. CASE Crash(p)
  BY <1>1, <1>7, NoneAssumption DEF Crash, Return, Goto, Holder, StoreApart, TypeOK
<1>8. CASE UNCHANGED vars
  BY <1>8 DEF vars, local, locks, StoreApart
<1> QED
  BY <1>3, <1>4, <1>5, <1>6, <1>7, <1>8 DEF StoreMove

\* The status is moved by transition() alone, out of the status the manifest
\* has, and the request of a cancellation is never taken back.
LEMMA MoveOfStatus ==
    ASSUME IInv, NEW p \in Proc, StoreMove(p)
    PROVE  /\ cancelRequested => cancelRequested'
           /\ manifest'.status = manifest.status \/ SaveTransition(p)
           /\ manifest' = manifest \/ SaveTransition(p) \/ (Working(p) /\ SaveManifest(p))
<1>1. CASE UNCHANGED vars
  BY <1>1 DEF vars, disk
<1>2. CASE SaveTransition(p)
  BY <1>2 DEF SaveTransition
<1>3. CASE WriteCancelRequested(p)
  BY <1>3 DEF WriteCancelRequested
<1>4. CASE Working(p) /\ SaveManifest(p)
  BY <1>4, SaveKeepsStatus
<1>5. CASE Decide(p)
  BY <1>5 DEF Decide
<1>6. CASE /\ ~UNCHANGED vars /\ ~SaveTransition(p) /\ ~WriteCancelRequested(p)
           /\ ~(Working(p) /\ SaveManifest(p))
  BY <1>6, OtherStepsKeepStatus DEF StoreMove
<1> QED
  BY <1>1, <1>2, <1>3, <1>4, <1>5, <1>6

\* Whoever ends a run otherwise than by a cancellation holds its lock.
LEMMA EnderHolds ==
    ASSUME IInv, NEW p \in Proc, StoreMove(p), manifest'.status # manifest.status
    PROVE  /\ manifestLock = p /\ op[p] = "save" /\ manifest'.status = want[p]
           /\ want[p] \notin CancelStatus => runLock = p
           /\ want[p] \in CancelStatus => cancelRequested
<1>1. SaveTransition(p)
  BY MoveOfStatus
<1>2. op[p] = "save" /\ manifest'.status = want[p] /\ manifestLock = p
  BY <1>1, SaveTransitionFacts DEF SaveTransition, IInv, ManifestLockHeld, TransitionOps
<1> QED
  BY <1>2 DEF IInv, RunLockHeld, CancelIsRequested

\* What is true of the place of another command stays true.
LEMMA OthersFit ==
    ASSUME IInv, ClientInv, NEW p \in Proc, NEW q \in Proc \ {p}, StoreMove(p),
           at'[q] = at[q]
    PROVE  ClientFits(q)'
<1>1. ClientFits(q)
  BY DEF ClientInv
<1>2. /\ op'[q] = op[q] /\ mem'[q] = mem[q] /\ cur'[q] = cur[q]
      /\ want'[q] = want[q] /\ ok'[q] = ok[q]
      /\ runLock' = q <=> runLock = q
      /\ manifestLock' = q <=> manifestLock = q
      /\ pidsLock' = q <=> pidsLock = q
  BY MoveIsApart DEF StoreApart
<1>3. cancelRequested => cancelRequested'
  BY MoveOfStatus
<1>4. LockFits(q)' /\ OpFits(q)' /\ GuardFits(q)' /\ ManifestKnown(q)'
  BY <1>1, <1>2 DEF ClientFits, LockFits, OpFits, GuardFits, ManifestKnown
<1>5. MarkIsRequested(q)' /\ MergeIsKnown(q)'
  BY <1>1, <1>2, <1>3 DEF ClientFits, MarkIsRequested, MergeIsKnown
<1>6. at[q] \in HeldLocs /\ manifest'.status \in Ends => manifest.status \in Ends
  <2>1. at[q] \in HeldLocs => runLock # p
    BY <1>1 DEF ClientFits, LockFits
  <2> QED
    BY <2>1, EnderHolds DEF Ends, TerminalStatus, CancelStatus
<1>7. NotEnded(q)' /\ EndIsSeen(q)'
  BY <1>1, <1>2, <1>6 DEF ClientFits, NotEnded, EndIsSeen, HeldLocs
<1> QED
  BY <1>4, <1>5, <1>7 DEF ClientFits

-----------------------------------------------------------------------------
(* A step of a command, for itself.                                        *)

\* Between two operations a command has asked for nothing.
LEMMA Between ==
    ASSUME IInv, NEW p \in Proc, op[p] = "none"
    PROVE  want[p] = "none" /\ manifestLock # p
BY DEF IInv, ManifestLockHeld, LoadOps, TransitionOps

\* A command goes on without an operation of the store.
LEMMA WalkFits ==
    ASSUME IInv, ClientInv, NEW p \in Proc, UNCHANGED vars, op[p] = "none", NEW loc,
           at' = [at EXCEPT ![p] = loc],
           \/ /\ at[p] \in ActiveLocs /\ ok[p]
              /\ loc \in (ActiveLocs \ {"merge", "publish"}) \cup {"exit"}
           \/ /\ at[p] = "loaded" /\ ok[p]
              /\ loc = "exit" \/ (loc = "r1" /\ ~Terminal(mem[p].status))
           \/ at[p] = "recordLoaded" /\ loc = "recordExit"
           \/ at[p] \in FreeLocs /\ loc \in {"idle", "done", "failed"}
    PROVE  ClientFits(p)'
<1>1. ClientFits(p) /\ at'[p] = loc /\ want[p] = "none" /\ manifestLock # p
  BY Between DEF ClientInv, SchedTypeOK
<1>2. UNCHANGED <<op, mem, cur, want, ok, manifest, runLock, manifestLock, pidsLock>>
  BY DEF vars, disk, locks, local
<1>3. LockFits(p)'
  BY <1>1, <1>2 DEF ClientFits, LockFits, HeldLocs, FreeLocs, ActiveLocs
<1>4. OpFits(p)' /\ GuardFits(p)'
  BY <1>1, <1>2 DEF ClientFits, OpFits, GuardFits, LoadOps, GuardedOps, QuietLocs,
                    ActiveLocs, FreeLocs
<1>5. ManifestKnown(p)' /\ MarkIsRequested(p)' /\ MergeIsKnown(p)'
  BY <1>1, <1>2 DEF ClientFits, ManifestKnown, MarkIsRequested, MergeIsKnown, ActiveLocs
<1>6. NotEnded(p)' /\ EndIsSeen(p)'
  BY <1>1, <1>2 DEF ClientFits, NotEnded, EndIsSeen, ActiveLocs, Ends, TerminalStatus
<1> QED
  BY <1>3, <1>4, <1>5, <1>6 DEF ClientFits

\* A command asks for a transition.
LEMMA AskFits ==
    ASSUME IInv, ClientInv, NEW p \in Proc, NEW s \in RunStatuses, NEW loc \in RequestLocs,
           Transition(p, s), at' = [at EXCEPT ![p] = loc],
           \/ /\ at[p] \in ActiveLocs /\ op[p] = "none"
              /\ loc \in (ActiveLocs \ {"merge"}) \cup {"exit"}
              /\ loc \in ActiveLocs => s \notin Ends
           \/ /\ at[p] \in ActiveLocs /\ op[p] = "none"
              /\ loc = "merge" /\ s = "Merging"
           \/ /\ at[p] = "loaded" /\ op[p] = "none" /\ ok[p] /\ ~Terminal(mem[p].status)
              /\ loc = "exit" \/ (loc = "preflight" /\ s \notin Ends)
           \/ at[p] = "publish" /\ loc = "finalized"
           \/ at[p] = "recordLoaded" /\ op[p] = "none" /\ loc = "recordExit"
           \/ at[p] \in {"reloaded", "marked"} /\ op[p] = "none" /\ loc \in {"marked", "finished"}
    PROVE  ClientFits(p)'
<1>1. ClientFits(p) /\ at'[p] = loc
  BY DEF ClientInv, SchedTypeOK
<1>2. /\ UNCHANGED <<mem, ok, manifest, runLock, pidsLock, cancelRequested>>
      /\ op'[p] = "exists" /\ want'[p] = s /\ manifestLock' = p /\ mem[p] # NoManifest
  BY DEF Transition, Goto, IInv, TypeOK, disk
<1>3. LockFits(p)'
  BY <1>1, <1>2 DEF ClientFits, LockFits, HeldLocs, FreeLocs, ActiveLocs
<1>4. OpFits(p)' /\ GuardFits(p)'
  BY <1>1, <1>2 DEF ClientFits, OpFits, GuardFits, LoadOps, GuardedOps, QuietLocs,
                    ActiveLocs, RequestLocs
<1>5. ManifestKnown(p)' /\ MarkIsRequested(p)' /\ MergeIsKnown(p)'
  BY <1>1, <1>2 DEF ClientFits, ManifestKnown, MarkIsRequested, MergeIsKnown, ActiveLocs
<1>6. NotEnded(p)' /\ EndIsSeen(p)'
  BY <1>1, <1>2 DEF ClientFits, NotEnded, EndIsSeen, ActiveLocs, Ends, TerminalStatus
<1> QED
  BY <1>3, <1>4, <1>5, <1>6 DEF ClientFits

\* A command loads the manifest.
LEMMA LoadFits ==
    ASSUME IInv, ClientInv, NEW p \in Proc, Load(p), NEW loc \in LoadingLocs,
           at' = [at EXCEPT ![p] = loc],
           \/ at[p] = "reconcile" /\ loc = "loaded"
           \/ at[p] = "recordLoad" /\ loc = "recordLoaded"
           \/ at[p] = "idle" /\ loc \in {"cancelLoaded", "read"}
           \/ at[p] = "requested" /\ loc = "reloaded"
    PROVE  ClientFits(p)'
<1>1. ClientFits(p) /\ at'[p] = loc /\ want[p] = "none" /\ manifestLock # p /\ op[p] = "none"
  BY Between DEF ClientInv, SchedTypeOK, Load
<1>2. /\ UNCHANGED <<mem, want, ok, manifest, runLock, manifestLock, pidsLock, cancelRequested>>
      /\ op'[p] = "exists" /\ cur'[p] = manifest
  BY DEF Load, Goto, IInv, TypeOK, disk, locks
<1>3. LockFits(p)'
  BY <1>1, <1>2 DEF ClientFits, LockFits, HeldLocs, FreeLocs, ActiveLocs
<1>4. OpFits(p)' /\ GuardFits(p)'
  BY <1>1, <1>2 DEF ClientFits, OpFits, GuardFits, LoadOps, GuardedOps, QuietLocs,
                    ActiveLocs, PhaseLocs, LoadingLocs
<1>5. ManifestKnown(p)' /\ MarkIsRequested(p)' /\ MergeIsKnown(p)'
  BY <1>1, <1>2 DEF ClientFits, ManifestKnown, MarkIsRequested, MergeIsKnown, ActiveLocs
<1>6. NotEnded(p)' /\ EndIsSeen(p)'
  BY <1>1, <1>2 DEF ClientFits, NotEnded, EndIsSeen, ActiveLocs, Ends, Terminal
<1> QED
  BY <1>3, <1>4, <1>5, <1>6 DEF ClientFits

\* A command takes the run lock, or leaves the run.
LEMMA RunLockFits ==
    ASSUME IInv, ClientInv, NEW p \in Proc, NEW loc, at' = [at EXCEPT ![p] = loc],
           op[p] = "none", at[p] # "finalized",
           \/ TakeRunLock(p) /\ at[p] \in FreeLocs /\ loc \in {"reconcile", "recordLoad"}
           \/ DropRunLock(p) /\ loc \in {"record", "idle"}
           \/ Leave(p) /\ loc = "idle"
    PROVE  ClientFits(p)'
<1>1. ClientFits(p) /\ at'[p] = loc /\ want[p] = "none" /\ manifestLock # p
  BY Between DEF ClientInv, SchedTypeOK
<1>2. /\ UNCHANGED <<want, op, manifestLock, pidsLock>>
      /\ runLock' = p <=> loc \in {"reconcile", "recordLoad"}
  BY NoneAssumption DEF TakeRunLock, DropRunLock, Leave, locks
<1>3. LockFits(p)' /\ OpFits(p)' /\ GuardFits(p)'
  BY <1>1, <1>2 DEF ClientFits, LockFits, OpFits, GuardFits, HeldLocs, ActiveLocs,
                    LoadOps, GuardedOps, QuietLocs, PhaseLocs
<1>4. /\ ManifestKnown(p)' /\ MarkIsRequested(p)' /\ MergeIsKnown(p)'
      /\ NotEnded(p)' /\ EndIsSeen(p)'
  BY <1>1 DEF ManifestKnown, MarkIsRequested, MergeIsKnown, NotEnded, EndIsSeen, ActiveLocs
<1> QED
  BY <1>3, <1>4 DEF ClientFits

\* advance() changes a field of its manifest, and may save it.
LEMMA EditFits ==
    ASSUME IInv, ClientInv, NEW p \in Proc, NEW loc, at' = [at EXCEPT ![p] = loc],
           EditManifest(p) \/ SaveManifest(p),
           at[p] \in {"arbiter", "parun", "accepting", "recover"},
           loc \in {"arbiter", "staged", "recover"}
    PROVE  ClientFits(p)'
<1>1. ClientFits(p) /\ at'[p] = loc /\ op[p] = "none" /\ want[p] = "none"
  BY Between DEF ClientInv, SchedTypeOK, EditManifest, SaveManifest
<1>2. Working(p)
  BY <1>1, AtWork DEF ActiveLocs
<1>3. /\ UNCHANGED <<op, ok, want, runLock, manifestLock, pidsLock>>
      /\ mem'[p] = Edited(mem[p]) /\ mem[p] \in Manifests
  BY DEF EditManifest, SaveManifest, IInv, TypeOK, MaybeManifest, locks
<1>4. manifest'.status = manifest.status
  BY <1>2, SaveKeepsStatus DEF EditManifest, disk
<1>5. mem'[p] # NoManifest
  BY <1>3, EditedFacts, NoneAssumption
<1>6. LockFits(p)' /\ OpFits(p)' /\ GuardFits(p)'
  BY <1>1, <1>3 DEF ClientFits, LockFits, OpFits, GuardFits, HeldLocs, ActiveLocs,
                    LoadOps, GuardedOps, QuietLocs, RequestLocs, LoadingLocs
<1>7. /\ ManifestKnown(p)' /\ MarkIsRequested(p)' /\ MergeIsKnown(p)'
      /\ NotEnded(p)' /\ EndIsSeen(p)'
  BY <1>1, <1>3, <1>4, <1>5 DEF ClientFits, ManifestKnown, MarkIsRequested, MergeIsKnown,
                                NotEnded, EndIsSeen, ActiveLocs
<1> QED
  BY <1>6, <1>7 DEF ClientFits

\* A cancellation is requested, or comes too late.
LEMMA CancelFits ==
    ASSUME IInv, ClientInv, NEW p \in Proc,
           \/ /\ RequestCancellation(p) /\ at[p] = "cancelLoaded"
              /\ at' = [at EXCEPT ![p] = "requested"]
           \/ /\ RequestCancellationTooLate(p) /\ at[p] = "cancelLoaded"
              /\ at' = [at EXCEPT ![p] = "done"]
           \/ CancellationStep(p) /\ UNCHANGED at
    PROVE  ClientFits(p)'
<1>1. ClientFits(p)
  BY DEF ClientInv
<1>2. op[p] \notin LoadOps \cup TransitionOps /\ manifestLock # p
  BY DEF IInv, ManifestLockHeld, LoadOps, TransitionOps, RequestCancellation,
         RequestCancellationTooLate, CancellationStep, WriteCancelRequested,
         CleanAndSnapshot
<1>3. /\ UNCHANGED <<runLock, manifestLock, ok, want>>
      /\ at'[p] \in {"requested", "done"} /\ at[p] \in {"cancelLoaded", "requested"}
      /\ op'[p] \in {"cancelWrite", "cancelClean", "none"}
      /\ pidsLock' = p => op'[p] \in {"cancelWrite", "cancelClean"}
      /\ at'[p] = "done" => op'[p] = "none"
      /\ op'[p] # "cancelWrite" /\ at'[p] = "requested" => cancelRequested'
  BY <1>1, NoneAssumption
     DEF IInv, TypeOK, CancelIsRequested, PidsLockHeld, ClientInv, SchedTypeOK, ClientFits,
         OpFits, GuardFits, GuardedOps, RequestCancellation, RequestCancellationTooLate,
         CancellationStep, WriteCancelRequested, CleanAndSnapshot, TakePidsLock,
         DropPidsLock,
         Goto, locks
<1>4. LockFits(p)' /\ OpFits(p)' /\ GuardFits(p)'
  BY <1>1, <1>2, <1>3 DEF ClientFits, LockFits, OpFits, GuardFits, HeldLocs, ActiveLocs,
                          LoadOps, GuardedOps, QuietLocs, RequestLocs, LoadingLocs
<1>5. /\ ManifestKnown(p)' /\ MarkIsRequested(p)' /\ MergeIsKnown(p)'
      /\ NotEnded(p)' /\ EndIsSeen(p)'
  BY <1>3 DEF ManifestKnown, MarkIsRequested, MergeIsKnown, NotEnded, EndIsSeen, ActiveLocs
<1> QED
  BY <1>4, <1>5 DEF ClientFits

\* advance() takes the finalization guard, writes the result, drops the guard.
LEMMA GuardStepFits ==
    ASSUME IInv, ClientInv, NEW p \in Proc,
           \/ /\ BeginFinalization(p) /\ at[p] = "merge" /\ ok[p]
              /\ at' = [at EXCEPT ![p] = "publish"]
           \/ WriteResult(p) /\ at[p] = "publish" /\ UNCHANGED at
           \/ /\ EndFinalization(p) /\ at[p] = "finalized"
              /\ at' = [at EXCEPT ![p] = "exit"]
    PROVE  ClientFits(p)'
<1>1. ClientFits(p)
  BY DEF ClientInv
<1>2. manifestLock # p
  BY DEF IInv, ManifestLockHeld, LoadOps, TransitionOps, BeginFinalization, WriteResult,
         EndFinalization
<1>3. /\ UNCHANGED <<runLock, manifestLock, want, mem, manifest>>
      /\ at[p] \in {"merge", "publish", "finalized"}
      /\ at'[p] \in {"publish", "exit"} /\ (at'[p] = "publish" => at[p] \in {"merge", "publish"})
      /\ op'[p] \in {"publish", "published", "none"} /\ (op'[p] = "none" <=> at'[p] = "exit")
      /\ pidsLock' = p => op'[p] # "none"
      /\ at'[p] = "publish" => ok'[p]
  BY <1>1, NoneAssumption
     DEF IInv, TypeOK, ClientInv, SchedTypeOK, BeginFinalization, WriteResult,
         EndFinalization, DropPidsLock, Goto, disk, locks, local, ClientFits, OpFits
<1>4. LockFits(p)' /\ OpFits(p)' /\ GuardFits(p)'
  BY <1>1, <1>2, <1>3 DEF ClientFits, LockFits, OpFits, GuardFits, HeldLocs, ActiveLocs,
                          LoadOps, GuardedOps, QuietLocs
<1>5. /\ ManifestKnown(p)' /\ MarkIsRequested(p)' /\ MergeIsKnown(p)'
      /\ NotEnded(p)' /\ EndIsSeen(p)'
  BY <1>1, <1>3 DEF ClientFits, ManifestKnown, MarkIsRequested, MergeIsKnown, NotEnded,
                    EndIsSeen, ActiveLocs
<1> QED
  BY <1>4, <1>5 DEF ClientFits

\* A child is registered, or removed.
LEMMA ChildFits ==
    ASSUME IInv, ClientInv, NEW p \in Proc, UNCHANGED at,
           \/ BeginRegistration(p) /\ at[p] \in PhaseLocs
           \/ \E l \in Lane : RegisterProcess(p, l)
           \/ \E l \in Lane : UnregisterProcess(p, l)
    PROVE  ClientFits(p)'
<1>1. ClientFits(p)
  BY DEF ClientInv
<1> DEFINE Registers ==
      /\ UNCHANGED <<runLock, manifestLock, want, mem, cur, ok, manifest, cancelRequested>>
      /\ op[p] \in {"none", "spawn"} /\ op'[p] \in {"none", "spawn"}
      /\ op'[p] = "spawn" => at[p] \in PhaseLocs
      /\ pidsLock' = p => op'[p] = "spawn" \/ (pidsLock = p /\ op'[p] = op[p])
      /\ op[p] # op'[p] => at[p] \in PhaseLocs
<1>2. Registers
  <2>1. CASE BeginRegistration(p) /\ at[p] \in PhaseLocs
    BY <2>1 DEF IInv, TypeOK, BeginRegistration, TakePidsLock, Goto, disk
  <2>2. ASSUME NEW l \in Lane, RegisterProcess(p, l)
        PROVE  Registers
    BY <1>1, <2>2, NoneAssumption
       DEF IInv, TypeOK, RegisterProcess, ClientFits, OpFits, DropPidsLock, Goto
  <2>3. ASSUME NEW l \in Lane, UnregisterProcess(p, l)
        PROVE  Registers
    BY <2>3 DEF UnregisterProcess, locks, local
  <2> QED
    BY <2>1, <2>2, <2>3
<1>3. LockFits(p)' /\ OpFits(p)' /\ GuardFits(p)'
  BY <1>1, <1>2 DEF ClientFits, LockFits, OpFits, GuardFits, LoadOps, GuardedOps, PhaseLocs
<1>4. /\ ManifestKnown(p)' /\ MarkIsRequested(p)' /\ MergeIsKnown(p)'
      /\ NotEnded(p)' /\ EndIsSeen(p)'
  BY <1>1, <1>2 DEF ClientFits, ManifestKnown, MarkIsRequested, MergeIsKnown, NotEnded,
                    EndIsSeen, ActiveLocs, PhaseLocs, LoadOps
<1> QED
  BY <1>3, <1>4 DEF ClientFits

\* A step of load_manifest: it goes on, or it returns, well or with an error.
LEMMA LoadStepIs ==
    ASSUME IInv, NEW p \in Proc, LoadStep(p)
    PROVE  /\ op[p] \in LoadOps /\ cur[p] # NoManifest
           /\ UNCHANGED <<manifest, cancelRequested, runLock, pidsLock>>
           /\ \/ /\ op'[p] \in LoadOps \/ (op'[p] = "decide" /\ manifestLock = p)
                 /\ mem'[p] = mem[p] /\ cur'[p] = cur[p] /\ want'[p] = want[p]
                 /\ ok'[p] = ok[p] /\ manifestLock' = manifestLock
              \/ /\ op'[p] = "none" /\ ok'[p] /\ want'[p] = "none"
                 /\ mem'[p] = cur[p] /\ manifestLock # p /\ manifestLock' = manifestLock
              \/ /\ op'[p] = "none" /\ ~ok'[p] /\ want'[p] = "none"
                 /\ mem'[p] = mem[p] /\ manifestLock' # p
<1>1. TypeOK
  BY DEF IInv
<1>2. op[p] \in LoadOps
  BY DEF LoadStep, PendingExists, ReadPending, ReadPendingVanished, ReadPendingMismatch,
         DropPending, RecoverEvent, RecoverDone, LoadOps
<1>3. cur[p] # NoManifest
  BY <1>2 DEF IInv, ReadsAreLoaded
<1>4. CASE \/ ReadPendingVanished(p) \/ ReadPendingMismatch(p)
  BY <1>1, <1>2, <1>3, <1>4, NoneAssumption
     DEF ReadPendingVanished, ReadPendingMismatch, LoadFails, Return, Goto, Holder, TypeOK, disk
<1>5. CASE ReadPending(p) \/ RecoverEvent(p)
  BY <1>1, <1>2, <1>3, <1>5 DEF ReadPending, RecoverEvent, Goto, TypeOK, LoadOps, disk,
     locks
<1>6. CASE \/ PendingExists(p) \/ DropPending(p) \/ RecoverDone(p)
  BY <1>1, <1>2, <1>3, <1>6
     DEF PendingExists, DropPending, RecoverDone, LoadReturns, Return, Goto, TypeOK, LoadOps,
         disk, locks
<1> QED
  BY <1>4, <1>5, <1>6 DEF LoadStep

\* A step of transition() after its load.
LEMMA TransitionStepIs ==
    ASSUME IInv, NEW p \in Proc, TransitionStep(p)
    PROVE  /\ op[p] \in TransitionOps /\ manifestLock = p
           /\ UNCHANGED <<cancelRequested, runLock, pidsLock>>
           /\ \/ /\ op[p] = "decide" /\ op'[p] = "none" /\ ok'[p] /\ want'[p] = "none"
                 /\ Terminal(manifest.status) /\ mem'[p] = manifest
                 /\ UNCHANGED manifest /\ manifestLock' # p
              \/ /\ op[p] = "decide" /\ op'[p] = "none" /\ ~ok'[p] /\ want'[p] = "none"
                 /\ mem'[p] = mem[p] /\ UNCHANGED manifest /\ manifestLock' # p
              \/ /\ op[p] = "decide" /\ op'[p] = "writePending" /\ ok'[p] = ok[p]
                 /\ want'[p] = want[p] \/ want'[p] = "Cancelled"
                 /\ mem'[p] = mem[p] /\ UNCHANGED <<manifest, manifestLock>>
              \/ /\ \/ op[p] = "writePending" /\ op'[p] = "save"
                    \/ op[p] = "append" /\ op'[p] = "removePending"
                 /\ ok'[p] = ok[p] /\ want'[p] = want[p] /\ mem'[p] = mem[p]
                 /\ UNCHANGED <<manifest, manifestLock>>
              \/ /\ op[p] = "save" /\ op'[p] = "append" /\ ok'[p] = ok[p]
                 /\ want'[p] = want[p] /\ mem'[p] = manifest' /\ manifest'.status = want[p]
                 /\ want[p] \notin CancelStatus => manifest'.data = mem[p].data
                 /\ UNCHANGED manifestLock
              \/ /\ op[p] \in {"append", "removePending"} /\ op'[p] = "none" /\ ok'[p]
                 /\ want'[p] = "none" /\ mem'[p] = mem[p]
                 /\ UNCHANGED manifest /\ manifestLock' # p
<1>1. TypeOK
  BY DEF IInv
<1>2. op[p] \in TransitionOps
  BY DEF TransitionStep, DecideTerminal, Decide, WritePending, SaveTransition, AppendEvent,
         AppendEventFails, RemovePending, TransitionOps
<1>3. manifestLock = p
  BY <1>2 DEF IInv, ManifestLockHeld
<1>4. CASE DecideTerminal(p)
  BY <1>1, <1>2, <1>3, <1>4, NoneAssumption
     DEF DecideTerminal, IInv, ReadsAreLoaded, Return, Goto, TypeOK, disk
<1>5. CASE Decide(p)
  BY <1>1, <1>2, <1>3, <1>5, NoneAssumption, DecideFacts
     DEF Decide, Effective, Return, Goto, TypeOK
<1>6. CASE WritePending(p) \/ AppendEvent(p)
  BY <1>1, <1>2, <1>3, <1>6 DEF WritePending, AppendEvent, Goto, TypeOK, locks
<1>7. CASE SaveTransition(p)
  <2>1. /\ mem'[p] = manifest' /\ manifest'.status = want[p]
        /\ UNCHANGED <<want, ok, locks, cancelRequested>>
        /\ op[p] = "save" /\ op'[p] = "append"
    BY <1>1, <1>7, SaveTransitionFacts DEF SaveTransition, Goto, TypeOK
  <2>2. want[p] \notin CancelStatus => mem[p] \in Manifests
    BY <1>1, <1>3 DEF IInv, RunLockHeld, TypeOK, MaybeManifest
  <2>3. want[p] \notin CancelStatus => manifest'.data = mem[p].data
    BY <1>7, <2>2 DEF SaveTransition, Base, Manifests
  <2> QED
    BY <1>2, <1>3, <2>1, <2>3 DEF locks
<1>8. CASE AppendEventFails(p) \/ RemovePending(p)
  BY <1>1, <1>2, <1>3, <1>8, NoneAssumption
     DEF AppendEventFails, RemovePending, Return, Goto, TypeOK, disk
<1> QED
  BY <1>4, <1>5, <1>6, <1>7, <1>8 DEF TransitionStep

\* A load or a transition that is under way goes on.
LEMMA StoreFits ==
    ASSUME IInv, ClientInv, NEW p \in Proc, UNCHANGED at, LoadStep(p) \/ TransitionStep(p)
    PROVE  ClientFits(p)'
<1>1. ClientFits(p)
  BY DEF ClientInv
<1>2. /\ op[p] \in LoadOps \cup TransitionOps
      /\ at[p] \in RequestLocs \/ (at[p] \in LoadingLocs /\ op[p] \in LoadOps)
      /\ manifestLock = p => at[p] \in RequestLocs
      /\ manifestLock # p => at[p] \in LoadingLocs /\ op[p] \in LoadOps
      /\ op'[p] \in LoadOps \cup TransitionOps \cup {"none"}
      /\ op'[p] \in LoadOps /\ manifestLock' # p => manifestLock # p
      /\ manifestLock' = p => manifestLock = p
      /\ UNCHANGED <<cancelRequested, runLock, pidsLock>>
  BY <1>1, LoadStepIs, TransitionStepIs DEF ClientFits, OpFits, LoadOps, TransitionOps
<1>3. LockFits(p)' /\ OpFits(p)' /\ GuardFits(p)'
  BY <1>1, <1>2 DEF ClientFits, LockFits, OpFits, GuardFits, LoadOps, TransitionOps,
                    GuardedOps, LoadingLocs, RequestLocs, QuietLocs, PhaseLocs
<1>4. MarkIsRequested(p)'
  BY <1>1, <1>2 DEF ClientFits, MarkIsRequested, LoadingLocs, RequestLocs
<1>5. CASE LoadStep(p)
  BY <1>1, <1>2, <1>3, <1>4, <1>5, LoadStepIs
     DEF ClientFits, ManifestKnown, NotEnded, EndIsSeen, MergeIsKnown, LoadingLocs,
         RequestLocs, ActiveLocs, LoadOps, Ends, TerminalStatus
<1>6. CASE TransitionStep(p)
  <2>1. at[p] \in RequestLocs /\ want[p] # "none"
    BY <1>2, <1>6, TransitionStepIs DEF IInv, ManifestLockHeld
  <2>2. manifest \in Manifests /\ manifest # NoManifest
    BY NoneAssumption DEF IInv, TypeOK
  <2>3. manifest' # NoManifest
    <3>1. CASE SaveTransition(p)
      BY <3>1, SaveTransitionFacts, NoneAssumption
    <3>2. CASE ~SaveTransition(p)
      BY <1>6, <2>2, <3>2 DEF TransitionStep, DecideTerminal, Decide, WritePending,
         AppendEvent, AppendEventFails, RemovePending, disk
    <3> QED
      BY <3>1, <3>2
  <2>4. ManifestKnown(p)' /\ EndIsSeen(p)'
    BY <1>1, <1>6, <2>1, <2>2, <2>3, TransitionStepIs
       DEF ClientFits, ManifestKnown, EndIsSeen, RequestLocs, ActiveLocs
  <2>5. NotEnded(p)' /\ MergeIsKnown(p)'
    BY <1>1, <1>6, <2>1, TransitionStepIs
       DEF ClientFits, NotEnded, MergeIsKnown, RequestLocs, ActiveLocs, Ends,
           TerminalStatus, TransitionOps, Terminal
  <2> QED
    BY <1>3, <1>4, <2>4, <2>5 DEF ClientFits
<1> QED
  BY <1>5, <1>6

\* A command is killed.
LEMMA KillFits ==
    ASSUME IInv, ClientInv, NEW p \in Proc, Kill(p)
    PROVE  ClientFits(p)'
<1>1. /\ at'[p] \in {"failed", "idle"} /\ op'[p] = "none"
      /\ runLock' # p /\ manifestLock' # p /\ pidsLock' # p
  BY NoneAssumption DEF Kill, Crash, Return, Goto, Holder, IInv, TypeOK, ClientInv,
     SchedTypeOK
<1> QED
  BY <1>1 DEF ClientFits, LockFits, OpFits, GuardFits, ManifestKnown, MarkIsRequested,
              NotEnded, EndIsSeen, MergeIsKnown, HeldLocs, ActiveLocs, LoadOps, GuardedOps,
              QuietLocs

-----------------------------------------------------------------------------
(* Every step of every command.                                            *)

\* Where a step takes a command, and what it does to what all of them share.
Places == HeldLocs \cup FreeLocs

GoesTo(p) ==
    /\ \E loc \in Places : at' = [at EXCEPT ![p] = loc]
    /\ artifacts' \subseteq Artifacts
    /\ sessions' \in Nat

\* advance() goes on without the store.
Walks(w) ==
    \/ AlreadyTerminal(w) \/ Resume(w) \/ PreflightPasses(w) \/ LoadR1(w)
    \/ PassR1Gate(w) \/ SkipR2(w) \/ WriteR2Packet(w) \/ KeepR2Packet(w)
    \/ LoadR2(w) \/ PassR2Gate(w) \/ LoadCounterpart(w) \/ PublishRequest(w)
    \/ RunPrimary(w) \/ WriteResponse(w) \/ LoadSubmission(w) \/ Cancelled(w)
    \/ RecordGivesUp(w) \/ RecordNothing(w) \/ PhaseAccepted(w)

\* advance() asks for a transition.
Asks(w) ==
    \/ IntegrityDrift(w) \/ Preflight(w) \/ PreflightFails(w) \/ RunR1(w)
    \/ R1Gate(w) \/ R2Packet(w) \/ RunR2(w) \/ R2Gate(w) \/ RunCounterpart(w)
    \/ AwaitPrimary(w) \/ RecoverWaits(w) \/ Merge(w) \/ PhaseFailed(w)
    \/ RecordFailure(w) \/ ArbiterCancelled(w) \/ FinalizeCancelled(w) \/ Complete(w)

LEMMA WalksTo ==
    ASSUME ClientInv, NEW w \in Proc, Walks(w)
    PROVE  /\ UNCHANGED vars /\ op[w] = "none" /\ UNCHANGED sessions
           /\ artifacts' \subseteq Artifacts
           /\ \E loc \in Places :
                 /\ at' = [at EXCEPT ![w] = loc]
                 /\ \/ /\ at[w] \in ActiveLocs /\ ok[w]
                       /\ loc \in (ActiveLocs \ {"merge", "publish"}) \cup {"exit"}
                    \/ /\ at[w] = "loaded" /\ ok[w]
                       /\ loc = "exit" \/ (loc = "r1" /\ ~Terminal(mem[w].status))
                    \/ at[w] = "recordLoaded" /\ loc = "recordExit"
                    \/ at[w] \in FreeLocs /\ loc = "idle"
<1>1. at[w] \in QuietLocs => ok[w]
  BY DEF ClientInv, ClientFits, OpFits
<1>2. artifacts \subseteq Artifacts
  BY DEF ClientInv, SchedTypeOK
<1>3. CASE AlreadyTerminal(w) \/ Resume(w) \/ RecordGivesUp(w) \/ RecordNothing(w)
  BY <1>2, <1>3 DEF AlreadyTerminal, Resume, RecordGivesUp, RecordNothing, Loaded, At, Only,
                    To, Places, HeldLocs, FreeLocs, ActiveLocs
<1>4. CASE \/ PreflightPasses(w) \/ LoadR1(w) \/ PassR1Gate(w) \/ KeepR2Packet(w)
           \/ LoadR2(w) \/ PassR2Gate(w) \/ LoadCounterpart(w)
  BY <1>1, <1>2, <1>4 DEF PreflightPasses, LoadR1, PassR1Gate, KeepR2Packet, LoadR2,
     PassR2Gate, LoadCounterpart, Contested, GoesOn, At, Only, To, Places, HeldLocs,
     ActiveLocs, QuietLocs
<1>5. CASE RunPrimary(w) \/ LoadSubmission(w) \/ Cancelled(w)
  BY <1>1, <1>2, <1>5 DEF RunPrimary, LoadSubmission, Cancelled, SubmissionIs, At, Only, To,
     Places, HeldLocs, ActiveLocs, QuietLocs, PhaseLocs
<1>6. CASE \/ SkipR2(w) \/ WriteR2Packet(w) \/ PublishRequest(w) \/ WriteResponse(w)
           \/ PhaseAccepted(w)
  <2>1. artifacts' \subseteq Artifacts
    <3>1. CASE SkipR2(w) \/ WriteR2Packet(w) \/ PublishRequest(w) \/ WriteResponse(w)
      BY <1>2, <3>1 DEF SkipR2, WriteR2Packet, PublishRequest, WriteResponse, Artifacts
    <3>2. CASE PhaseAccepted(w)
      <4>1. PICK ph \in Phases : \/ artifacts' = artifacts \cup {ph.file}
                                 \/ artifacts' = artifacts \cup {"R1", "contested"}
        BY <3>2 DEF PhaseAccepted
      <4>2. ph.file \in Artifacts
        BY DEF Phases, Artifacts
      <4> QED
        BY <1>2, <4>1, <4>2 DEF Artifacts
    <3> QED
      BY <1>6, <3>1, <3>2
  <2> QED
    BY <1>1, <1>6, <2>1 DEF SkipR2, WriteR2Packet, PublishRequest, WriteResponse,
       PhaseAccepted, Phases, InPhase, GoesOn, SubmissionIs, At, To, Places, HeldLocs,
       ActiveLocs, QuietLocs, PhaseLocs
<1> QED
  BY <1>3, <1>4, <1>5, <1>6 DEF Walks

LEMMA AsksFor ==
    ASSUME ClientInv, NEW w \in Proc, Asks(w)
    PROVE  /\ UNCHANGED <<artifacts, sessions>>
           /\ \E s \in RunStatuses, loc \in Places \cap RequestLocs :
                 /\ Transition(w, s) /\ at' = [at EXCEPT ![w] = loc]
                 /\ \/ /\ at[w] \in ActiveLocs /\ op[w] = "none"
                       /\ loc \in (ActiveLocs \ {"merge"}) \cup {"exit"}
                       /\ loc \in ActiveLocs => s \notin Ends
                    \/ /\ at[w] \in ActiveLocs /\ op[w] = "none"
                       /\ loc = "merge" /\ s = "Merging"
                    \/ /\ at[w] = "loaded" /\ op[w] = "none" /\ ok[w] /\ ~Terminal(mem[w].status)
                       /\ loc = "exit" \/ (loc = "preflight" /\ s \notin Ends)
                    \/ at[w] = "publish" /\ loc = "finalized"
                    \/ at[w] = "recordLoaded" /\ op[w] = "none" /\ loc = "recordExit"
<1> USE DEF Request, To, Ends, RunStatuses, Stages, TerminalStatus, Places, HeldLocs,
            ActiveLocs, RequestLocs
<1>1. CASE IntegrityDrift(w) \/ Preflight(w) \/ PreflightFails(w) \/ RecordFailure(w)
  BY <1>1 DEF IntegrityDrift, Preflight, PreflightFails, RecordFailure, Loaded, At, Terminal
<1>2. CASE RunR1(w) \/ R1Gate(w) \/ R2Packet(w) \/ RunR2(w) \/ R2Gate(w) \/ RunCounterpart(w)
  BY <1>2 DEF RunR1, R1Gate, R2Packet, RunR2, R2Gate, RunCounterpart, Contested, At
<1>3. CASE AwaitPrimary(w) \/ RecoverWaits(w) \/ Merge(w)
  BY <1>3 DEF AwaitPrimary, RecoverWaits, Merge, At
<1>4. CASE PhaseFailed(w) \/ ArbiterCancelled(w) \/ FinalizeCancelled(w) \/ Complete(w)
  BY <1>4 DEF PhaseFailed, ArbiterCancelled, FinalizeCancelled, Complete, InPhase,
     PhaseLocs, At
<1> QED
  BY <1>1, <1>2, <1>3, <1>4 DEF Asks

\* A step of advance(), or of the record of its failure.
LEMMA AdvanceFits ==
    ASSUME IInv, ClientInv, NEW w \in Worker, BeginAdvance(w) \/ Advance(w)
    PROVE  w \in Proc /\ ClientFits(w)' /\ GoesTo(w) /\ StoreMove(w)
<1>1. w \in Proc /\ StoreMove(w)
  BY AdvanceCalls, ProcAssumption DEF StoreMove
<1>2. /\ at \in [Proc -> Places] /\ artifacts \subseteq Artifacts /\ sessions \in Nat
      /\ OpFits(w)
  BY <1>1 DEF ClientInv, SchedTypeOK, Places, ClientFits
<1>3. CASE Walks(w)
  BY <1>1, <1>2, <1>3, WalksTo, WalkFits DEF GoesTo
<1>4. CASE Asks(w)
  BY <1>1, <1>2, <1>4, AsksFor, AskFits DEF GoesTo
<1>5. CASE BeginAdvance(w) \/ RecordBegin(w)
  <2>1. PICK loc \in {"reconcile", "recordLoad"} :
           /\ TakeRunLock(w) /\ at' = [at EXCEPT ![w] = loc] /\ op[w] = "none"
           /\ at[w] \in {"idle", "record"} /\ sessions' \in Nat /\ UNCHANGED artifacts
    BY <1>2, <1>5 DEF BeginAdvance, RecordBegin, At, To
  <2>2. ClientFits(w)'
    BY <1>1, <2>1, RunLockFits DEF FreeLocs
  <2> QED
    BY <1>1, <1>2, <2>1, <2>2 DEF GoesTo, Places, HeldLocs
<1>6. CASE ReconcileFails(w) \/ ReturnOk(w) \/ ReturnError(w) \/ RecordReturn(w)
  <2>1. PICK loc \in {"record", "idle"} :
           /\ DropRunLock(w) /\ at' = [at EXCEPT ![w] = loc] /\ op[w] = "none"
           /\ at[w] # "finalized" /\ UNCHANGED <<sessions, artifacts>>
    BY <1>6 DEF ReconcileFails, ReturnOk, ReturnError, RecordReturn, At, To
  <2>2. ClientFits(w)'
    BY <1>1, <2>1, RunLockFits
  <2> QED
    BY <1>1, <1>2, <2>1, <2>2 DEF GoesTo, Places, FreeLocs
<1>7. CASE BeginLoad(w) \/ RecordLoad(w)
  <2>1. PICK loc \in LoadingLocs :
           /\ Load(w) /\ at' = [at EXCEPT ![w] = loc] /\ UNCHANGED <<sessions, artifacts>>
           /\ \/ at[w] = "reconcile" /\ loc = "loaded"
              \/ at[w] = "recordLoad" /\ loc = "recordLoaded"
    BY <1>7 DEF BeginLoad, RecordLoad, At, To, LoadingLocs
  <2>2. ClientFits(w)'
    BY <1>1, <2>1, LoadFits
  <2> QED
    BY <1>1, <1>2, <2>1, <2>2 DEF GoesTo, Places, HeldLocs
<1>8. CASE CreateChallenge(w) \/ StageResponse(w) \/ AcceptResponse(w) \/ RecoverAccepts(w)
  <2>1. PICK loc \in {"arbiter", "staged", "recover"} :
           /\ at' = [at EXCEPT ![w] = loc]
           /\ EditManifest(w) \/ SaveManifest(w)
           /\ at[w] \in {"arbiter", "parun", "accepting", "recover"}
           /\ UNCHANGED <<sessions, artifacts>>
    BY <1>2, <1>8 DEF CreateChallenge, StageResponse, AcceptResponse, RecoverAccepts,
                      SubmissionIs, Persist, InPhase, At, To, schedVars
  <2>2. ClientFits(w)'
    BY <1>1, <2>1, EditFits
  <2> QED
    BY <1>1, <1>2, <2>1, <2>2 DEF GoesTo, Places, HeldLocs, ActiveLocs
<1>9. CASE Finalize(w) \/ PublishResult(w) \/ DropGuard(w)
  <2>1. ClientFits(w)'
    BY <1>1, <1>9, GuardStepFits DEF Finalize, GoesOn, PublishResult, DropGuard, At, To,
       schedVars
  <2> QED
    BY <1>1, <1>2, <1>9, <2>1 DEF Finalize, PublishResult, DropGuard, At, To, schedVars,
                                  GoesTo, Places, HeldLocs, ActiveLocs
<1>10. CASE ReconcileOrphan(w) \/ SpawnChild(w) \/ RegisterChild(w) \/ ReapChild(w)
  <2>1. ClientFits(w)'
    BY <1>1, <1>10, ChildFits DEF ReconcileOrphan, SpawnChild, RegisterChild, ReapChild,
                                  InPhase, schedVars
  <2>2. UNCHANGED schedVars
    BY <1>10 DEF ReconcileOrphan, SpawnChild, RegisterChild, ReapChild
  <2> QED
    BY <1>1, <1>2, <2>1, <2>2 DEF GoesTo, schedVars
<1> QED
  BY <1>3, <1>4, <1>5, <1>6, <1>7, <1>8, <1>9, <1>10 DEF Advance, Lanes, Walks, Asks

\* A step of cancel(), or of a command that only loads.
LEMMA CancelStepFits ==
    ASSUME IInv, ClientInv, NEW c \in Canceller, Cancel(c)
    PROVE  c \in Proc /\ ClientFits(c)' /\ GoesTo(c) /\ StoreMove(c)
<1>1. c \in Proc /\ StoreMove(c)
  BY CancelCalls, ProcAssumption DEF StoreMove
<1>2. artifacts \subseteq Artifacts /\ sessions \in Nat
  BY DEF ClientInv, SchedTypeOK
<1>3. CASE CancelLoad(c) \/ CancelReload(c)
  <2>1. PICK loc \in LoadingLocs :
           /\ Load(c) /\ at' = [at EXCEPT ![c] = loc] /\ UNCHANGED <<sessions, artifacts>>
           /\ \/ at[c] = "idle" /\ loc = "cancelLoaded"
              \/ at[c] = "requested" /\ loc = "reloaded"
    BY <1>3 DEF CancelLoad, CancelReload, At, To, LoadingLocs
  <2>2. ClientFits(c)'
    BY <1>1, <2>1, LoadFits
  <2> QED
    BY <1>1, <1>2, <2>1, <2>2 DEF GoesTo, Places, FreeLocs
<1>4. CASE CancelRequest(c) \/ CancelTooLate(c)
  <2>1. ClientFits(c)'
    BY <1>1, <1>4, CancelFits DEF CancelRequest, CancelTooLate, At, To
  <2> QED
    BY <1>1, <1>2, <1>4, <2>1 DEF CancelRequest, CancelTooLate, To, GoesTo, Places, FreeLocs
<1>5. CASE CancelMark(c) \/ CancelFinish(c)
  <2>1. PICK s \in RunStatuses, loc \in {"marked", "finished"} :
           /\ Transition(c, s) /\ at' = [at EXCEPT ![c] = loc] /\ op[c] = "none"
           /\ at[c] \in {"reloaded", "marked"} /\ UNCHANGED <<sessions, artifacts>>
    BY <1>5, StatusFacts DEF CancelMark, CancelFinish, Request, At, To
  <2>2. ClientFits(c)'
    BY <1>1, <2>1, AskFits DEF RequestLocs
  <2> QED
    BY <1>1, <1>2, <2>1, <2>2 DEF GoesTo, Places, FreeLocs
<1>6. CASE CancelChildren(c) \/ CancelReturns(c) \/ CancelFails(c)
  <2>1. PICK loc \in {"done", "failed"} :
           /\ UNCHANGED <<vars, sessions, artifacts>> /\ at' = [at EXCEPT ![c] = loc]
           /\ op[c] = "none" /\ at[c] \in {"cancelLoaded", "reloaded", "marked", "finished"}
    BY <1>6 DEF CancelChildren, CancelReturns, CancelFails, Only, To, At
  <2>2. ClientFits(c)'
    BY <1>1, <2>1, WalkFits DEF FreeLocs
  <2> QED
    BY <1>1, <1>2, <2>1, <2>2 DEF GoesTo, Places, FreeLocs
<1> QED
  BY <1>3, <1>4, <1>5, <1>6 DEF Cancel

LEMMA ReadFits ==
    ASSUME IInv, ClientInv, NEW r \in Reader, Read(r)
    PROVE  r \in Proc /\ ClientFits(r)' /\ GoesTo(r) /\ StoreMove(r)
<1>1. r \in Proc /\ StoreMove(r)
  BY ReadCalls, ProcAssumption DEF StoreMove
<1>2. artifacts \subseteq Artifacts /\ sessions \in Nat
  BY DEF ClientInv, SchedTypeOK
<1>3. CASE ReaderLoad(r)
  <2>1. ClientFits(r)'
    BY <1>1, <1>3, LoadFits DEF ReaderLoad, At, To, LoadingLocs
  <2> QED
    BY <1>1, <1>2, <1>3, <2>1 DEF ReaderLoad, To, GoesTo, Places, FreeLocs
<1>4. CASE ReaderReturns(r)
  <2>1. ClientFits(r)'
    BY <1>1, <1>4, RunLockFits DEF ReaderReturns, At, To
  <2> QED
    BY <1>1, <1>2, <1>4, <2>1 DEF ReaderReturns, To, GoesTo, Places, FreeLocs
<1>5. CASE ReaderFails(r)
  <2>1. ClientFits(r)'
    BY <1>1, <1>5, WalkFits DEF ReaderFails, Only, At, To, FreeLocs
  <2> QED
    BY <1>1, <1>2, <1>5, <2>1 DEF ReaderFails, Only, To, GoesTo, Places, FreeLocs
<1> QED
  BY <1>3, <1>4, <1>5 DEF Read

\* A step of a store operation, and a kill.
LEMMA StoreStepFits ==
    ASSUME IInv, ClientInv, NEW p \in Proc, StoreStep(p) \/ Kill(p)
    PROVE  ClientFits(p)' /\ GoesTo(p) /\ StoreMove(p)
<1>1. StoreMove(p)
  BY DEF StoreStep, Kill, StoreMove
<1>2. artifacts \subseteq Artifacts /\ sessions \in Nat /\ at \in [Proc -> Places]
  BY DEF ClientInv, SchedTypeOK, Places
<1>3. CASE StoreStep(p)
  <2>1. ClientFits(p)'
    BY <1>3, StoreFits, CancelFits DEF StoreStep, schedVars
  <2> QED
    BY <1>1, <1>2, <1>3, <2>1 DEF StoreStep, schedVars, GoesTo
<1>4. CASE Kill(p)
  BY <1>1, <1>2, <1>4, KillFits DEF Kill, GoesTo, Places, FreeLocs
<1> QED
  BY <1>3, <1>4

LEMMA StepFits ==
    ASSUME IInv, ClientInv, SchedNext
    PROVE  \E p \in Proc : ClientFits(p)' /\ GoesTo(p) /\ StoreMove(p)
BY AdvanceFits, CancelStepFits, ReadFits, StoreStepFits DEF SchedNext

\* What is true of the place of every command is inductive.
LEMMA ClientNextInv == IInv /\ ClientInv /\ [SchedNext]_allVars => ClientInv'
<1> SUFFICES ASSUME IInv, ClientInv, [SchedNext]_allVars
             PROVE  ClientInv'
  OBVIOUS
<1>1. CASE SchedNext
  <2>1. PICK p \in Proc : ClientFits(p)' /\ GoesTo(p) /\ StoreMove(p)
    BY <1>1, StepFits
  <2>2. PICK loc \in Places : at' = [at EXCEPT ![p] = loc]
    BY <2>1 DEF GoesTo
  <2>3. SchedTypeOK'
    BY <2>1, <2>2 DEF ClientInv, SchedTypeOK, GoesTo, Places
  <2>4. ASSUME NEW q \in Proc
        PROVE  ClientFits(q)'
    <3>1. CASE q # p
      <4>1. at'[q] = at[q]
        BY <2>2, <3>1 DEF ClientInv, SchedTypeOK
      <4> QED
        BY <2>1, <3>1, <4>1, OthersFit
    <3> QED
      BY <2>1, <3>1
  <2> QED
    BY <2>3, <2>4 DEF ClientInv
<1>2. CASE UNCHANGED allVars
  <2>1. SchedTypeOK'
    BY <1>2 DEF allVars, schedVars, ClientInv, SchedTypeOK
  <2>2. ASSUME NEW q \in Proc
        PROVE  ClientFits(q)'
    BY <1>2 DEF allVars, schedVars, vars, disk, locks, local, ClientInv, ClientFits,
       LockFits,
       OpFits, GuardFits, ManifestKnown, MarkIsRequested, NotEnded, EndIsSeen, MergeIsKnown
  <2> QED
    BY <2>1, <2>2 DEF ClientInv
<1> QED
  BY <1>1, <1>2

LEMMA ClientInit == SchedInit => ClientInv
<1> SUFFICES ASSUME SchedInit
             PROVE  ClientInv
  OBVIOUS
<1>1. SchedTypeOK
  BY DEF SchedInit, SchedTypeOK, FreeLocs
<1>2. ASSUME NEW p \in Proc
      PROVE  ClientFits(p)
  BY NoneAssumption DEF SchedInit, Init, ClientFits, LockFits, OpFits, GuardFits,
     ManifestKnown, MarkIsRequested, NotEnded, EndIsSeen, MergeIsKnown, HeldLocs,
     ActiveLocs, LoadOps, QuietLocs, LoadingLocs
<1> QED
  BY <1>1, <1>2 DEF ClientInv

\* The rules of the store and the places of its commands, in every state.
THEOREM SchedInvariance == SchedSpec => [](IInv /\ ClientInv)
<1>1. SchedInit => IInv /\ ClientInv
  BY InitInv, ClientInit DEF SchedInit
<1>2. IInv /\ ClientInv /\ [SchedNext]_allVars => IInv' /\ ClientInv'
  BY StepIsStore, NextInv, ClientNextInv
<1> QED
  BY <1>1, <1>2, PTL DEF SchedSpec

\* The commands keep the rules of the store's clients (StoreRules), whatever
\* their number and their interleaving: what is proved of RunStore holds of
\* advance(), cancel() and the commands that load.
THEOREM CommandsKeepRules == SchedSpec => StoreRules
<1>1. SchedInit => Init
  BY DEF SchedInit
<1> QED
  BY <1>1, StepIsStore, SchedInvariance, PTL DEF SchedSpec, StoreRules, Spec

\* So the commands move a run as RunLifecycle says, and the log they leave tells
\* the truth, and all of it when nothing failed.
THEOREM CommandsFollowLifecycle ==
    SchedSpec => LifecycleSpec /\ [](LogIsFaithful /\ LogIsComplete)
<1>1. StoreRules => Spec
  BY DEF StoreRules
<1> QED
  BY <1>1, CommandsKeepRules, Refinement, LogTellsTheTruth, LogTellsEverything, PTL

-----------------------------------------------------------------------------
(* Locks are taken in one order.                                           *)

\* Who holds .events.lock releases it with its next step.
LEMMA EventsLockStays ==
  ASSUME IInv, EventsLockHeld, [Next]_vars
  PROVE  EventsLockHeld'
<1>. USE NoneAssumption DEF EventsLockHeld
<1>1. CASE UNCHANGED vars
  BY <1>1 DEF vars, locks, local
<1>2. ASSUME NEW p \in Proc,
             UNCHANGED eventsLock, op[p] # "recovered",
             op' = op \/ \E o : op' = [op EXCEPT ![p] = o]
      PROVE  EventsLockHeld'
  BY <1>2 DEF IInv, TypeOK
<1>3. ASSUME NEW p \in Proc, Call(p)
      PROVE  EventsLockHeld'
  <2>1. op[p] \in {"none", "publish", "published", "spawn"}
    BY <1>3
    DEF Call, TakeRunLock, DropRunLock, Leave, Load, Transition, EditManifest, SaveManifest,
        RequestCancellation, RequestCancellationTooLate, BeginFinalization, WriteResult,
        EndFinalization, BeginRegistration, RegisterProcess, UnregisterProcess
  <2>2. UNCHANGED eventsLock /\ (op' = op \/ \E o : op' = [op EXCEPT ![p] = o])
    BY <1>3
    DEF Call, TakeRunLock, DropRunLock, Leave, Load, Transition, EditManifest, SaveManifest,
        RequestCancellation, RequestCancellationTooLate, BeginFinalization, WriteResult,
        EndFinalization, BeginRegistration, RegisterProcess, UnregisterProcess, Goto, locks,
        local
  <2>. QED
    BY <1>2, <2>1, <2>2
<1>4. ASSUME NEW p \in Proc, LoadStep(p)
      PROVE  EventsLockHeld'
  <2>1. CASE RecoverEvent(p)
    BY <2>1 DEF RecoverEvent, Goto, IInv, TypeOK
  <2>2. CASE RecoverDone(p)
    BY <2>2 DEF RecoverDone
  <2>3. CASE PendingExists(p) \/ ReadPending(p) \/ ReadPendingVanished(p)
             \/ ReadPendingMismatch(p) \/ DropPending(p)
    <3>1. UNCHANGED eventsLock /\ op[p] # "recovered"
          /\ \E o : op' = [op EXCEPT ![p] = o]
      BY <2>3
      DEF PendingExists, ReadPending, ReadPendingVanished, ReadPendingMismatch, DropPending,
          LoadFails, LoadReturns, Return, Goto, locks
    <3>. QED
      BY <1>2, <3>1
  <2>. QED
    BY <1>4, <2>1, <2>2, <2>3 DEF LoadStep
<1>5. ASSUME NEW p \in Proc, TransitionStep(p) \/ CancellationStep(p)
      PROVE  EventsLockHeld'
  <2>1. UNCHANGED eventsLock /\ op[p] # "recovered"
        /\ \E o : op' = [op EXCEPT ![p] = o]
    BY <1>5
    DEF TransitionStep, DecideTerminal, Decide, WritePending, SaveTransition, AppendEvent,
        AppendEventFails, RemovePending, CancellationStep, WriteCancelRequested,
        CleanAndSnapshot, Return, Goto, locks
  <2>. QED
    BY <1>2, <2>1
<1>6. ASSUME NEW p \in Proc, Crash(p)
      PROVE  EventsLockHeld'
  BY <1>6 DEF Crash, Holder, Return, Goto, IInv, TypeOK
<1>. QED
  BY <1>1, <1>3, <1>4, <1>5, <1>6 DEF Next

\* No command that holds a lock waits for one before it, so commands never wait
\* for each other in a circle, however many there are and wherever they are killed
\* (event_at, recover_pending_transition, transition, finalization_guard).
THEOREM NoCircularWait == SchedSpec => []LocksInOrder
<1>1. Init => EventsLockHeld
  BY NoneAssumption DEF Init, EventsLockHeld
<1>2. IInv /\ EventsLockHeld /\ [Next]_vars => EventsLockHeld'
  BY EventsLockStays
<1>3. IInv /\ ClientInv /\ EventsLockHeld => LocksInOrder
  <2>. SUFFICES ASSUME IInv, ClientInv, EventsLockHeld, NEW p \in Proc,
                       NEW held \in DOMAIN Owner, Owner[held] = p, NEW k \in Awaited(p)
                PROVE  LockOrder[held] < LockOrder[k]
    BY DEF LocksInOrder
  <2>1. CASE held = "events"
    <3>1. op[p] = "recovered"
      BY <2>1 DEF Owner, EventsLockHeld
    <3>. QED
      BY <3>1 DEF Awaited
  <2>2. CASE held = "manifest"
    <3>1. op[p] \in LoadOps \cup TransitionOps
      BY <2>2 DEF Owner, IInv, ManifestLockHeld
    <3>. QED
      BY <2>2, <3>1 DEF Awaited, LoadOps, TransitionOps, LockOrder
  <2>3. CASE held = "pids"
    <3>1. op[p] \in GuardedOps \/ at[p] = "finalized"
      BY <2>3 DEF Owner, ClientInv, ClientFits, GuardFits
    <3>. QED
      BY <2>3, <3>1 DEF Awaited, GuardedOps, LockOrder
  <2>. QED
    BY <2>1, <2>2, <2>3 DEF Owner
<1>4. Spec => []EventsLockHeld
  BY <1>1, <1>2, Invariance, PTL DEF Spec
<1>5. StoreRules => Spec
  BY DEF StoreRules
<1>. QED
  BY <1>3, <1>4, <1>5, CommandsKeepRules, SchedInvariance, PTL

-----------------------------------------------------------------------------
(* The files of a run: a step of one command, for the others.              *)

\* No cancellation is requested: who moves the manifest holds the run lock.
LEMMA MoverHolds ==
    ASSUME IInv, NEW p \in Proc, StoreMove(p), manifest' # manifest, ~cancelRequested
    PROVE  runLock = p
<1>1. CASE SaveTransition(p)
  <2>1. op[p] = "save" /\ manifestLock = p
    BY <1>1, SaveTransitionFacts DEF SaveTransition
  <2>2. want[p] \notin CancelStatus
    BY DEF IInv, CancelIsRequested
  <2> QED
    BY <2>1, <2>2 DEF IInv, RunLockHeld
<1> QED
  BY <1>1, MoveOfStatus DEF Working

\* Who works on a file of the run holds the run lock, too.
LEMMA OthersEvidence ==
    ASSUME IInv, ClientInv, EvidenceInv, NEW p \in Proc, NEW q \in Proc \ {p}, StoreMove(p),
           at'[q] = at[q], artifacts' = artifacts \/ runLock = p
    PROVE  EvidenceFits(q)'
<1>1. EvidenceFits(q) /\ LockFits(q)
  BY DEF ClientInv, ClientFits, EvidenceInv
<1>2. /\ op'[q] = op[q] /\ mem'[q] = mem[q] /\ cur'[q] = cur[q]
      /\ want'[q] = want[q] /\ ok'[q] = ok[q]
      /\ runLock' = q <=> runLock = q
      /\ manifestLock' = q <=> manifestLock = q
  BY MoveIsApart DEF StoreApart
<1>3. cancelRequested => cancelRequested'
  BY MoveOfStatus
<1>4. CASE runLock # q
  <2>1. at[q] \notin HeldLocs
    BY <1>1, <1>4 DEF LockFits
  <2>2. manifestLock = q => want[q] \in CancelStatus
    BY <1>4 DEF IInv, RunLockHeld
  <2>3. at[q] \notin BehindR1 \cup ActiveLocs
    BY <2>1 DEF HeldLocs, ActiveLocs, BehindR1, BehindR2, BehindCc
  <2> QED
    BY <1>2, <1>4, <2>2, <2>3 DEF EvidenceFits, FilesFit, PlanFits, StatusFits, DataFits,
       ActiveLocs, BehindR1, BehindR2, BehindCc
<1>5. CASE runLock = q
  <2>1. artifacts' = artifacts
    BY <1>5
  <2>2. FilesFit(q)'
    BY <1>1, <2>1 DEF EvidenceFits, FilesFit
  <2>3. CASE cancelRequested'
    BY <2>2, <2>3 DEF EvidenceFits, PlanFits, StatusFits, DataFits
  <2>4. CASE ~cancelRequested'
    <3>1. manifest' = manifest /\ ~cancelRequested
      BY <1>3, <1>5, <2>4, MoverHolds
    <3> QED
      BY <1>1, <1>2, <2>1, <2>2, <3>1 DEF EvidenceFits, PlanFits, StatusFits, DataFits,
         Evidence
  <2> QED
    BY <2>3, <2>4
<1> QED
  BY <1>4, <1>5

-----------------------------------------------------------------------------
(* The files of a run: a step of a command, for itself.                    *)

\* What advance() knows where it may go on, until a cancellation is requested.
LEMMA AtPlace ==
    ASSUME IInv, ClientInv, EvidenceInv, NEW p \in Proc, at[p] \in ActiveLocs,
           op[p] \in {"none", "spawn", "publish", "published"}, ok[p], ~cancelRequested
    PROVE  /\ runLock = p /\ mem[p] \in Manifests /\ manifest \in Manifests
           /\ ~Terminal(manifest.status) /\ mem[p].status = manifest.status
           /\ manifest.status \in StatusAt(at[p])
           /\ at[p] \notin {"recover", "merge", "publish"} => mem[p].data = manifest.data
<1>1. LockFits(p) /\ ManifestKnown(p) /\ NotEnded(p) /\ StatusFits(p) /\ DataFits(p)
  BY DEF ClientInv, ClientFits, EvidenceInv, EvidenceFits
<1>2. runLock = p /\ mem[p] \in Manifests /\ mem[p] # NoManifest /\ manifest \in Manifests
  BY <1>1 DEF LockFits, HeldLocs, ManifestKnown, IInv, TypeOK, MaybeManifest
<1>3. ~Terminal(manifest.status)
  BY <1>1 DEF NotEnded, Ends, Terminal, IInv, CancelIsRequested, CancelStatus
<1>4. mem[p].status = manifest.status
  BY <1>2, <1>3 DEF IInv, WorkerKnowsStatus
<1>5. at[p] \notin {"finalized", "exit"}
  BY DEF ActiveLocs
<1> QED
  BY <1>1, <1>2, <1>3, <1>4, <1>5 DEF StatusFits, DataFits

\* advance() goes on to a place the files and the manifest fit.
LEMMA WalkEvidence ==
    ASSUME IInv, ClientInv, EvidenceInv, NEW w \in Proc, Walks(w)
    PROVE  EvidenceFits(w)'
<1>1. /\ UNCHANGED vars /\ op[w] = "none" /\ want[w] = "none" /\ manifestLock # w
      /\ at \in [Proc -> Places]
  BY WalksTo, Between DEF ClientInv, SchedTypeOK, Places
<1>2. /\ UNCHANGED <<op, mem, cur, want, ok, manifest, cancelRequested, runLock, manifestLock>>
  BY <1>1 DEF vars, disk, locks, local
<1>3. /\ FilesFit(w) /\ StatusFits(w) /\ DataFits(w) /\ DiskFits
      /\ LockFits(w) /\ EndIsSeen(w)
      /\ at[w] \in QuietLocs => ok[w]
  BY DEF EvidenceInv, EvidenceFits, ClientInv, ClientFits, OpFits
<1>4. PlanFits(w)'
  BY <1>1, <1>2 DEF PlanFits
<1> SUFFICES FilesFit(w)' /\ StatusFits(w)' /\ DataFits(w)'
  BY <1>4 DEF EvidenceFits
<1>5. CASE AlreadyTerminal(w) \/ Cancelled(w) \/ RecordGivesUp(w) \/ RecordNothing(w)
  <2>1. \E loc \in {"exit", "idle", "recordExit"} :
           /\ at' = [at EXCEPT ![w] = loc]
           /\ loc = "recordExit" => at[w] = "recordLoaded"
           /\ loc = "idle" => at[w] = "record"
    BY <1>5 DEF AlreadyTerminal, Cancelled, RecordGivesUp, RecordNothing, At, Only, To
  <2> QED
    BY <1>1, <1>2, <1>3, <1>4, <2>1 DEF EvidenceFits, FilesFit, StatusFits, DataFits,
       LockFits,
       HeldLocs, ActiveLocs, BehindR1, BehindR2, BehindCc, LoadOps
<1>6. CASE Resume(w)
  <2>1. at[w] = "loaded" /\ at'[w] = "r1"
    BY <1>1, <1>6 DEF Resume, Loaded, At, Only, To
  <2>2. ASSUME ~cancelRequested
        PROVE  manifest.status \in StatusAt("r1") /\ runLock = w
    <3>1. runLock = w /\ ~Terminal(mem[w].status) /\ mem[w] # NoManifest
      BY <1>3, <1>6, <2>1 DEF LockFits, HeldLocs, Resume, Loaded, At, ClientInv, ClientFits,
                              ManifestKnown
    <3>2. ~Terminal(manifest.status)
      BY <1>3, <1>6, <2>2, <3>1 DEF EndIsSeen, Ends, Terminal, Resume, Loaded, At,
                                    IInv, CancelIsRequested, CancelStatus
    <3>3. mem[w].status = manifest.status
      BY <2>2, <3>1, <3>2 DEF IInv, WorkerKnowsStatus
    <3>4. manifest.status \in RunStatuses /\ manifest.status \notin CancelStatus
      BY <2>2 DEF IInv, TypeOK, Manifests, CancelIsRequested
    <3> QED
      BY <1>6, <3>1, <3>2, <3>3, <3>4 DEF Resume, StatusAt, FromR1, FromR1Gate,
         FromR2Packet,
         FromR2Gate, FromR3Cc, FromWaiting, FromMerging, RunStatuses, Stages, Terminal,
         CancelStatus
  <2> QED
    BY <1>1, <1>2, <1>3, <1>4, <2>1, <2>2 DEF EvidenceFits, FilesFit, StatusFits, DataFits,
       BehindR1, BehindR2, BehindCc, LoadOps
<1>7. ASSUME at[w] \in ActiveLocs, ok[w], ~cancelRequested
      PROVE  /\ ~Terminal(manifest.status) /\ mem[w].status = manifest.status
             /\ manifest.status \in StatusAt(at[w]) /\ runLock = w /\ mem[w] # NoManifest
             /\ at[w] \notin {"recover", "merge", "publish"} => mem[w].data = manifest.data
             /\ Evidence(manifest.status, manifest.data)
  <2>1. mem[w] # NoManifest
    BY <1>1, <1>7, AtPlace, NoneAssumption
  <2> QED
    BY <1>1, <1>3, <1>7, <2>1, AtPlace DEF DiskFits
<1> USE DEF FromR1, FromR1Gate, FromR2Packet, FromR2Gate, FromR3Cc, FromWaiting, FromMerging,
            ActiveLocs, BehindR1, BehindR2, BehindCc, FilesFit, StatusFits, DataFits,
            StatusAt
<1>8. CASE PreflightPasses(w)
  BY <1>1, <1>2, <1>3, <1>7, <1>8 DEF PreflightPasses, At, GoesOn, Only, To, LoadOps
<1>9. CASE LoadR1(w)
  BY <1>1, <1>2, <1>3, <1>7, <1>9 DEF LoadR1, At, GoesOn, Only, To, LoadOps, QuietLocs,
     Evidence
<1>10. CASE PassR1Gate(w)
  BY <1>1, <1>2, <1>3, <1>7, <1>10 DEF PassR1Gate, At, GoesOn, Only, To, LoadOps,
     QuietLocs, BeforeR1Gate
<1>11. CASE SkipR2(w)
  BY <1>1, <1>2, <1>3, <1>7, <1>11 DEF SkipR2, At, GoesOn, To, LoadOps
<1>12. CASE WriteR2Packet(w)
  BY <1>1, <1>2, <1>3, <1>7, <1>12 DEF WriteR2Packet, At, GoesOn, To, LoadOps
<1>13. CASE KeepR2Packet(w)
  BY <1>1, <1>2, <1>3, <1>7, <1>13 DEF KeepR2Packet, Contested, At, GoesOn, Only, To,
     LoadOps, Evidence, Stages
<1>14. CASE LoadR2(w)
  BY <1>1, <1>2, <1>3, <1>7, <1>14 DEF LoadR2, At, GoesOn, Only, To, LoadOps, QuietLocs
<1>15. CASE PassR2Gate(w)
  BY <1>1, <1>2, <1>3, <1>7, <1>15 DEF PassR2Gate, At, GoesOn, Only, To, LoadOps,
     QuietLocs, BeforeR1Gate, BeforeR2Gate
<1>16. CASE LoadCounterpart(w)
  BY <1>1, <1>2, <1>3, <1>7, <1>16 DEF LoadCounterpart, At, GoesOn, Only, To, LoadOps,
     Evidence, Stages
<1>17. CASE PublishRequest(w) \/ RunPrimary(w)
  BY <1>1, <1>2, <1>3, <1>7, <1>17 DEF PublishRequest, RunPrimary, SubmissionIs, At,
     GoesOn, Only, To, LoadOps, QuietLocs
<1>18. CASE WriteResponse(w)
  BY <1>1, <1>2, <1>3, <1>7, <1>18 DEF WriteResponse, At, GoesOn, To, LoadOps, QuietLocs
<1>19. CASE LoadSubmission(w)
  <2>1. manifest.data \in Nat
    BY DEF IInv, TypeOK, Manifests
  <2> QED
    BY <1>1, <1>2, <1>3, <1>7, <1>19, <2>1 DEF LoadSubmission, At, GoesOn, Only, To,
       LoadOps, QuietLocs, Evidence
<1>20. CASE PhaseAccepted(w)
  BY <1>1, <1>2, <1>3, <1>7, <1>20 DEF PhaseAccepted, Phases, InPhase, At, GoesOn, To,
     LoadOps
<1> QED
  BY <1>4, <1>5, <1>6, <1>8, <1>9, <1>10, <1>11, <1>12, <1>13, <1>14, <1>15, <1>16, <1>17,
     <1>18, <1>19, <1>20 DEF Walks

\* The files advance() leaves behind are those the manifest rests on.
LEMMA WalkDisk ==
    ASSUME IInv, ClientInv, EvidenceInv, NEW w \in Proc, Walks(w)
    PROVE  DiskFits' /\ (artifacts' = artifacts \/ runLock = w)
<1>1. UNCHANGED <<manifest, cancelRequested>> /\ op[w] = "none"
  BY WalksTo DEF vars, disk
<1>2. FilesFit(w) /\ DiskFits /\ LockFits(w) /\ DataFits(w) /\ (at[w] \in QuietLocs => ok[w])
  BY DEF EvidenceInv, EvidenceFits, ClientInv, ClientFits, OpFits
<1>3. CASE artifacts' = artifacts
  BY <1>1, <1>2, <1>3 DEF DiskFits, Evidence
<1>4. ASSUME at[w] \in ActiveLocs, ok[w], ~cancelRequested
      PROVE  /\ manifest.status \in StatusAt(at[w])
             /\ at[w] \notin {"recover", "merge", "publish"} => mem[w].data = manifest.data
             /\ Evidence(manifest.status, manifest.data)
  BY <1>1, <1>2, <1>4, AtPlace DEF DiskFits
<1> USE DEF FromR1, FromR1Gate, FromR2Packet, FromR2Gate, FromR3Cc, FromWaiting, FromMerging,
            ActiveLocs, FilesFit, StatusAt, DiskFits, Evidence, LockFits, HeldLocs
<1>5. CASE SkipR2(w)
  BY <1>1, <1>2, <1>4, <1>5 DEF SkipR2, At, GoesOn
<1>6. CASE WriteR2Packet(w)
  BY <1>1, <1>2, <1>4, <1>6 DEF WriteR2Packet, At, GoesOn
<1>7. CASE PublishRequest(w)
  BY <1>1, <1>2, <1>4, <1>7 DEF PublishRequest, SubmissionIs, At, QuietLocs, Challenged
<1>8. CASE WriteResponse(w)
  BY <1>1, <1>2, <1>4, <1>8 DEF WriteResponse, At, QuietLocs
<1>9. CASE PhaseAccepted(w)
  <2>1. /\ at[w] \in {"r1run", "r2run", "ccrun"} /\ ok[w] /\ ~cancelRequested
        /\ \/ at[w] = "r1run" /\ artifacts' = artifacts \cup {"R1"}
           \/ at[w] = "r1run" /\ artifacts' = artifacts \cup {"R1", "contested"}
           \/ at[w] = "r2run" /\ artifacts' = artifacts \cup {"R2"}
           \/ at[w] = "ccrun" /\ artifacts' = artifacts \cup {"cc"}
    BY <1>9 DEF PhaseAccepted, Phases, InPhase, GoesOn
  <2>2. /\ runLock = w /\ manifest.status \in StatusAt(at[w])
        /\ Evidence(manifest.status, manifest.data)
    BY <1>2, <1>4, <2>1
  <2> QED
    BY <1>1, <1>2, <2>1, <2>2
<1>10. ~(\/ SkipR2(w) \/ WriteR2Packet(w) \/ PublishRequest(w)
         \/ WriteResponse(w) \/ PhaseAccepted(w))
       => artifacts' = artifacts
  BY DEF Walks, AlreadyTerminal, Resume, PreflightPasses, LoadR1, PassR1Gate, KeepR2Packet,
     LoadR2,
     PassR2Gate, LoadCounterpart, RunPrimary, LoadSubmission, Cancelled, RecordGivesUp,
     RecordNothing, Only
<1> QED
  BY <1>3, <1>5, <1>6, <1>7, <1>8, <1>9, <1>10

\* What advance() asks for rests on its evidence (PlanFits), and fits the
\* place it goes to.
LEMMA AskEvidence ==
    ASSUME IInv, ClientInv, EvidenceInv, NEW w \in Proc, Asks(w)
    PROVE  EvidenceFits(w)'
<1>1. /\ UNCHANGED <<artifacts, manifest, cancelRequested, runLock, mem, ok>>
      /\ at \in [Proc -> Places] /\ want \in [Proc -> RunStatuses \cup {"none"}]
      /\ op \in [Proc -> Ops] /\ op' = [op EXCEPT ![w] = "exists"] /\ manifestLock' = w
      /\ manifest \in Manifests /\ mem[w] \in Manifests
  BY AsksFor DEF Transition, Goto, disk, IInv, TypeOK, MaybeManifest, ClientInv,
     SchedTypeOK,
                 Places
<1>2. /\ FilesFit(w) /\ DataFits(w) /\ DiskFits /\ LockFits(w) /\ EndIsSeen(w)
      /\ at[w] \in QuietLocs \cup {"publish"} => ok[w]
  BY DEF EvidenceInv, EvidenceFits, ClientInv, ClientFits, OpFits
<1>3. FilesFit(w)'
  <2> USE DEF FilesFit, BehindR1, BehindR2, BehindCc, Request, To
  <2>1. CASE RunR1(w) \/ R1Gate(w) \/ R2Packet(w)
    BY <1>1, <1>2, <2>1 DEF RunR1, R1Gate, R2Packet, Contested, At
  <2>2. CASE RunR2(w) \/ R2Gate(w) \/ RunCounterpart(w)
    BY <1>1, <1>2, <2>2 DEF RunR2, R2Gate, RunCounterpart, At
  <2>3. CASE Merge(w)
    BY <1>1, <1>2, <2>3 DEF Merge, At
  <2>4. CASE ~(\/ RunR1(w) \/ R1Gate(w) \/ R2Packet(w) \/ RunR2(w) \/ R2Gate(w)
               \/ RunCounterpart(w) \/ Merge(w))
    <3>1. \E loc \in {"exit", "preflight", "finalized", "recordExit"} :
             at' = [at EXCEPT ![w] = loc]
      BY <2>4 DEF Asks, IntegrityDrift, Preflight, PreflightFails, AwaitPrimary,
         RecoverWaits,
         PhaseFailed, RecordFailure, ArbiterCancelled, FinalizeCancelled, Complete
    <3> QED
      BY <1>1, <3>1
  <2> QED
    BY <2>1, <2>2, <2>3, <2>4
<1>4. CASE cancelRequested
  BY <1>1, <1>3, <1>4 DEF EvidenceFits, PlanFits, StatusFits, DataFits
<1> SUFFICES ASSUME ~cancelRequested
             PROVE  PlanFits(w)' /\ StatusFits(w)' /\ DataFits(w)'
  BY <1>3, <1>4 DEF EvidenceFits
<1> DEFINE Rests(s) == /\ TransitionAllowed(manifest.status, s)
                       /\ Evidence(s, mem[w].data)
                       /\ "request" \in artifacts => mem[w].data >= Challenged
           Sound(s, loc) ==
             /\ Request(w, s, loc) /\ Rests(s)
             /\ \/ loc \in {"exit", "finalized"}
                \/ loc = "recordExit" /\ mem[w].data = manifest.data
                \/ /\ loc \in (RequestLocs \cap ActiveLocs) \ {"merge"} /\ s \in StatusAt(loc)
                   /\ mem[w].data = manifest.data
                \/ /\ loc = "merge" /\ s \in StatusAt(loc)
                   /\ mem[w].data = Accepted /\ "response" \in artifacts
<1>5. ASSUME NEW s, NEW loc, Sound(s, loc)
      PROVE  PlanFits(w)' /\ StatusFits(w)' /\ DataFits(w)'
  <2>1. want'[w] = s /\ at'[w] = loc /\ op'[w] = "exists"
    BY <1>1, <1>5 DEF Request, Transition, To
  <2>2. PlanFits(w)'
    BY <1>1, <1>5, <2>1 DEF PlanFits, Evidence
  <2>3. StatusFits(w)'
    BY <1>1, <1>5, <2>1 DEF StatusFits, ActiveLocs
  <2>4. DataFits(w)'
    BY <1>1, <1>5, <2>1 DEF DataFits, RequestLocs
  <2> QED
    BY <2>2, <2>3, <2>4
<1>6. ASSUME at[w] \in ActiveLocs, op[w] \in {"none", "published"}, ok[w]
      PROVE  /\ ~Terminal(manifest.status) /\ mem[w].status = manifest.status
             /\ manifest.status \in StatusAt(at[w]) /\ runLock = w
             /\ at[w] \notin {"recover", "merge", "publish"} => mem[w].data = manifest.data
             /\ at[w] = "recover" => mem[w].data >= manifest.data
             /\ at[w] \in {"merge", "publish"} => mem[w].data = Accepted /\ "response" \in artifacts
             /\ Evidence(manifest.status, manifest.data)
             /\ mem[w].data = Accepted => "response" \in artifacts
             /\ "request" \in artifacts => mem[w].data >= Challenged
  <2>1. /\ ~Terminal(manifest.status) /\ mem[w].status = manifest.status
        /\ manifest.status \in StatusAt(at[w]) /\ runLock = w
        /\ at[w] \notin {"recover", "merge", "publish"} => mem[w].data = manifest.data
    BY <1>6, AtPlace
  <2>2. /\ at[w] = "recover" => mem[w].data >= manifest.data
        /\ at[w] \in {"merge", "publish"} => mem[w].data = Accepted /\ "response" \in artifacts
        /\ at[w] = "recover" /\ mem[w].data = Accepted => "response" \in artifacts
    BY <1>2, <2>1 DEF DataFits
  <2>3. /\ Evidence(manifest.status, manifest.data)
        /\ "request" \in artifacts => manifest.data >= Challenged
    BY <1>2 DEF DiskFits
  <2>4. manifest.data \in Nat /\ mem[w].data \in Nat
    BY <1>1 DEF Manifests
  <2> QED
    BY <2>1, <2>2, <2>3, <2>4 DEF Challenged, Accepted, Evidence
<1>7. ASSUME at[w] \in {"loaded", "recordLoaded"}, op[w] = "none", ok[w],
             ~Terminal(mem[w].status)
      PROVE  /\ ~Terminal(manifest.status) /\ mem[w].status = manifest.status
             /\ mem[w].data = manifest.data
             /\ Evidence(manifest.status, manifest.data)
             /\ "request" \in artifacts => mem[w].data >= Challenged
  <2>1. runLock = w /\ mem[w] # NoManifest
    BY <1>1, <1>2, <1>7, NoneAssumption DEF LockFits, HeldLocs
  <2>2. ~Terminal(manifest.status)
    BY <1>2, <1>7 DEF EndIsSeen, Ends, Terminal, IInv, CancelIsRequested, CancelStatus
  <2>3. mem[w].status = manifest.status /\ mem[w].data = manifest.data
    BY <1>2, <1>7, <2>1, <2>2 DEF DataFits, IInv, WorkerKnowsStatus
  <2> QED
    BY <1>2, <2>2, <2>3 DEF DiskFits
<1>8. \E s, loc : Sound(s, loc)
  <2> USE DEF StatusAt, Evidence, FromR1, FromR1Gate, FromR2Packet, FromR2Gate, FromR3Cc,
              FromWaiting, FromMerging, ActiveLocs, RequestLocs, FilesFit, BehindR1,
              BehindR2,
              BehindCc, Stages, PublicStatus
  <2>1. ASSUME NEW s \in {"Failed", "FailedPolicy"}, ~Terminal(manifest.status),
               mem[w].data = Accepted => "response" \in artifacts,
               "request" \in artifacts => mem[w].data >= Challenged
        PROVE  Rests(s)
    BY <2>1 DEF TransitionAllowed, AbortStatus, Terminal
  <2>2. CASE IntegrityDrift(w) \/ RecordFailure(w)
    <3>1. PICK s \in {"Failed", "FailedPolicy"}, loc \in {"exit", "recordExit"} :
                  Request(w, s, loc)
      BY <2>2 DEF IntegrityDrift, RecordFailure
    <3>2. Rests(s) /\ mem[w].data = manifest.data
      BY <1>7, <2>1, <2>2 DEF IntegrityDrift, RecordFailure, Loaded, At, Settled
    <3>3. Sound(s, loc)
      BY <3>1, <3>2
    <3> QED
      BY <3>3
  <2>3. CASE PreflightFails(w) \/ PhaseFailed(w)
    <3>1. PICK s \in {"Failed", "FailedPolicy"} : Request(w, s, "exit")
      BY <2>3 DEF PreflightFails, PhaseFailed
    <3>2. Rests(s)
      BY <1>6, <2>1, <2>3 DEF PreflightFails, PhaseFailed, InPhase, PhaseLocs, GoesOn, At
    <3>3. Sound(s, "exit")
      BY <3>1, <3>2
    <3> QED
      BY <3>3
  <2>4. CASE Preflight(w)
    <3>1. Rests("Preflight")
      BY <1>7, <2>4 DEF Preflight, Loaded, At, Terminal, TerminalStatus, TransitionAllowed,
         StageEdges
    <3>2. Sound("Preflight", "preflight")
      BY <1>7, <2>4, <3>1 DEF Preflight, Loaded, At, Terminal, TerminalStatus
    <3> QED
      BY <3>2
  <2>5. CASE RunR1(w)
    <3>1. Rests("R1Running")
      BY <1>2, <1>6, <2>5 DEF RunR1, At, QuietLocs, TransitionAllowed, StageEdges
    <3>2. Sound("R1Running", "r1run")
      BY <1>2, <1>6, <2>5, <3>1 DEF RunR1, At, QuietLocs
    <3> QED
      BY <3>2
  <2>6. CASE R1Gate(w)
    <3>1. Rests("R1Gate")
      BY <1>2, <1>6, <2>6 DEF R1Gate, At, QuietLocs, BeforeR1Gate, TransitionAllowed,
         StageEdges
    <3>2. Sound("R1Gate", "contest")
      BY <1>2, <1>6, <2>6, <3>1 DEF R1Gate, At, QuietLocs
    <3> QED
      BY <3>2
  <2>7. CASE R2Packet(w)
    <3>1. Rests("R2Packet")
      BY <1>2, <1>6, <2>7 DEF R2Packet, Contested, At, GoesOn, TransitionAllowed,
         StageEdges, DiskFits
    <3>2. Sound("R2Packet", "packet")
      BY <1>2, <1>6, <2>7, <3>1 DEF R2Packet, Contested, At, GoesOn
    <3> QED
      BY <3>2
  <2>8. CASE RunR2(w)
    <3>1. Rests("R2Running")
      BY <1>2, <1>6, <2>8 DEF RunR2, At, QuietLocs, TransitionAllowed, StageEdges
    <3>2. Sound("R2Running", "r2run")
      BY <1>2, <1>6, <2>8, <3>1 DEF RunR2, At, QuietLocs
    <3> QED
      BY <3>2
  <2>9. CASE R2Gate(w)
    <3>1. Rests("R2Gate")
      BY <1>2, <1>6, <2>9 DEF R2Gate, At, QuietLocs, BeforeR1Gate, BeforeR2Gate,
                              TransitionAllowed, StageEdges
    <3>2. Sound("R2Gate", "r3")
      BY <1>2, <1>6, <2>9, <3>1 DEF R2Gate, At, QuietLocs
    <3> QED
      BY <3>2
  <2>10. CASE RunCounterpart(w)
    <3>1. Rests("R3Cc")
      BY <1>2, <1>6, <2>10 DEF RunCounterpart, At, GoesOn, TransitionAllowed, StageEdges
    <3>2. Sound("R3Cc", "ccrun")
      BY <1>2, <1>6, <2>10, <3>1 DEF RunCounterpart, At, GoesOn
    <3> QED
      BY <3>2
  <2>11. CASE AwaitPrimary(w) \/ RecoverWaits(w)
    <3>1. mem[w].data \in {Challenged, Staged} /\ manifest.data <= mem[w].data
      BY <1>1, <1>2, <1>6, <2>11 DEF AwaitPrimary, RecoverWaits, At, QuietLocs, DataFits,
         Manifests
    <3>2. Rests("WaitingPrimaryArbiter")
      BY <1>1, <1>2, <1>6, <2>11, <3>1 DEF AwaitPrimary, RecoverWaits, At, QuietLocs,
         TransitionAllowed, StageEdges, Manifests, Challenged, Staged, Accepted
    <3>3. Sound("WaitingPrimaryArbiter", "exit")
      BY <2>11, <3>2 DEF AwaitPrimary, RecoverWaits
    <3> QED
      BY <3>3
  <2>12. CASE Merge(w)
    <3>1. Rests("Merging")
      BY <1>2, <1>6, <2>12 DEF Merge, At, QuietLocs, TransitionAllowed, StageEdges
    <3>2. Sound("Merging", "merge")
      BY <1>2, <1>6, <2>12, <3>1 DEF Merge, At, QuietLocs
    <3> QED
      BY <3>2
  <2>13. CASE Complete(w)
    <3>1. Rests("Completed")
      BY <1>2, <1>6, <2>13 DEF Complete, TransitionAllowed, StageEdges
    <3>2. Sound("Completed", "finalized")
      BY <2>13, <3>1 DEF Complete
    <3> QED
      BY <3>2
  <2>14. ~(ArbiterCancelled(w) \/ FinalizeCancelled(w))
    BY DEF ArbiterCancelled, FinalizeCancelled
  <2> QED
    BY <2>2, <2>3, <2>4, <2>5, <2>6, <2>7, <2>8, <2>9, <2>10, <2>11, <2>12, <2>13,
       <2>14 DEF Asks
<1> QED
  BY <1>5, <1>8

\* A command that does not hold the run lock touches nothing it would need it for.
LEMMA FreeEvidence ==
    ASSUME IInv', ClientInv', NEW p \in Proc, at'[p] \notin HeldLocs
    PROVE  EvidenceFits(p)'
<1>1. runLock' # p
  BY DEF ClientInv, ClientFits, LockFits
<1>2. PlanFits(p)'
  BY <1>1 DEF IInv, RunLockHeld, PlanFits
<1>3. FilesFit(p)' /\ StatusFits(p)' /\ DataFits(p)'
  BY <1>1 DEF FilesFit, StatusFits, DataFits, HeldLocs, ActiveLocs, BehindR1, BehindR2,
     BehindCc
<1> QED
  BY <1>2, <1>3 DEF EvidenceFits

\* What moves neither the manifest nor a file leaves the one resting on the other.
LEMMA DiskStays ==
    ASSUME IInv, EvidenceInv, NEW p \in Proc, StoreMove(p),
           UNCHANGED <<manifest, artifacts>>
    PROVE  DiskFits'
<1>1. DiskFits /\ (cancelRequested => cancelRequested')
  BY MoveOfStatus DEF EvidenceInv
<1> QED
  BY <1>1 DEF DiskFits, Evidence

\* advance() begins, or loads the manifest.
LEMMA EnterEvidence ==
    ASSUME IInv, ClientInv, EvidenceInv, NEW p \in Proc, NEW loc,
           UNCHANGED artifacts, at' = [at EXCEPT ![p] = loc],
           \/ TakeRunLock(p) /\ loc \in {"reconcile", "recordLoad"}
           \/ Load(p) /\ at[p] = "reconcile" /\ loc = "loaded"
           \/ Load(p) /\ at[p] = "recordLoad" /\ loc = "recordLoaded"
    PROVE  EvidenceFits(p)' /\ UNCHANGED manifest
<1>1. /\ UNCHANGED <<manifest, cancelRequested, want, manifestLock>>
      /\ at'[p] = loc /\ want[p] = "none" /\ manifestLock # p
  BY Between DEF TakeRunLock, Load, disk, locks, ClientInv, SchedTypeOK
<1>2. FilesFit(p)' /\ PlanFits(p)' /\ StatusFits(p)'
  BY <1>1 DEF FilesFit, PlanFits, StatusFits, ActiveLocs, BehindR1, BehindR2, BehindCc
<1>3. CASE TakeRunLock(p)
  <2>1. mem'[p] = NoManifest /\ op'[p] = "none"
    BY <1>3 DEF TakeRunLock, IInv, TypeOK
  <2> QED
    BY <1>1, <1>2, <1>3, <2>1 DEF EvidenceFits, DataFits, LoadOps
<1>4. CASE Load(p) /\ ~TakeRunLock(p)
  <2>1. UNCHANGED <<mem, runLock>> /\ cur'[p] = manifest
    BY <1>4 DEF Load, locks, IInv, TypeOK
  <2>2. DataFits(p)'
    BY <1>1, <1>4, <2>1 DEF DataFits, EvidenceInv, EvidenceFits
  <2> QED
    BY <1>1, <1>2, <2>2 DEF EvidenceFits
<1> QED
  BY <1>3, <1>4

\* advance() changes its manifest, and saves what the next session rests on.
LEMMA EditEvidence ==
    ASSUME IInv, ClientInv, EvidenceInv, NEW w \in Proc,
           CreateChallenge(w) \/ StageResponse(w) \/ AcceptResponse(w) \/ RecoverAccepts(w)
    PROVE  EvidenceFits(w)' /\ DiskFits'
<1>1. /\ op[w] = "none" /\ want[w] = "none" /\ manifestLock # w
      /\ UNCHANGED <<op, ok, want, cur, runLock, manifestLock, cancelRequested, artifacts>>
      /\ mem' = [mem EXCEPT ![w] = Edited(mem[w])]
      /\ at[w] \in {"arbiter", "parun", "accepting", "recover"}
  BY Between DEF CreateChallenge, StageResponse, AcceptResponse, RecoverAccepts,
     SubmissionIs,
     InPhase, At, Persist, EditManifest, SaveManifest, schedVars, locks, disk
<1>2. FilesFit(w) /\ DataFits(w) /\ DiskFits /\ ok[w]
  BY <1>1 DEF EvidenceInv, EvidenceFits, ClientInv, ClientFits, OpFits, QuietLocs
<1>3. /\ at[w] = "arbiter" => at'[w] = "arbiter" /\ mem[w].data = 0
      /\ at[w] = "parun" => at'[w] = "staged"
      /\ at[w] = "accepting" => at'[w] = "recover"
      /\ at[w] = "recover" => /\ at'[w] = "recover" /\ mem[w].data = Staged
                              /\ "response" \in artifacts /\ UNCHANGED manifest
      /\ at[w] # "recover" => SaveManifest(w)
  BY <1>1 DEF CreateChallenge, StageResponse, AcceptResponse, RecoverAccepts, SubmissionIs,
     At,
     InPhase, PhaseLocs, Persist, To, EditManifest, ResponseFound, schedVars, disk,
     ClientInv, SchedTypeOK
<1>4. PlanFits(w)' /\ FilesFit(w)'
  BY <1>1, <1>2, <1>3 DEF PlanFits, FilesFit, BehindR1, BehindR2, BehindCc
<1>5. CASE cancelRequested
  BY <1>1, <1>2, <1>4, <1>5 DEF EvidenceFits, StatusFits, DataFits, DiskFits
<1> SUFFICES ASSUME ~cancelRequested
             PROVE  StatusFits(w)' /\ DataFits(w)' /\ DiskFits'
  BY <1>4, <1>5 DEF EvidenceFits
<1>6. /\ runLock = w /\ mem[w] \in Manifests /\ manifest \in Manifests
      /\ ~Terminal(manifest.status) /\ mem[w].status = manifest.status
      /\ manifest.status \in FromR3Cc
      /\ at[w] # "recover" => mem[w].data = manifest.data
  BY <1>1, <1>2, AtPlace DEF ActiveLocs, StatusAt
<1>7. /\ Edited(mem[w]) \in Manifests /\ Edited(mem[w]).status = mem[w].status
      /\ Edited(mem[w]).data \in {mem[w].data, mem[w].data + 1}
      /\ mem'[w] = Edited(mem[w])
  <2>1. Edited(mem[w]).data \in {mem[w].data, mem[w].data + 1}
    BY <1>6 DEF Edited, Manifests
  <2>2. mem'[w] = Edited(mem[w])
    BY <1>1 DEF IInv, TypeOK
  <2> QED
    BY <1>6, <2>1, <2>2, EditedFacts
<1>8. at[w] # "recover" => manifest' = Edited(mem[w])
  <2>1. ~SaveSkipped
    BY <1>6 DEF SaveSkipped, IInv, CancelIsRequested, CancelStatus
  <2> QED
    BY <1>3, <2>1 DEF SaveManifest
<1>9. manifest'.status = manifest.status
  BY <1>3, <1>6, <1>7, <1>8
<1>10. StatusFits(w)'
  BY <1>1, <1>3, <1>6, <1>9 DEF StatusFits, StatusAt
<1>11. manifest.data \in Nat /\ mem[w].data \in Nat
  BY <1>6 DEF Manifests
<1>12. DataFits(w)'
  BY <1>1, <1>2, <1>3, <1>6, <1>7, <1>8, <1>11
     DEF DataFits, FilesFit, LoadOps, Challenged, Staged, Accepted
<1>13. DiskFits'
  <2>1. Evidence(manifest.status, manifest.data)
    BY <1>2 DEF DiskFits
  <2>2. CASE at[w] = "recover"
    BY <1>1, <1>2, <1>3, <2>2 DEF DiskFits, Evidence
  <2>3. CASE at[w] # "recover"
    <3>1. /\ mem[w].data # Accepted
          /\ manifest'.data \in {mem[w].data, mem[w].data + 1}
          /\ manifest'.data = Accepted => at[w] = "accepting"
      BY <1>1, <1>2, <1>3, <1>6, <1>7, <1>8, <1>11, <2>3
         DEF DataFits, Challenged, Staged, Accepted
    <3>2. manifest.status \notin FromMerging \cup PublicStatus
      BY <1>6, <2>1, <2>3, <3>1 DEF Evidence
    <3>3. manifest'.data = Accepted => "response" \in artifacts
      BY <1>2, <3>1 DEF FilesFit
    <3>4. "request" \in artifacts => manifest'.data >= Challenged
      BY <1>2, <1>6, <1>11, <2>3, <3>1 DEF DiskFits, Challenged
    <3> QED
      BY <1>1, <1>2, <1>9, <2>1, <3>2, <3>3, <3>4 DEF DiskFits, Evidence
  <2> QED
    BY <2>2, <2>3
<1> QED
  BY <1>10, <1>12, <1>13

\* advance() takes the finalization guard, writes the result, and registers or
\* removes children: the status stays, and so do the files.
LEMMA GuardEvidence ==
    ASSUME IInv, ClientInv, EvidenceInv, NEW p \in Proc, UNCHANGED artifacts,
           \/ /\ BeginFinalization(p) /\ at[p] = "merge" /\ ok[p]
              /\ at' = [at EXCEPT ![p] = "publish"]
           \/ WriteResult(p) /\ at[p] = "publish" /\ UNCHANGED at
           \/ EndFinalization(p) /\ at' = [at EXCEPT ![p] = "exit"]
           \/ BeginRegistration(p) /\ ok[p] /\ UNCHANGED at
           \/ \E l \in Lane : RegisterProcess(p, l) /\ UNCHANGED at
           \/ \E l \in Lane : UnregisterProcess(p, l) /\ UNCHANGED at
    PROVE  EvidenceFits(p)' /\ UNCHANGED manifest
<1>1. FilesFit(p) /\ StatusFits(p) /\ DataFits(p)
  BY DEF EvidenceInv, EvidenceFits
<1>2. /\ UNCHANGED <<manifest, cancelRequested, runLock, manifestLock, want, mem, ok>>
      /\ op[p] \in {"none", "publish", "spawn"} /\ (op[p] = op'[p] \/ op[p] # "none" \/ ok[p])
      /\ op'[p] \in {"none", "publish", "published", "spawn"}
      /\ at'[p] \in {at[p], "exit"} \/ (at[p] = "merge" /\ at'[p] = "publish")
  BY DEF IInv, TypeOK, ClientInv, SchedTypeOK, BeginFinalization, WriteResult,
     EndFinalization,
         BeginRegistration, RegisterProcess, UnregisterProcess, Goto, disk, locks, local
<1>3. manifestLock # p /\ want[p] = "none"
  BY <1>2 DEF IInv, ManifestLockHeld, LoadOps, TransitionOps
<1>4. PlanFits(p)' /\ FilesFit(p)' /\ DataFits(p)'
  BY <1>1, <1>2, <1>3 DEF PlanFits, FilesFit, DataFits, LoadOps, BehindR1, BehindR2,
     BehindCc
<1>5. StatusFits(p)'
  BY <1>1, <1>2, <1>3 DEF StatusFits, ActiveLocs, StatusAt
<1> QED
  BY <1>2, <1>4, <1>5 DEF EvidenceFits

\* A load or a transition of advance() goes on.
LEMMA StoreEvidence ==
    ASSUME IInv, ClientInv, EvidenceInv, NEW p \in Proc, UNCHANGED <<at, artifacts>>,
           LoadStep(p) \/ TransitionStep(p)
    PROVE  EvidenceFits(p)' /\ DiskFits'
<1>1. /\ FilesFit(p) /\ PlanFits(p) /\ StatusFits(p) /\ DataFits(p) /\ DiskFits
      /\ OpFits(p) /\ LockFits(p) /\ NotEnded(p) /\ ManifestKnown(p)
  BY DEF EvidenceInv, EvidenceFits, ClientInv, ClientFits
<1>2. StoreMove(p)
  BY DEF StoreMove
<1>3. FilesFit(p)'
  BY <1>1 DEF FilesFit
<1>4. UNCHANGED <<cancelRequested, runLock>>
  BY LoadStepIs, TransitionStepIs
<1>5. CASE cancelRequested
  BY <1>1, <1>3, <1>4, <1>5 DEF EvidenceFits, PlanFits, StatusFits, DataFits, DiskFits
<1> SUFFICES ASSUME ~cancelRequested
             PROVE  PlanFits(p)' /\ StatusFits(p)' /\ DataFits(p)' /\ DiskFits'
  BY <1>3, <1>5 DEF EvidenceFits
<1>6. CASE LoadStep(p)
  <2>1. DiskFits'
    BY <1>2, <1>6, DiskStays, LoadStepIs
  <2>2. at[p] \in LoadingLocs \/ (at[p] \in RequestLocs /\ manifestLock = p)
    BY <1>1, <1>6, LoadStepIs DEF OpFits
  <2>3. PlanFits(p)'
    BY <1>1, <1>4, <1>6, LoadStepIs DEF PlanFits, Evidence, LoadOps
  <2>4. StatusFits(p)'
    BY <1>1, <1>4, <1>6, <2>2, LoadStepIs DEF StatusFits, LoadingLocs, ActiveLocs, LoadOps
  <2>5. DataFits(p)'
    BY <1>1, <1>4, <1>6, <2>2, LoadStepIs DEF DataFits, LoadingLocs, RequestLocs, LoadOps
  <2> QED
    BY <2>1, <2>3, <2>4, <2>5
<1>7. CASE TransitionStep(p)
  <2>1. at[p] \in RequestLocs /\ want[p] # "none" /\ op[p] \in TransitionOps
    BY <1>1, <1>7, TransitionStepIs DEF OpFits, IInv, ManifestLockHeld
  <2>2. at[p] \in ActiveLocs => ~Terminal(manifest.status)
    BY <1>1 DEF NotEnded, Ends, Terminal, IInv, CancelIsRequested, CancelStatus
  <2>3. CASE op[p] # "save"
    <3>1. UNCHANGED manifest
      BY <1>7, <2>3, TransitionStepIs
    <3>2. DiskFits'
      BY <1>2, <3>1, DiskStays
    <3>3. PlanFits(p)'
      BY <1>1, <1>4, <1>7, <2>1, <2>3, TransitionStepIs
         DEF PlanFits, Evidence, LoadOps, TransitionOps, CancelStatus
    <3>4. StatusFits(p)'
      BY <1>1, <1>4, <1>7, <2>1, <2>2, <2>3, TransitionStepIs
         DEF StatusFits, TransitionOps, CancelStatus
    <3>5. DataFits(p)'
      BY <1>1, <1>4, <1>7, <2>1, <2>3, TransitionStepIs
         DEF DataFits, LoadOps, TransitionOps, RequestLocs
    <3> QED
      BY <3>2, <3>3, <3>4, <3>5
  <2>4. CASE op[p] = "save"
    <3>1. want[p] \notin CancelStatus
      BY DEF IInv, CancelIsRequested
    <3>2. /\ op'[p] = "append" /\ ok'[p] = ok[p] /\ want'[p] = want[p] /\ mem'[p] = manifest'
          /\ manifest'.status = want[p] /\ manifest'.data = mem[p].data
          /\ UNCHANGED manifestLock /\ manifestLock = p
      BY <1>7, <2>4, <3>1, TransitionStepIs
    <3>3. runLock = p /\ mem[p] # NoManifest /\ ~Terminal(manifest.status)
      BY <2>4, <3>1, <3>2 DEF IInv, RunLockHeld, WriteIsAllowed
    <3>4. DiskFits'
      BY <1>1, <1>4, <2>4, <3>1, <3>2 DEF PlanFits, DiskFits, Evidence
    <3>5. PlanFits(p)' /\ StatusFits(p)'
      BY <1>1, <1>4, <2>1, <3>1, <3>2 DEF PlanFits, StatusFits, LoadOps
    <3>6. DataFits(p)'
      BY <1>1, <1>4, <2>1, <3>2, <3>3 DEF DataFits, LoadOps, RequestLocs
    <3> QED
      BY <3>4, <3>5, <3>6
  <2> QED
    BY <2>3, <2>4
<1> QED
  BY <1>6, <1>7

\* A step of advance().
LEMMA AdvanceEvidence ==
    ASSUME IInv, ClientInv, EvidenceInv, IInv', ClientInv',
           NEW w \in Worker, BeginAdvance(w) \/ Advance(w)
    PROVE  EvidenceFits(w)' /\ DiskFits' /\ (artifacts' = artifacts \/ runLock = w)
<1>1. w \in Proc /\ StoreMove(w)
  BY AdvanceFits
<1>2. OpFits(w) /\ at \in [Proc -> Places]
  BY <1>1 DEF ClientInv, ClientFits, SchedTypeOK, Places
<1>3. CASE Walks(w)
  BY <1>1, <1>3, WalkEvidence, WalkDisk
<1>4. CASE Asks(w)
  <2>1. UNCHANGED <<manifest, artifacts>>
    BY <1>1, <1>4, AsksFor DEF Transition, disk
  <2> QED
    BY <1>1, <1>4, <2>1, AskEvidence, DiskStays
<1>5. CASE BeginAdvance(w) \/ RecordBegin(w) \/ BeginLoad(w) \/ RecordLoad(w)
  <2>1. EvidenceFits(w)' /\ UNCHANGED <<manifest, artifacts>>
    BY <1>1, <1>5, EnterEvidence DEF BeginAdvance, RecordBegin, BeginLoad, RecordLoad, At,
       To
  <2> QED
    BY <1>1, <2>1, DiskStays
<1>6. CASE ReconcileFails(w) \/ ReturnOk(w) \/ ReturnError(w) \/ RecordReturn(w)
  <2>1. /\ at'[w] \in {"record", "idle"} /\ UNCHANGED <<manifest, artifacts>>
    BY <1>1, <1>2, <1>6 DEF ReconcileFails, ReturnOk, ReturnError, RecordReturn,
       DropRunLock,
                            To, disk
  <2>2. EvidenceFits(w)'
    BY <1>1, <2>1, FreeEvidence DEF HeldLocs, ActiveLocs
  <2> QED
    BY <1>1, <2>1, <2>2, DiskStays
<1>7. CASE CreateChallenge(w) \/ StageResponse(w) \/ AcceptResponse(w) \/ RecoverAccepts(w)
  <2>1. UNCHANGED artifacts
    BY <1>7 DEF CreateChallenge, StageResponse, AcceptResponse, RecoverAccepts, schedVars
  <2> QED
    BY <1>1, <1>7, <2>1, EditEvidence
<1>8. CASE \/ Finalize(w) \/ PublishResult(w) \/ DropGuard(w) \/ ReconcileOrphan(w)
           \/ SpawnChild(w) \/ RegisterChild(w) \/ ReapChild(w)
  <2>1. UNCHANGED artifacts
    BY <1>8 DEF Finalize, PublishResult, DropGuard, ReconcileOrphan, SpawnChild,
       RegisterChild,
                ReapChild, schedVars
  <2>2. EvidenceFits(w)' /\ UNCHANGED manifest
    BY <1>1, <1>8, <2>1, GuardEvidence DEF Finalize, PublishResult, DropGuard,
       ReconcileOrphan,
       SpawnChild, RegisterChild, ReapChild, InPhase, GoesOn, At, To, schedVars
  <2> QED
    BY <1>1, <2>1, <2>2, DiskStays
<1> QED
  BY <1>3, <1>4, <1>5, <1>6, <1>7, <1>8 DEF Advance, Lanes, Walks, Asks

\* A step of cancel(), or of a command that only loads.
LEMMA FreeStepEvidence ==
    ASSUME IInv, ClientInv, EvidenceInv, IInv', ClientInv', NEW p \in Proc,
           (p \in Canceller /\ Cancel(p)) \/ (p \in Reader /\ Read(p))
    PROVE  EvidenceFits(p)' /\ DiskFits' /\ artifacts' = artifacts
<1>1. StoreMove(p) /\ at \in [Proc -> Places]
  BY CancelStepFits, ReadFits DEF ClientInv, SchedTypeOK, Places
<1>2. UNCHANGED <<manifest, artifacts>>
  BY DEF Cancel, Read, CancelLoad, CancelRequest, CancelTooLate, CancelReload, CancelMark,
     CancelChildren, CancelFinish, CancelReturns, CancelFails, ReaderLoad, ReaderReturns,
     ReaderFails, Request, Only, Load, RequestCancellation, RequestCancellationTooLate,
     Transition, Leave, vars, disk
<1>3. at'[p] \in FreeLocs
  BY <1>1 DEF Cancel, Read, CancelLoad, CancelRequest, CancelTooLate, CancelReload,
     CancelMark,
     CancelChildren, CancelFinish, CancelReturns, CancelFails, ReaderLoad, ReaderReturns,
     ReaderFails, Request, Only, To, FreeLocs
<1>4. EvidenceFits(p)'
  BY <1>3, FreeEvidence DEF FreeLocs, HeldLocs, ActiveLocs
<1> QED
  BY <1>1, <1>2, <1>4, DiskStays

\* A step of a store operation, and a kill.
LEMMA StoreStepEvidence ==
    ASSUME IInv, ClientInv, EvidenceInv, IInv', ClientInv', NEW p \in Proc,
           StoreStep(p) \/ Kill(p)
    PROVE  EvidenceFits(p)' /\ DiskFits' /\ artifacts' = artifacts
<1>1. StoreMove(p) /\ at \in [Proc -> Places] /\ OpFits(p)
  BY StoreStepFits DEF ClientInv, ClientFits, SchedTypeOK, Places
<1>2. CASE StoreStep(p) /\ (LoadStep(p) \/ TransitionStep(p))
  BY <1>2, StoreEvidence DEF StoreStep, schedVars
<1>3. CASE StoreStep(p) /\ CancellationStep(p)
  <2>1. UNCHANGED <<manifest, artifacts>> /\ at'[p] = "requested"
    BY <1>1, <1>3 DEF StoreStep, schedVars, CancellationStep, WriteCancelRequested,
                      CleanAndSnapshot, OpFits
  <2>2. EvidenceFits(p)'
    BY <2>1, FreeEvidence DEF HeldLocs, ActiveLocs
  <2> QED
    BY <1>1, <2>1, <2>2, DiskStays
<1>4. CASE Kill(p)
  <2>1. UNCHANGED <<manifest, artifacts>> /\ at'[p] \in {"failed", "idle"}
    BY <1>1, <1>4 DEF Kill, Crash, disk
  <2>2. EvidenceFits(p)'
    BY <2>1, FreeEvidence DEF HeldLocs, ActiveLocs
  <2> QED
    BY <1>1, <2>1, <2>2, DiskStays
<1> QED
  BY <1>2, <1>3, <1>4 DEF StoreStep

\* A status rests on its files, a file on the manifest, whatever the commands
\* do and in whatever order.
LEMMA EvidenceNextInv ==
    IInv /\ ClientInv /\ EvidenceInv /\ [SchedNext]_allVars => EvidenceInv'
<1> SUFFICES ASSUME IInv, ClientInv, EvidenceInv, [SchedNext]_allVars
             PROVE  EvidenceInv'
  OBVIOUS
<1>1. IInv' /\ ClientInv'
  BY StepIsStore, NextInv, ClientNextInv
<1>2. CASE SchedNext
  <2>1. PICK p \in Proc : /\ EvidenceFits(p)' /\ DiskFits' /\ StoreMove(p) /\ GoesTo(p)
                          /\ artifacts' = artifacts \/ runLock = p
    <3>1. ASSUME NEW w \in Worker, BeginAdvance(w) \/ Advance(w)
          PROVE  /\ w \in Proc /\ EvidenceFits(w)' /\ DiskFits' /\ StoreMove(w) /\ GoesTo(w)
                 /\ artifacts' = artifacts \/ runLock = w
      BY <1>1, <3>1, AdvanceFits, AdvanceEvidence
    <3>2. ASSUME NEW c \in Canceller, Cancel(c)
          PROVE  /\ c \in Proc /\ EvidenceFits(c)' /\ DiskFits' /\ StoreMove(c) /\ GoesTo(c)
                 /\ artifacts' = artifacts
      BY <1>1, <3>2, CancelStepFits, FreeStepEvidence
    <3>3. ASSUME NEW r \in Reader, Read(r)
          PROVE  /\ r \in Proc /\ EvidenceFits(r)' /\ DiskFits' /\ StoreMove(r) /\ GoesTo(r)
                 /\ artifacts' = artifacts
      BY <1>1, <3>3, ReadFits, FreeStepEvidence
    <3>4. ASSUME NEW q \in Proc, StoreStep(q) \/ Kill(q)
          PROVE  /\ EvidenceFits(q)' /\ DiskFits' /\ StoreMove(q) /\ GoesTo(q)
                 /\ artifacts' = artifacts
      BY <1>1, <3>4, StoreStepFits, StoreStepEvidence
    <3> QED
      BY <1>2, <3>1, <3>2, <3>3, <3>4 DEF SchedNext
  <2>2. ASSUME NEW q \in Proc \ {p}
        PROVE  EvidenceFits(q)'
    <3>1. at'[q] = at[q]
      BY <2>1 DEF GoesTo, ClientInv, SchedTypeOK
    <3> QED
      BY <2>1, <3>1, OthersEvidence
  <2> QED
    BY <2>1, <2>2 DEF EvidenceInv
<1>3. CASE UNCHANGED allVars
  <2>1. UNCHANGED <<at, artifacts, manifest, cancelRequested, op, mem, cur, want, ok,
                    runLock, manifestLock>>
    BY <1>3 DEF allVars, schedVars, vars, disk, locks, local
  <2>2. DiskFits'
    BY <2>1 DEF EvidenceInv, DiskFits, Evidence
  <2>3. ASSUME NEW q \in Proc
        PROVE  EvidenceFits(q)'
    BY <2>1 DEF EvidenceInv, EvidenceFits, FilesFit, PlanFits, StatusFits, DataFits,
       Evidence
  <2> QED
    BY <2>2, <2>3 DEF EvidenceInv
<1> QED
  BY <1>2, <1>3

LEMMA EvidenceInit == SchedInit => EvidenceInv
<1> SUFFICES ASSUME SchedInit
             PROVE  EvidenceInv
  OBVIOUS
<1>1. manifest.status = "Queued" /\ manifest.data = 0 /\ artifacts = {}
  BY SchedulerAssumption DEF SchedInit, Init
<1>2. DiskFits
  BY <1>1 DEF DiskFits, Evidence, FromR1Gate, FromR2Packet, FromR2Gate, FromR3Cc,
     FromWaiting,
              FromMerging, PublicStatus, Accepted
<1>3. ASSUME NEW p \in Proc
      PROVE  EvidenceFits(p)
  BY NoneAssumption DEF SchedInit, Init, EvidenceFits, FilesFit, PlanFits, StatusFits,
     DataFits,
     ActiveLocs, BehindR1, BehindR2, BehindCc
<1> QED
  BY <1>2, <1>3 DEF EvidenceInv

\* What the manifest says rests on the files of the run, in every state.
THEOREM EvidenceInvariance == SchedSpec => []EvidenceInv
<1>1. SchedInit => IInv /\ ClientInv /\ EvidenceInv
  BY InitInv, ClientInit, EvidenceInit DEF SchedInit
<1>2. /\ IInv /\ ClientInv /\ EvidenceInv /\ [SchedNext]_allVars
      => IInv' /\ ClientInv' /\ EvidenceInv'
  BY StepIsStore, NextInv, ClientNextInv, EvidenceNextInv
<1> QED
  BY <1>1, <1>2, PTL DEF SchedSpec

\* No command ever meets "illegal run transition", wherever a crash left the
\* run and whatever advance() skips (TransitionsAreLegal).
THEOREM NoIllegalTransition == SchedSpec => []TransitionsAreLegal
<1>1. IInv /\ EvidenceInv => TransitionsAreLegal
  <2> SUFFICES ASSUME IInv, EvidenceInv, NEW p \in Proc,
                      op[p] = "decide", ~Terminal(cur[p].status)
               PROVE  LET requested == cancelRequested \/ want[p] = "Cancelling"
                      IN  TransitionAllowed(cur[p].status,
                                            Effective(want[p], cur[p].status, requested))
    BY DEF TransitionsAreLegal
  <2>1. manifestLock = p /\ cur[p] = manifest
    BY DEF IInv, ManifestLockHeld, ReadsAreLoaded, TransitionOps
  <2>2. want[p] \in CancelStatus => cancelRequested
    BY DEF IInv, CancelIsRequested
  <2>3. CASE cancelRequested
    BY <2>1, <2>3 DEF Effective, TransitionAllowed, AbortStatus, CancelStatus, Terminal
  <2>4. CASE ~cancelRequested
    <3>1. manifest.status # "Cancelling"
      BY <2>4 DEF IInv, CancelIsRequested, CancelStatus
    <3>2. TransitionAllowed(manifest.status, want[p])
      BY <2>1, <2>2, <2>4 DEF EvidenceInv, EvidenceFits, PlanFits
    <3> QED
      BY <2>1, <2>2, <2>4, <3>1, <3>2 DEF Effective, CancelStatus
  <2> QED
    BY <2>3, <2>4
<1> QED
  BY <1>1, SchedInvariance, EvidenceInvariance, PTL

\* A published result rests on everything it is merged from, however many
\* sessions of advance() it took (ResultHasEvidence).
THEOREM ResultIsFounded == SchedSpec => []ResultHasEvidence
<1>1. IInv /\ EvidenceInv => ResultHasEvidence
  BY DEF IInv, NoResultAfterCancel, EvidenceInv, DiskFits, Evidence, ResultHasEvidence
<1> QED
  BY <1>1, SchedInvariance, EvidenceInvariance, PTL

\* The challenge a published request asks for is in the manifest, whatever
\* crashed in between (RequestIsOwned).
THEOREM RequestHasOwner == SchedSpec => []RequestIsOwned
<1>1. EvidenceInv => RequestIsOwned
  BY DEF EvidenceInv, DiskFits, RequestIsOwned
<1> QED
  BY <1>1, EvidenceInvariance, PTL
=============================================================================
