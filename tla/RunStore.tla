------------------------------- MODULE RunStore -------------------------------
(***************************************************************************)
(* The durable state of one run (src/store.rs) as the file operations of   *)
(* several operating-system processes read and write it.                   *)
(*                                                                         *)
(* Disk: manifest.json, diagnostics/pending-transition.json, the           *)
(* run.transition records of events.jsonl, cancel.requested, result.json   *)
(* and active-pids.json.  Locks: .run.lock (tried, never waited for) and   *)
(* .manifest.lock, .events.lock, .active-pids.lock (waited for).  A lock   *)
(* belongs to an open file, so it is released when its process dies.       *)
(*                                                                         *)
(* A process is a command of the CLI: a worker or `quinte resume` (they    *)
(* take the run lock), `quinte cancel`, or a reader (`status`, `wait`,     *)
(* `inspect`, an A2A host).  Each step below is one file operation another *)
(* process can see between; what happens wholly under a lock that every    *)
(* user of the file takes is one step.  Which operations a process calls,  *)
(* and in which order, is left open here as far as the rules of src/run.rs *)
(* leave it open (Call); RunScheduler has the commands themselves.         *)
(***************************************************************************)
EXTENDS RunStatus, Naturals, Sequences

CONSTANTS
    Proc,             \* the processes that operate on the run
    Lane,             \* the children a worker may supervise
    StartStatus,      \* the statuses at which the modelled history may begin
    MaxTransitions,   \* bound: transitions written to the disk
    MaxData,          \* bound: changes of the manifest's other fields
    MaxCrashes,       \* bound: processes killed
    MaxFaults,        \* bound: appends to events.jsonl that fail
    NoProc,           \* the holder of a free lock
    NoPending,        \* no pending-transition.json
    NoManifest        \* nothing loaded yet

Manifests == [status : RunStatuses, data : Nat]
Records == [id : Nat, from : RunStatuses, to : RunStatuses]

ASSUME StartAssumption == StartStatus \subseteq Stages
ASSUME BoundAssumption == /\ MaxTransitions \in Nat
                          /\ MaxData \in Nat
                          /\ MaxCrashes \in Nat
                          /\ MaxFaults \in Nat
ASSUME NoneAssumption == /\ NoProc \notin Proc
                         /\ NoPending \notin Records
                         /\ NoManifest \notin Manifests

VARIABLES
    manifest,         \* manifest.json: its status, and a revision of the rest
    pending,          \* pending-transition.json
    events,           \* the run.transition records of events.jsonl
    cancelRequested,  \* cancel.requested exists
    result,           \* result.json exists
    processes,        \* active-pids.json
    runLock, manifestLock, eventsLock, pidsLock,
    op,               \* where a process stands in a store operation
    mem,              \* its in-memory manifest
    cur,              \* the manifest load_manifest read
    want,             \* the status its transition will write
    seen,             \* the pending record it read, or wrote
    ok,               \* did its last operation return Ok?
    snapshot,         \* the children request_cancellation found; before, any
    start,            \* history: the status this history began at
    committed,        \* history: the transitions manifest.json went through
    written,          \* history: pending records written, the last UUID used
    crashes, faults   \* history: processes killed, appends failed

disk == <<manifest, pending, events, cancelRequested, result, processes>>
locks == <<runLock, manifestLock, eventsLock, pidsLock>>
local == <<op, mem, cur, want, seen, ok, snapshot>>
history == <<start, committed, written, crashes, faults>>
vars == <<disk, locks, local, history>>

Ops == {"none", "exists", "readPending", "drop", "recover", "recovered",
        "decide", "writePending", "save", "append", "removePending",
        "cancelWrite", "cancelClean", "publish", "published", "spawn"}

Ids(log) == {log[i].id : i \in DOMAIN log}

\* Mutated: no test; a test on the statuses.
RecordAgain(log, rec) == Append(log, rec)
RecordByStatus(log, rec) ==
    IF \E i \in DOMAIN log : log[i].from = rec.from /\ log[i].to = rec.to
    THEN log
    ELSE Append(log, rec)

\* append_jsonl behind the transition_id test of event_at and of
\* recover_pending_transition: a record already in the log is not repeated.
Record(log, rec) == IF rec.id \in Ids(log) THEN log ELSE Append(log, rec)

Init ==
    /\ start \in StartStatus
    /\ manifest = [status |-> start, data |-> 0]
    /\ pending = NoPending
    /\ events = <<>>
    /\ cancelRequested = FALSE
    /\ result = FALSE
    /\ processes = {}
    /\ runLock = NoProc
    /\ manifestLock = NoProc
    /\ eventsLock = NoProc
    /\ pidsLock = NoProc
    /\ op = [p \in Proc |-> "none"]
    /\ mem = [p \in Proc |-> NoManifest]
    /\ cur = [p \in Proc |-> NoManifest]
    /\ want = [p \in Proc |-> "none"]
    /\ seen = [p \in Proc |-> NoPending]
    /\ ok = [p \in Proc |-> TRUE]
    /\ snapshot = [p \in Proc |-> Lane]
    /\ committed = <<>>
    /\ written = 0
    /\ crashes = 0
    /\ faults = 0
-----------------------------------------------------------------------------
(* Where an operation goes on, and how it returns to its caller.           *)

Goto(p, o) == op' = [op EXCEPT ![p] = o]

Holder(lock, p) == IF lock = p THEN NoProc ELSE lock

Return(p, good) ==
    /\ Goto(p, "none")
    /\ ok' = [ok EXCEPT ![p] = good]
    /\ cur' = [cur EXCEPT ![p] = NoManifest]
    /\ seen' = [seen EXCEPT ![p] = NoPending]
    /\ want' = [want EXCEPT ![p] = "none"]

\* Mutated: a lock dropped at once; a lock not dropped.
PeekPidsLock(p) == pidsLock = NoProc /\ UNCHANGED pidsLock
KeepPidsLock == UNCHANGED pidsLock

RunLockFree == runLock = NoProc
TakePidsLock(p) == pidsLock = NoProc /\ pidsLock' = p
DropPidsLock == pidsLock' = NoProc

(***************************************************************************)
(* The run lock: try_lock_exclusive.  A caller that does not get it fails  *)
(* at once ("already being advanced"), which changes nothing.              *)
(***************************************************************************)
TakeRunLock(p) ==
    /\ op[p] = "none"
    /\ RunLockFree
    /\ runLock' = p
    /\ mem' = [mem EXCEPT ![p] = NoManifest]
    /\ ok' = [ok EXCEPT ![p] = TRUE]
    /\ UNCHANGED <<disk, manifestLock, eventsLock, pidsLock, op, cur, want,
                   seen, snapshot, history>>

DropRunLock(p) ==
    /\ op[p] = "none"
    /\ runLock = p
    /\ runLock' = NoProc
    /\ mem' = [mem EXCEPT ![p] = NoManifest]
    /\ UNCHANGED <<disk, manifestLock, eventsLock, pidsLock, op, cur, want,
                   seen, ok, snapshot, history>>

\* A command without the run lock returns.
Leave(p) ==
    /\ op[p] = "none"
    /\ runLock # p
    /\ mem[p] # NoManifest
    /\ mem' = [mem EXCEPT ![p] = NoManifest]
    /\ UNCHANGED <<disk, locks, op, cur, want, seen, ok, snapshot, history>>

(***************************************************************************)
(* load_manifest: no lock.  It reads manifest.json, then looks for a       *)
(* pending transition and settles it (recover_pending_transition).         *)
(* transition() runs the same steps while it holds .manifest.lock.         *)
(***************************************************************************)
Load(p) ==
    /\ op[p] = "none"
    /\ cur' = [cur EXCEPT ![p] = manifest]
    /\ Goto(p, "exists")
    /\ UNCHANGED <<disk, locks, mem, want, seen, ok, snapshot, history>>

\* What follows a load that succeeded: the caller, or the rest of transition().
LoadReturns(p) ==
    IF manifestLock = p
    THEN /\ Goto(p, "decide")
         /\ UNCHANGED <<mem, cur, want, seen, ok>>
    ELSE /\ Return(p, TRUE)
         /\ mem' = [mem EXCEPT ![p] = cur[p]]

LoadFails(p) ==
    /\ Return(p, FALSE)
    /\ manifestLock' = Holder(manifestLock, p)
    /\ UNCHANGED <<disk, runLock, eventsLock, pidsLock, mem, snapshot, history>>

\* The existence test and the read of the pending file are two steps.
PendingExists(p) ==
    /\ op[p] = "exists"
    /\ IF pending = NoPending
       THEN LoadReturns(p)
       ELSE /\ Goto(p, "readPending")
            /\ UNCHANGED <<mem, cur, want, seen, ok>>
    /\ UNCHANGED <<disk, locks, snapshot, history>>

\* Mutated: every pending record counts as committed.
NeverUncommitted(p) == FALSE

\* Is the manifest p read older than the pending record's save?
Uncommitted(p) == cur[p].status = pending.from

ReadPending(p) ==
    /\ op[p] = "readPending"
    /\ pending # NoPending
    /\ cur[p].status \in {pending.from, pending.to}
    /\ seen' = [seen EXCEPT ![p] = pending]
    /\ Goto(p, IF Uncommitted(p) THEN "drop" ELSE "recover")
    /\ UNCHANGED <<disk, locks, mem, cur, want, ok, snapshot, history>>

\* The file went away since the existence test.
ReadPendingVanished(p) ==
    /\ op[p] = "readPending"
    /\ pending = NoPending
    /\ LoadFails(p)

\* "pending transition does not match manifest".
ReadPendingMismatch(p) ==
    /\ op[p] = "readPending"
    /\ pending # NoPending
    /\ cur[p].status \notin {pending.from, pending.to}
    /\ LoadFails(p)

\* The manifest was not written yet: forget the transition.
DropPending(p) ==
    /\ op[p] = "drop"
    /\ pending' = NoPending
    /\ LoadReturns(p)
    /\ UNCHANGED <<manifest, events, cancelRequested, result, processes, locks,
                   snapshot, history>>

\* The manifest was written: complete the log, then forget the transition,
\* both under .events.lock.
RecoverEvent(p) ==
    /\ op[p] = "recover"
    /\ eventsLock = NoProc
    /\ eventsLock' = p
    /\ events' = Record(events, seen[p])
    /\ Goto(p, "recovered")
    /\ UNCHANGED <<manifest, pending, cancelRequested, result, processes,
                   runLock, manifestLock, pidsLock, mem, cur, want, seen, ok,
                   snapshot, history>>

RecoverDone(p) ==
    /\ op[p] = "recovered"
    /\ pending' = NoPending
    /\ eventsLock' = NoProc
    /\ LoadReturns(p)
    /\ UNCHANGED <<manifest, events, cancelRequested, result, processes,
                   runLock, manifestLock, pidsLock, snapshot, history>>

(***************************************************************************)
(* transition(): under .manifest.lock it loads the manifest, decides, and  *)
(* writes the pending record, the manifest and the log, in that order,     *)
(* then removes the pending record.                                        *)
(***************************************************************************)

Transition(p, s) ==
    /\ op[p] \in {"none", "published"}
    /\ mem[p] # NoManifest
    /\ written < MaxTransitions
    /\ manifestLock = NoProc
    /\ manifestLock' = p
    /\ cur' = [cur EXCEPT ![p] = manifest]
    /\ want' = [want EXCEPT ![p] = s]
    /\ Goto(p, "exists")
    /\ UNCHANGED <<disk, runLock, eventsLock, pidsLock, mem, seen, ok, snapshot,
                   history>>

\* A run with a terminal status stays as it is: the caller gets it back.
DecideTerminal(p) ==
    /\ op[p] = "decide"
    /\ Terminal(cur[p].status)
    /\ mem' = [mem EXCEPT ![p] = cur[p]]
    /\ Return(p, TRUE)
    /\ manifestLock' = NoProc
    /\ UNCHANGED <<disk, runLock, eventsLock, pidsLock, snapshot, history>>

Decide(p) ==
    /\ op[p] = "decide"
    /\ ~Terminal(cur[p].status)
    /\ cancelRequested' = (cancelRequested \/ want[p] = "Cancelling")
    /\ LET to == Effective(want[p], cur[p].status, cancelRequested')
       IN  IF TransitionAllowed(cur[p].status, to)
           THEN /\ want' = [want EXCEPT ![p] = to]
                /\ Goto(p, "writePending")
                /\ UNCHANGED <<cur, seen, ok, manifestLock>>
           ELSE /\ Return(p, FALSE)
                /\ manifestLock' = NoProc
    /\ UNCHANGED <<manifest, pending, events, result, processes, runLock,
                   eventsLock, pidsLock, mem, snapshot, history>>

\* Mutated: the previous status is the one the caller knew.
StalePending(p) ==
    [id |-> written + 1, from |-> mem[p].status, to |-> want[p]]

NewPending(p) == [id |-> written + 1, from |-> cur[p].status, to |-> want[p]]

WritePending(p) ==
    /\ op[p] = "writePending"
    /\ written' = written + 1
    /\ pending' = NewPending(p)
    /\ seen' = [seen EXCEPT ![p] = pending']
    /\ Goto(p, "save")
    /\ UNCHANGED <<manifest, events, cancelRequested, result, processes, locks,
                   mem, cur, want, ok, snapshot, start, committed, crashes,
                   faults>>

\* A cancellation rewrites the manifest it loaded, any other transition the
\* caller's.
Base(p) == IF want[p] \in CancelStatus THEN cur[p] ELSE mem[p]

SaveTransition(p) ==
    LET next == [Base(p) EXCEPT !.status = want[p]]
    IN  /\ op[p] = "save"
        /\ manifest' = next
        /\ mem' = [mem EXCEPT ![p] = next]
        /\ committed' = Append(committed, seen[p])
        /\ Goto(p, "append")
        /\ UNCHANGED <<pending, events, cancelRequested, result, processes, locks,
                       cur, want, seen, ok, snapshot, start, written, crashes,
                       faults>>

AppendEvent(p) ==
    /\ op[p] = "append"
    /\ eventsLock = NoProc
    /\ events' = Record(events, seen[p])
    /\ Goto(p, "removePending")
    /\ UNCHANGED <<manifest, pending, cancelRequested, result, processes, locks,
                   mem, cur, want, seen, ok, snapshot, history>>

\* event_at fails: the pending record stays for the next load, and the
\* transition still returns Ok.
AppendEventFails(p) ==
    /\ op[p] = "append"
    /\ eventsLock = NoProc
    /\ faults < MaxFaults
    /\ faults' = faults + 1
    /\ Return(p, TRUE)
    /\ manifestLock' = NoProc
    /\ UNCHANGED <<disk, runLock, eventsLock, pidsLock, mem, snapshot, start,
                   committed, written, crashes>>

RemovePending(p) ==
    /\ op[p] = "removePending"
    /\ pending' = NoPending
    /\ manifestLock' = NoProc
    /\ Return(p, TRUE)
    /\ UNCHANGED <<manifest, events, cancelRequested, result, processes, runLock,
                   eventsLock, pidsLock, mem, snapshot, history>>

\* Once the bound is reached a field is set to what it was.
Edited(m) == IF m.data < MaxData THEN [m EXCEPT !.data = @ + 1] ELSE m

\* The scheduler changes a field of its in-memory manifest; the next
\* transition writes it.
EditManifest(p) ==
    /\ op[p] = "none"
    /\ mem[p] # NoManifest
    /\ mem' = [mem EXCEPT ![p] = Edited(@)]
    /\ UNCHANGED <<disk, locks, op, cur, want, seen, ok, snapshot, history>>

\* Mutated: save_manifest writes whatever it is given.
SaveNeverSkipped == FALSE

(***************************************************************************)
(* save_manifest: the scheduler writes fields other than the status.  It   *)
(* is skipped, without an error, when the run is terminal or cancelled.    *)
(***************************************************************************)
SaveSkipped ==
    \/ Terminal(manifest.status)
    \/ manifest.status = "Cancelling"
    \/ cancelRequested

SaveManifest(p) ==
    LET next == Edited(mem[p])
    IN  /\ op[p] = "none"
        /\ mem[p] # NoManifest
        /\ manifestLock = NoProc
        /\ mem' = [mem EXCEPT ![p] = next]
        /\ manifest' = IF SaveSkipped THEN manifest ELSE next
        /\ UNCHANGED <<pending, events, cancelRequested, result, processes, locks,
                       op, cur, want, seen, ok, snapshot, history>>

(***************************************************************************)
(* .active-pids.lock orders three things: a cancellation request, the      *)
(* registration of a child, and the publication of a result.               *)
(***************************************************************************)

\* request_cancellation takes the lock and reads the manifest as it is.
RequestCancellation(p) ==
    /\ op[p] = "none"
    /\ ~Terminal(manifest.status)
    /\ TakePidsLock(p)
    /\ Goto(p, "cancelWrite")
    /\ UNCHANGED <<disk, runLock, manifestLock, eventsLock, mem, cur, want, seen,
                   ok, snapshot, history>>

\* The run ended first: there is nothing to cancel.
RequestCancellationTooLate(p) ==
    /\ op[p] = "none"
    /\ pidsLock = NoProc
    /\ Terminal(manifest.status)
    /\ mem' = [mem EXCEPT ![p] = manifest]
    /\ UNCHANGED <<disk, locks, op, cur, want, seen, ok, snapshot, history>>

WriteCancelRequested(p) ==
    /\ op[p] = "cancelWrite"
    /\ cancelRequested' = TRUE
    /\ Goto(p, "cancelClean")
    /\ UNCHANGED <<manifest, pending, events, result, processes, locks, mem, cur,
                   want, seen, ok, snapshot, history>>

\* It removes what a worker killed during finalization left behind, and
\* returns the children to terminate.
CleanAndSnapshot(p) ==
    /\ op[p] = "cancelClean"
    /\ result' = FALSE
    /\ snapshot' = [snapshot EXCEPT ![p] = processes]
    /\ DropPidsLock
    /\ Goto(p, "none")
    /\ UNCHANGED <<manifest, pending, events, cancelRequested, processes, runLock,
                   manifestLock, eventsLock, mem, cur, want, seen, ok, history>>

\* finalization_guard: no cancellation may be pending.
BeginFinalization(p) ==
    /\ op[p] = "none"
    /\ ~cancelRequested
    /\ TakePidsLock(p)
    /\ Goto(p, "publish")
    /\ UNCHANGED <<disk, runLock, manifestLock, eventsLock, mem, cur, want, seen,
                   ok, snapshot, history>>

WriteResult(p) ==
    /\ op[p] = "publish"
    /\ result' = TRUE
    /\ Goto(p, "published")
    /\ UNCHANGED <<manifest, pending, events, cancelRequested, processes, locks,
                   mem, cur, want, seen, ok, snapshot, history>>

\* The guard is dropped after the transition to the result's status.
EndFinalization(p) ==
    /\ op[p] = "none"
    /\ pidsLock = p
    /\ DropPidsLock
    /\ UNCHANGED <<disk, runLock, manifestLock, eventsLock, local, history>>

\* process_registration takes the lock and tests for a cancellation ...
\* Every child is new; Lane bounds those that live at once.
BeginRegistration(p) ==
    /\ op[p] = "none"
    /\ processes # Lane
    /\ ~cancelRequested
    /\ TakePidsLock(p)
    /\ Goto(p, "spawn")
    /\ UNCHANGED <<disk, runLock, manifestLock, eventsLock, mem, cur, want, seen,
                   ok, snapshot, history>>

\* ... and keeps it over the spawn and add_process.
RegisterProcess(p, l) ==
    /\ op[p] = "spawn"
    /\ l \notin processes
    /\ processes' = processes \cup {l}
    /\ DropPidsLock
    /\ Goto(p, "none")
    /\ UNCHANGED <<manifest, pending, events, cancelRequested, result, runLock,
                   manifestLock, eventsLock, mem, cur, want, seen, ok, snapshot,
                   history>>

\* remove_active_process, after the child ended or was found dead.
UnregisterProcess(p, l) ==
    /\ op[p] = "none"
    /\ pidsLock = NoProc
    /\ l \in processes
    /\ processes' = processes \ {l}
    /\ UNCHANGED <<manifest, pending, events, cancelRequested, result, locks,
                   local, history>>

(***************************************************************************)
(* A process is killed: it loses its memory, and its locks are released.   *)
(***************************************************************************)
Crash(p) ==
    /\ crashes < MaxCrashes
    /\ op[p] # "none" \/ runLock = p
    /\ crashes' = crashes + 1
    /\ runLock' = Holder(runLock, p)
    /\ manifestLock' = Holder(manifestLock, p)
    /\ eventsLock' = Holder(eventsLock, p)
    /\ pidsLock' = Holder(pidsLock, p)
    /\ mem' = [mem EXCEPT ![p] = NoManifest]
    /\ snapshot' = [snapshot EXCEPT ![p] = Lane]
    /\ Return(p, TRUE)
    /\ UNCHANGED <<disk, start, committed, written, faults>>

-----------------------------------------------------------------------------
\* load_manifest, once begun.
LoadStep(p) ==
    \/ PendingExists(p)
    \/ ReadPending(p)
    \/ ReadPendingVanished(p)
    \/ ReadPendingMismatch(p)
    \/ DropPending(p)
    \/ RecoverEvent(p)
    \/ RecoverDone(p)

\* transition(), once the manifest is loaded.
TransitionStep(p) ==
    \/ DecideTerminal(p)
    \/ Decide(p)
    \/ WritePending(p)
    \/ SaveTransition(p)
    \/ AppendEvent(p)
    \/ AppendEventFails(p)
    \/ RemovePending(p)

CancellationStep(p) ==
    \/ WriteCancelRequested(p)
    \/ CleanAndSnapshot(p)

(***************************************************************************)
(* The rules the callers in src/run.rs keep.  A cancellation status is     *)
(* asked for after cancel.requested was written; any other by the holder   *)
(* of the run lock, which loaded the manifest first; a completion only     *)
(* under the finalization guard, after result.json was written.  Nothing   *)
(* else is done under the guard.                                           *)
(***************************************************************************)
Unguarded(p) == pidsLock # p
Working(p) == runLock = p /\ mem[p] # NoManifest /\ Unguarded(p)

MayRequest(p, s) ==
    \/ op[p] = "none" /\ Unguarded(p) /\ s \in CancelStatus /\ cancelRequested
    \/ op[p] = "none" /\ Working(p) /\ s \notin CancelStatus \cup PublicStatus
    \/ op[p] = "published" /\ s \in PublicStatus

Call(p) ==
    \/ TakeRunLock(p)
    \/ Unguarded(p) /\ DropRunLock(p)
    \/ Leave(p)
    \/ Unguarded(p) /\ Load(p)
    \/ \E s \in RunStatuses : MayRequest(p, s) /\ Transition(p, s)
    \/ Working(p) /\ EditManifest(p)
    \/ Working(p) /\ SaveManifest(p)
    \/ RequestCancellation(p)
    \/ RequestCancellationTooLate(p)
    \/ Working(p) /\ mem[p].status = "Merging" /\ BeginFinalization(p)
    \/ WriteResult(p)
    \/ EndFinalization(p)
    \/ Working(p) /\ BeginRegistration(p)
    \/ \E l \in Lane : RegisterProcess(p, l)
    \/ \E l \in Lane : runLock = p /\ UnregisterProcess(p, l)

Next ==
    \E p \in Proc :
        \/ Call(p)
        \/ LoadStep(p)
        \/ TransitionStep(p)
        \/ CancellationStep(p)
        \/ Crash(p)

Spec == Init /\ [][Next]_vars

-----------------------------------------------------------------------------
(***************************************************************************)
(* Properties.                                                             *)
(***************************************************************************)

MaybeProc == Proc \cup {NoProc}
MaybeManifest == Manifests \cup {NoManifest}
MaybeRecord == Records \cup {NoPending}

\* The shape of every variable.
TypeOK ==
    /\ manifest \in Manifests
    /\ pending \in MaybeRecord
    /\ events \in Seq(Records)
    /\ cancelRequested \in BOOLEAN
    /\ result \in BOOLEAN
    /\ processes \in SUBSET Lane
    /\ runLock \in MaybeProc
    /\ manifestLock \in MaybeProc
    /\ eventsLock \in MaybeProc
    /\ pidsLock \in MaybeProc
    /\ op \in [Proc -> Ops]
    /\ mem \in [Proc -> MaybeManifest]
    /\ cur \in [Proc -> MaybeManifest]
    /\ want \in [Proc -> RunStatuses \cup {"none"}]
    /\ seen \in [Proc -> MaybeRecord]
    /\ ok \in [Proc -> BOOLEAN]
    /\ snapshot \in [Proc -> SUBSET Lane]
    /\ start \in StartStatus
    /\ committed \in Seq(Records)
    /\ written \in Nat
    /\ crashes \in Nat
    /\ faults \in Nat

\* A run whose cancellation was requested never completes, whatever worker
\* was merging at the time (finalization_guard and request_cancellation).
NoResultAfterCancel == cancelRequested => manifest.status \notin PublicStatus

\* A completed manifest has its result.json: a cancellation that removes the
\* file cannot meet the worker that publishes it.
CompletedHasResult == manifest.status \in PublicStatus => result

\* A terminal run stays as it is, and a cancelling run can only be cancelled,
\* though stale in-memory manifests are saved at any time (transition and
\* save_manifest).
TerminalIsFinal ==
    [][/\ Terminal(manifest.status) => manifest'.status = manifest.status
       /\ manifest.status = "Cancelling" => manifest'.status \in CancelStatus]_vars

\* A pending record left by a dead writer always fits the manifest, so the
\* next transition never fails in recover_pending_transition.
PendingFitsManifest ==
    manifestLock = NoProc /\ pending # NoPending
        => manifest.status \in {pending.from, pending.to}

\* Every record of the log is of a transition the manifest went through, and of
\* each there is one, though a reader completes the log for a writer that is slow,
\* or dead (event_at and recover_pending_transition).  A reader that is slow
\* itself may come after the next transition: their order is not kept.
LogIsFaithful ==
    /\ \A i \in DOMAIN events : events[i].id \in Ids(committed)
    /\ \A i, j \in DOMAIN events : events[i].id = events[j].id => i = j

\* No child is registered after a cancellation took its list of children, so
\* the list is all there is to terminate (process_registration).
SnapshotCoversProcesses ==
    \A p \in Proc : processes \subseteq snapshot[p]

\* While nobody is killed and no append fails, every transition of the manifest
\* is in the log, in order, whenever none is under way, though readers repair the
\* log of one that is, and may be late (transition, recover_pending_transition).
LogIsComplete ==
    manifestLock = NoProc /\ crashes = 0 /\ faults = 0 => events = committed

\* All of the above, for a caller: the run's status and the cancellation
\* request, as other processes see them on disk, behave as RunLifecycle says.
Lifecycle == INSTANCE RunLifecycle WITH status <- manifest.status
LifecycleSpec == Lifecycle!Spec
=============================================================================
