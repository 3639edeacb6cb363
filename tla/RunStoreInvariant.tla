-------------------------- MODULE RunStoreInvariant --------------------------
(***************************************************************************)
(* The inductive invariant of RunStore: what the locks and the guards of   *)
(* src/store.rs keep true between any two steps of any processes (IInv),   *)
(* and of the log (LogInv); the safety properties of RunStore follow.      *)
(***************************************************************************)
EXTENDS RunStore

LoadOps == {"exists", "readPending", "drop", "recover", "recovered"}
TransitionOps ==
    {"decide", "writePending", "save", "append", "removePending"}
GuardedOps == {"cancelWrite", "cancelClean", "publish", "published", "spawn"}

\* A transition is under way exactly while its process holds .manifest.lock.
ManifestLockHeld ==
    \A p \in Proc :
        /\ want[p] # "none" <=> manifestLock = p
        /\ op[p] \in TransitionOps => manifestLock = p
        /\ manifestLock = p => op[p] \in LoadOps \cup TransitionOps

\* What runs under .active-pids.lock is done by its holder.  The transition
\* to a result is the only one made under it.
PidsLockHeld ==
    \A p \in Proc :
        /\ op[p] \in GuardedOps => pidsLock = p
        /\ manifestLock = p /\ want[p] \in PublicStatus => pidsLock = p

\* Every status but a cancellation is written by the holder of .run.lock.
RunLockHeld ==
    \A p \in Proc :
        \/ manifestLock = p /\ want[p] \notin CancelStatus
        \/ op[p] \in {"publish", "published", "spawn"}
        => runLock = p /\ mem[p] # NoManifest

\* A load under way has read a manifest; a transition read the one on disk.
ReadsAreLoaded ==
    \A p \in Proc :
        /\ op[p] \in LoadOps \cup TransitionOps => cur[p] # NoManifest
        /\ manifestLock = p /\ op[p] \notin {"append", "removePending"}
               => cur[p] = manifest
        /\ op[p] \in {"drop", "recover", "recovered", "save", "append",
                      "removePending"}
               => seen[p] # NoPending

\* A cancellation status is asked for, and written, after cancel.requested.
CancelIsRequested ==
    /\ manifest.status \in CancelStatus => cancelRequested
    /\ \A p \in Proc :
          /\ want[p] \in CancelStatus => cancelRequested
          /\ op[p] = "cancelClean" => cancelRequested

\* A result is on its way only while no cancellation is requested.
ResultIsUncancelled ==
    \A p \in Proc :
        /\ op[p] \in {"publish", "published", "spawn"} => ~cancelRequested
        /\ op[p] = "published" => result
        /\ want[p] \in PublicStatus => ~cancelRequested /\ result
        /\ op[p] \in {"cancelWrite", "cancelClean"}
               => manifest.status \notin PublicStatus

\* What a transition is about to write is an edge from the status on disk.
WriteIsAllowed ==
    \A p \in Proc :
        /\ op[p] \in {"writePending", "save"}
               => /\ ~Terminal(manifest.status)
                  /\ TransitionAllowed(manifest.status, want[p])
                  /\ manifest.status = "Cancelling" => want[p] \in CancelStatus
        /\ op[p] = "save"
               => /\ pending \in {NoPending, seen[p]}
                  /\ seen[p].to = want[p]

\* The holder of .run.lock knows the status, unless a cancellation is under
\* way or the run ended: nobody else may move it.
WorkerKnowsStatus ==
    \A p \in Proc :
        runLock = p /\ ~cancelRequested /\ ~Terminal(manifest.status)
        => /\ mem[p] # NoManifest => mem[p].status = manifest.status
           /\ op[p] \in LoadOps => cur[p].status = manifest.status

\* A pending record always fits the manifest, writer at work or not.
PendingFits ==
    pending # NoPending => manifest.status \in {pending.from, pending.to}

\* Until a cancellation is requested nobody took a list of children.
NoSnapshotYet ==
    /\ ~cancelRequested => \A p \in Proc : snapshot[p] = Lane
    /\ SnapshotCoversProcesses

IInv ==
    /\ TypeOK
    /\ NoResultAfterCancel
    /\ CompletedHasResult
    /\ ManifestLockHeld
    /\ PidsLockHeld
    /\ RunLockHeld
    /\ ReadsAreLoaded
    /\ CancelIsRequested
    /\ ResultIsUncancelled
    /\ WriteIsAllowed
    /\ WorkerKnowsStatus
    /\ PendingFits
    /\ NoSnapshotYet
-----------------------------------------------------------------------------
(* The log: which records are of transitions the manifest went through.    *)

RecordsOf(log) == {log[i] : i \in DOMAIN log}

\* How far a status is: every edge but that of a status to itself leads on.
Rank ==
    [Queued |-> 0, Preflight |-> 1, R1Running |-> 2, R1Gate |-> 3, R2Packet |-> 4,
     R2Running |-> 5, R2Gate |-> 6, R3Cc |-> 7, WaitingPrimaryArbiter |-> 8,
     Merging |-> 9, Cancelling |-> 10, Completed |-> 11, Degraded |-> 11,
     Failed |-> 11, FailedPolicy |-> 11, Cancelled |-> 11]

\* What a load has read of the manifest is no newer than the manifest.
ReadsAreOld ==
    \A p \in Proc :
        op[p] \in LoadOps => Rank[cur[p].status] <= Rank[manifest.status]

\* A pending record is of the last transition, or of one that leaves the status
\* the manifest has.
PendingIsKnown ==
    pending # NoPending
    => \/ pending \in RecordsOf(committed) /\ manifest.status = pending.to
       \/ /\ manifest.status = pending.from
          /\ TransitionAllowed(pending.from, pending.to)

\* Whoever is to write a record to the log has one of a transition that was made.
WritersAreRight ==
    \A p \in Proc :
        op[p] \in {"recover", "append", "removePending"}
        => seen[p] \in RecordsOf(committed)

\* Records are numbered in the order they are written in; a transition that is
\* to be saved has the last number.
RecordsAreNumbered ==
    /\ \A r \in RecordsOf(committed) : r.id <= written
    /\ \A p \in Proc :
          op[p] = "save"
          => seen[p].id <= written /\ seen[p].id \notin Ids(committed)

\* The record of the last transition may be missing while its writer is about to
\* append it, no other is.
LogKeepsUp ==
    crashes = 0 /\ faults = 0
    => \/ events = committed
       \/ \E p \in Proc :
             /\ op[p] = "append"
             /\ seen[p].id \notin Ids(events)
             /\ committed = Append(events, seen[p])

LogInv ==
    /\ ReadsAreOld
    /\ PendingIsKnown
    /\ WritersAreRight
    /\ RecordsAreNumbered
    /\ LogIsFaithful
    /\ LogKeepsUp
=============================================================================
