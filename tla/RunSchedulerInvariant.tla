------------------------ MODULE RunSchedulerInvariant ------------------------
(***************************************************************************)
(* The inductive invariant of RunScheduler: how far a command is, which    *)
(* locks it holds and what it knows there; and what the status and the     *)
(* files of a run say of each other until a cancellation is requested.     *)
(***************************************************************************)
EXTENDS RunScheduler, RunStoreInvariant

\* Where advance() is past the test for a terminal run and not yet at its end.
ActiveLocs ==
    {"preflight", "r1", "r1run", "r1gate", "contest", "packet", "r2", "r2run",
     "r2gate", "r3", "ccrun", "arbiter", "await", "parun", "staged",
     "accepting", "recover", "merge", "publish"}
HeldLocs ==
    ActiveLocs \cup {"reconcile", "loaded", "finalized", "exit", "recordLoad",
                     "recordLoaded", "recordExit"}
FreeLocs ==
    {"idle", "record", "read", "cancelLoaded", "requested", "reloaded",
     "marked", "finished", "done", "failed"}

\* Where a command has asked for nothing that may have failed.
QuietLocs ==
    {"r1", "r1gate", "r2", "r2gate", "arbiter", "await", "staged", "accepting",
     "recover"}

\* Where a load is under way, or has returned.
LoadingLocs == {"loaded", "recordLoaded", "cancelLoaded", "reloaded", "read"}

\* Where a transition is under way, or has returned.
RequestLocs ==
    {"preflight", "r1run", "contest", "packet", "r2run", "r3", "ccrun",
     "merge", "finalized", "exit", "recordExit", "marked", "finished"}

SchedTypeOK ==
    /\ at \in [Proc -> HeldLocs \cup FreeLocs]
    /\ artifacts \subseteq Artifacts
    /\ sessions \in Nat

-----------------------------------------------------------------------------
(* Locks and operations.                                                   *)

\* The run lock is held from the entry of advance(), or of the record of a
\* failure, to its end.
LockFits(p) == at[p] \in HeldLocs <=> runLock = p

\* Which store operation is under way where.
OpFits(p) ==
    /\ op[p] \in {"publish", "published"} <=> at[p] = "publish"
    /\ op[p] = "spawn" => at[p] \in PhaseLocs
    /\ op[p] \in {"cancelWrite", "cancelClean"} => at[p] = "requested"
    /\ op[p] \in LoadOps /\ manifestLock # p => at[p] \in LoadingLocs
    /\ manifestLock = p => at[p] \in RequestLocs
    /\ at[p] \in QuietLocs \cup {"parun", "publish"} => ok[p]

\* .active-pids.lock is kept beyond a store operation for the last transition only.
GuardFits(p) == pidsLock = p => op[p] \in GuardedOps \/ at[p] = "finalized"

\* advance() has a manifest once it has loaded one.
ManifestKnown(p) ==
    \/ at[p] \in ActiveLocs
    \/ at[p] = "loaded" /\ op[p] = "none" /\ ok[p]
    => mem[p] # NoManifest

\* A cancellation marks the run after it wrote its request.
MarkIsRequested(p) ==
    \/ at[p] \in {"reloaded", "marked", "finished"}
    \/ at[p] = "requested" /\ op[p] # "cancelWrite"
    => cancelRequested

-----------------------------------------------------------------------------
(* What a command knows of the status.                                     *)

\* The ends only the holder of the run lock brings about.
Ends == TerminalStatus \ {"Cancelled"}

\* Nobody ends a run advance() works on, but by a cancellation.
NotEnded(p) ==
    at[p] \in ActiveLocs => manifest.status \notin Ends /\ want[p] \notin Ends

\* A run that ended before is found terminal.
EndIsSeen(p) ==
    at[p] \in {"loaded", "recordLoaded"} /\ manifest.status \in Ends
    => /\ op[p] \in LoadOps => Terminal(cur[p].status)
       /\ op[p] = "none" /\ ok[p] => Terminal(mem[p].status)

\* Only a run that is merging gets to its finalization.
MergeIsKnown(p) ==
    at[p] = "merge"
    => /\ want[p] \in {"none", "Merging", "Cancelled"}
       /\ op[p] \in {"append", "removePending"} => mem[p].status = want[p]
       /\ op[p] = "none" /\ ok[p] => mem[p].status \in {"Merging", "Cancelled"}

ClientFits(p) ==
    /\ LockFits(p) /\ OpFits(p) /\ GuardFits(p) /\ ManifestKnown(p)
    /\ MarkIsRequested(p) /\ NotEnded(p) /\ EndIsSeen(p) /\ MergeIsKnown(p)

ClientInv == SchedTypeOK /\ \A p \in Proc : ClientFits(p)

-----------------------------------------------------------------------------
(* What the status says of the files, and the place of advance() of both.  *)

FromMerging == {"Merging"}
FromWaiting == {"WaitingPrimaryArbiter"} \cup FromMerging
FromR3Cc == {"R3Cc"} \cup FromWaiting
FromR2Gate == {"R2Gate"} \cup FromR3Cc
FromR2Packet == {"R2Packet", "R2Running"} \cup FromR2Gate
FromR1Gate == {"R1Gate"} \cup FromR2Packet
FromR1 == {"R1Running"} \cup FromR1Gate

\* The statuses at which advance() stands at a place.
StatusAt(loc) ==
    CASE loc = "preflight" -> {"Preflight"}
      [] loc = "r1" -> {"Preflight"} \cup FromR1
      [] loc = "r1run" -> {"R1Running"}
      [] loc = "r1gate" -> FromR1
      [] loc = "contest" -> FromR1Gate
      [] loc = "packet" -> {"R2Packet"}
      [] loc = "r2" -> FromR2Packet
      [] loc = "r2run" -> {"R2Running"}
      [] loc = "r2gate" -> FromR1Gate
      [] loc = "r3" -> FromR2Gate
      [] loc = "ccrun" -> {"R3Cc"}
      [] loc \in {"merge", "publish"} -> FromMerging
      [] OTHER -> FromR3Cc

\* The places behind R1, behind R2 or its skip, and behind the counterpart.
BehindCc == {"arbiter", "await", "parun", "staged", "accepting", "recover",
             "merge", "publish"}
BehindR2 == {"r2gate", "r3", "ccrun"} \cup BehindCc
BehindR1 == {"r1gate", "contest", "packet", "r2", "r2run"} \cup BehindR2

FilesFit(p) ==
    /\ at[p] \in BehindR1 => "R1" \in artifacts
    /\ at[p] \in {"packet", "r2", "r2run"} => "skipped" \notin artifacts
    /\ at[p] \in {"r2", "r2run"} => "packet" \in artifacts
    /\ at[p] \in BehindR2 => {"R2", "skipped"} \cap artifacts # {}
    /\ at[p] \in BehindCc => "cc" \in artifacts
    /\ at[p] = "accepting" => "response" \in artifacts

\* What a status rests on.
Evidence(s, data) ==
    /\ s \in {"Queued", "Preflight"} => "R1" \notin artifacts
    /\ s \in FromR1Gate \cup PublicStatus => "R1" \in artifacts
    /\ s \in Stages \ FromR2Packet => "packet" \notin artifacts
    /\ s = "R2Running" => "packet" \in artifacts
    /\ s \in FromR2Gate \cup PublicStatus => {"R2", "skipped"} \cap artifacts # {}
    /\ s \in Stages \ FromR3Cc => "cc" \notin artifacts
    /\ s \in FromWaiting \cup PublicStatus => "cc" \in artifacts
    /\ s \in FromMerging \cup PublicStatus => data = Accepted
    /\ data = Accepted => "response" \in artifacts

\* The manifest rests on its evidence.
DiskFits ==
    /\ "R2" \in artifacts => "packet" \in artifacts
    /\ ~cancelRequested
       => /\ Evidence(manifest.status, manifest.data)
          /\ "request" \in artifacts => manifest.data >= Challenged

\* So will the transition that is under way.
PlanFits(p) ==
    /\ ~cancelRequested
    /\ manifestLock = p
    /\ op[p] \in LoadOps \cup {"decide", "writePending", "save"}
    /\ want[p] \notin CancelStatus
    => /\ ~Terminal(manifest.status) => TransitionAllowed(manifest.status, want[p])
       /\ Evidence(want[p], mem[p].data)
       /\ "request" \in artifacts => mem[p].data >= Challenged

StatusFits(p) ==
    ~cancelRequested /\ at[p] \in ActiveLocs
    => /\ want[p] \notin CancelStatus \cup {"none"} => want[p] \in StatusAt(at[p])
       /\ \/ op[p] \in {"append", "removePending"}
          \/ op[p] \in {"none", "spawn", "publish", "published"} /\ ok[p]
          => manifest.status \in StatusAt(at[p])

\* Until the recovery of a submission, advance() changes no field of its
\* manifest that it does not save.
DataFits(p) ==
    ~cancelRequested /\ runLock = p /\ ~Terminal(manifest.status)
    => /\ /\ mem[p] # NoManifest
          /\ at[p] \notin {"recover", "merge", "publish", "finalized", "exit"}
          => mem[p].data = manifest.data
       /\ op[p] \in LoadOps /\ manifestLock # p => cur[p].data = manifest.data
       /\ at[p] \in {"await", "parun"} => mem[p].data = Challenged
       /\ at[p] \in {"staged", "accepting"} => mem[p].data \in {Challenged, Staged}
       /\ at[p] = "recover"
          => /\ mem[p].data >= manifest.data
             /\ mem[p].data = Accepted => "response" \in artifacts
       /\ at[p] \in {"merge", "publish"}
          => mem[p].data = Accepted /\ "response" \in artifacts

EvidenceFits(p) == FilesFit(p) /\ PlanFits(p) /\ StatusFits(p) /\ DataFits(p)

EvidenceInv == DiskFits /\ \A p \in Proc : EvidenceFits(p)

-----------------------------------------------------------------------------
(* The order of the locks.                                                 *)

\* .events.lock is held while a load settles a record, to its end.
EventsLockHeld == \A p \in Proc : eventsLock = p => op[p] = "recovered"

Owner == [pids |-> pidsLock, manifest |-> manifestLock, events |-> eventsLock]

LockOrder == [pids |-> 1, manifest |-> 2, events |-> 3]

\* The locks a command may have to wait for where it stands.  Between two
\* operations on the store it may also append an event of another type, as it
\* does with "run.completed" while it publishes its result.
Awaited(p) ==
    CASE op[p] \in {"recover", "append"} -> {"events"}
      [] op[p] = "published" -> {"manifest"}
      [] op[p] = "none" ->
            IF at[p] = "finalized" THEN {"events"} ELSE DOMAIN Owner
      [] OTHER -> {}

\* Who holds a lock waits only for locks behind it (.active-pids.lock,
\* .manifest.lock, .events.lock): commands never wait for each other in a circle.
LocksInOrder ==
    \A p \in Proc, held \in DOMAIN Owner :
        Owner[held] = p => \A k \in Awaited(p) : LockOrder[held] < LockOrder[k]
=============================================================================
