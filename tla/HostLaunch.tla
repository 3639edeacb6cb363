----------------------------- MODULE HostLaunch -----------------------------
(***************************************************************************)
(* Launching runs (src/host.rs, run creation and worker start of           *)
(* src/run.rs, SendMessage of src/a2a/host_map.rs).  Host commands hold    *)
(* the launch lock of the state root; `quinte run` does not.  A run's      *)
(* directory is there before its manifest is, and a command may be killed  *)
(* anywhere: what the next host sees is all that is left of it.            *)
(*                                                                         *)
(* Of a run's statuses only two classes matter here, active and terminal.  *)
(* Runs, and the invocations that start them, are numbered in the order of *)
(* their UUIDv7.                                                           *)
(***************************************************************************)
EXTENDS Naturals, FiniteSets

CONSTANTS
    Proc,          \* processes and server threads that run commands
    MaxRuns,       \* bound: runs created
    MaxKills,      \* bound: commands killed
    Nothing,
    NoProc

ASSUME LaunchAssumption ==
    /\ MaxRuns \in Nat
    /\ MaxKills \in Nat
    /\ NoProc \notin Proc
    /\ Nothing \notin Nat
    /\ Nothing \notin {"created", "started", "launch_failed"}

Run == 1 .. MaxRuns

\* start: `quinte host start`.  send: a SendMessage that starts a task.
\* reconcile: `quinte host reconcile` without a run.  run: `quinte run`.
HostOp == {"start", "send", "reconcile"}
Op == HostOp \cup {"run"}

VARIABLES
    run,        \* each run's directory: none, made without a manifest, with one
    byHost,     \* the runs host commands created
    launched,   \* the runs whose worker was started
    receipt,    \* the start receipt of each run
    lock,       \* host/launch.lock
    at,         \* where a command stands
    op,         \* what it was asked for
    mine,       \* the run it creates
    told,       \* what a reconcile is about to answer
    kills

disk == <<run, byHost, launched, receipt>>
vars == <<disk, lock, at, op, mine, told, kills>>

Init ==
    /\ run = [r \in Run |-> "none"]
    /\ byHost = {}
    /\ launched = {}
    /\ receipt = [r \in Run |-> Nothing]
    /\ lock = NoProc
    /\ at = [p \in Proc |-> "idle"]
    /\ op = [p \in Proc |-> Nothing]
    /\ mine = [p \in Proc |-> Nothing]
    /\ told = [p \in Proc |-> Nothing]
    /\ kills = 0

At(p, loc) == at[p] = loc

To(p, loc) == at' = [at EXCEPT ![p] = loc]

\* The command returns, with an answer or an error, and so drops the lock.
End(p) ==
    /\ To(p, "idle")
    /\ lock' = IF lock = p THEN NoProc ELSE lock
    /\ op' = [op EXCEPT ![p] = Nothing]
    /\ mine' = [mine EXCEPT ![p] = Nothing]
    /\ told' = [told EXCEPT ![p] = Nothing]

Active == {r \in Run : run[r] = "active"}

\* A directory without a manifest: a host trusts nothing next to it.
Unreadable == \E r \in Run : run[r] = "making"

-----------------------------------------------------------------------------
(* Commands of a host.                                                     *)

Ask(p) ==
    /\ At(p, "idle")
    /\ \E o \in Op :
           /\ op' = [op EXCEPT ![p] = o]
           /\ To(p, CASE o = "send" -> "survey"
                      [] o = "run" -> "create"
                      [] OTHER -> "lock")
    /\ UNCHANGED <<disk, lock, mine, told, kills>>

\* SendMessage looks for active runs before it starts one, without the lock
\* and past anything it cannot read.
Survey(p) ==
    /\ At(p, "survey")
    /\ IF Active = {} THEN To(p, "lock") /\ UNCHANGED <<lock, op, mine, told>> ELSE End(p)
    /\ UNCHANGED <<disk, kills>>

\* The lock is tried once.
Lock(p) ==
    /\ At(p, "lock")
    /\ IF lock = NoProc
       THEN lock' = p /\ To(p, "scan") /\ UNCHANGED <<op, mine, told>>
       ELSE End(p)
    /\ UNCHANGED <<disk, kills>>

\* Mutated: SendMessage has looked already.
RefusedUnlessSent(p) == op[p] # "send" /\ Active # {}

Refused(p) == Active # {}

Scan(p) ==
    /\ At(p, "scan")
    /\ op[p] # "reconcile"
    /\ IF Unreadable \/ Refused(p)
       THEN End(p)
       ELSE To(p, "create") /\ UNCHANGED <<lock, op, mine, told>>
    /\ UNCHANGED <<disk, kills>>

-----------------------------------------------------------------------------
(* create_from_brief_bytes.                                                *)

Unused == {r \in Run : run[r] = "none" /\ \A s \in Run : s < r => run[s] # "none"}

MakeDirs(p) ==
    /\ At(p, "create")
    /\ \E r \in Unused :
           /\ run' = [run EXCEPT ![r] = "making"]
           /\ byHost' = IF op[p] \in HostOp THEN byHost \cup {r} ELSE byHost
           /\ mine' = [mine EXCEPT ![p] = r]
    /\ To(p, "making")
    /\ UNCHANGED <<launched, receipt, lock, op, told, kills>>

SaveManifest(p) ==
    /\ At(p, "making")
    /\ run' = [run EXCEPT ![mine[p]] = "active"]
    /\ To(p, "event")
    /\ UNCHANGED <<byHost, launched, receipt, lock, op, mine, told, kills>>

\* The brief, the snapshot, the manifest or the first event cannot be written:
\* the directory is removed, the manifest included.
CreateFails(p) ==
    /\ at[p] \in {"making", "event"}
    /\ run' = [run EXCEPT ![mine[p]] = "removed"]
    /\ End(p)
    /\ UNCHANGED <<byHost, launched, receipt, kills>>

Created(p) ==
    /\ At(p, "event")
    /\ To(p, IF op[p] \in HostOp THEN "receipt" ELSE "spawn")
    /\ UNCHANGED <<disk, lock, op, mine, told, kills>>

-----------------------------------------------------------------------------
(* The start receipt and the worker.                                       *)

WriteReceipt(p) ==
    /\ At(p, "receipt")
    /\ receipt' = [receipt EXCEPT ![mine[p]] = "created"]
    /\ To(p, "spawn")
    /\ UNCHANGED <<run, byHost, launched, lock, op, mine, told, kills>>

Spawn(p) ==
    /\ At(p, "spawn")
    /\ launched' = launched \cup {mine[p]}
    /\ To(p, IF op[p] \in HostOp THEN "started" ELSE "return")
    /\ UNCHANGED <<run, byHost, receipt, lock, op, mine, told, kills>>

\* No process, or its worker.json cannot be written and it is terminated.
SpawnFails(p) ==
    /\ At(p, "spawn")
    /\ To(p, "failed")
    /\ UNCHANGED <<disk, lock, op, mine, told, kills>>

\* record_worker_failure, which may fail itself.
RecordFailure(p) ==
    /\ At(p, "failed")
    /\ run' \in {run, [run EXCEPT ![mine[p]] = "terminal"]}
    /\ To(p, IF op[p] \in HostOp THEN "unlaunched" ELSE "return")
    /\ UNCHANGED <<byHost, launched, receipt, lock, op, mine, told, kills>>

FinalReceipt(p) ==
    /\ at[p] \in {"started", "unlaunched"}
    /\ receipt' = [receipt EXCEPT ![mine[p]] =
                      IF At(p, "started") THEN "started" ELSE "launch_failed"]
    /\ End(p)
    /\ UNCHANGED <<run, byHost, launched, kills>>

\* `quinte run` has no receipt to write.
Return(p) ==
    /\ At(p, "return")
    /\ End(p)
    /\ UNCHANGED <<disk, kills>>

-----------------------------------------------------------------------------
(* reconcile.                                                              *)

\* Mutated: only a start that came to its end counts.
StartsThatReturned == {r \in Run : receipt[r] = "started"}

Starts == {r \in Run : receipt[r] # Nothing}

\* latest_start_receipt
LatestStart ==
    IF Starts = {} THEN Nothing ELSE CHOOSE r \in Starts : \A s \in Starts : s <= r

\* The one active run, or the last one started if none is active.
Select(p) ==
    /\ At(p, "scan")
    /\ op[p] = "reconcile"
    /\ IF Unreadable
       THEN End(p)
       ELSE /\ told' = [told EXCEPT ![p] =
                 [run |-> CASE Active = {} -> LatestStart
                            [] Cardinality(Active) = 1 -> CHOOSE r \in Active : TRUE
                            [] OTHER -> Nothing,
                  safe |-> Active = {}]]
            /\ To(p, "reconciled")
            /\ UNCHANGED <<lock, op, mine>>
    /\ UNCHANGED <<disk, kills>>

Reconciled(p) ==
    /\ At(p, "reconciled")
    /\ End(p)
    /\ UNCHANGED <<disk, kills>>

-----------------------------------------------------------------------------
(* A run ends, by its worker, by a resume or by a cancellation.            *)
RunEnds(r) ==
    /\ run[r] = "active"
    /\ run' = [run EXCEPT ![r] = "terminal"]
    /\ UNCHANGED <<byHost, launched, receipt, lock, at, op, mine, told, kills>>

\* A kill, or an error of a write that is not undone; the lock goes with the
\* process.
Kill(p) ==
    /\ at[p] # "idle"
    /\ kills < MaxKills
    /\ kills' = kills + 1
    /\ End(p)
    /\ UNCHANGED disk

Next ==
    \/ \E p \in Proc :
          \/ Ask(p) \/ Survey(p) \/ Lock(p) \/ Scan(p)
          \/ MakeDirs(p) \/ SaveManifest(p) \/ CreateFails(p) \/ Created(p)
          \/ WriteReceipt(p) \/ Spawn(p) \/ SpawnFails(p) \/ RecordFailure(p)
          \/ FinalReceipt(p) \/ Return(p) \/ Select(p) \/ Reconciled(p) \/ Kill(p)
    \/ \E r \in Run : RunEnds(r)

Spec == Init /\ [][Next]_vars

-----------------------------------------------------------------------------
HostActive(r) == r \in byHost /\ run[r] = "active"

\* Hosts never have two runs of theirs active, however their starts race with
\* each other and with `quinte run`, and wherever they are killed (start,
\* active_manifests).
OneActive == \A r, s \in Run : HostActive(r) /\ HostActive(s) => r = s

\* A reconcile that answers launch_safe tells the truth as long as it is being
\* answered, and it names a run no older than the last one whose worker a host
\* started: a start whose answer was lost is found (reconcile,
\* latest_start_receipt).
ReconcileIsTrue ==
    \A p \in Proc :
        At(p, "reconciled") /\ told[p].safe =>
            /\ \A r \in Run : ~HostActive(r)
            /\ \A r \in launched \cap byHost :
                   told[p].run # Nothing /\ r <= told[p].run
=============================================================================
