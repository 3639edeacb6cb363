----------------------------- MODULE WorkerWatch -----------------------------
(***************************************************************************)
(* How `wait` decides that nobody advances its run any more (run.rs, wait  *)
(* and ensure_worker_liveness).  A launcher spawns the worker and then     *)
(* records its process in diagnostics/worker.json; the worker's heartbeat  *)
(* thread rewrites a file every second and leaves a marker when the worker *)
(* process ends in order; a foreground `resume` or `submit` advances the   *)
(* run with neither of them.  A waiter polls the manifest and reads those  *)
(* three files.                                                            *)
(*                                                                         *)
(* The run is reduced to what wait tells apart: a status it goes on        *)
(* waiting in, the manual handoff, a terminal status.                      *)
(***************************************************************************)
EXTENDS Naturals

CONSTANT MaxKills   \* bound: processes killed

VARIABLES status,    \* "open", "waiting" (for the Primary Arbiter), "ended"
          launcher,  \* the process that spawns the worker
          recorded,  \* diagnostics/worker.json exists
          worker,    \* "none", "up", "advancing", "stopping", "gone"
          beat,      \* diagnostics/worker-heartbeat: "none", "fresh", "stale"
          finished,  \* diagnostics/worker-finished exists
          session,   \* the foreground resume or submit
          waiter,    \* where the process in run::wait stands
          kills

vars == <<status, launcher, recorded, worker, beat, finished, session, waiter,
          kills>>

Init ==
    /\ status = "open"
    /\ launcher = "spawning"
    /\ recorded = FALSE
    /\ worker = "none"
    /\ beat = "none"
    /\ finished = FALSE
    /\ session = "idle"
    /\ waiter = "away"
    /\ kills = 0

\* The scheduler lock: one process advances the run at a time.
LockFree == worker # "advancing" /\ session # "advancing"

\* ps -p on the recorded pid.
ProcessAlive == worker \in {"up", "advancing", "stopping"}

-----------------------------------------------------------------------------
(* The launcher: the process first, its record after it.                   *)

SpawnBackgroundWorker ==
    /\ launcher = "spawning"
    /\ launcher' = "recording"
    /\ worker' = "up"
    /\ UNCHANGED <<status, recorded, beat, finished, session, waiter, kills>>

WriteWorkerRecord ==
    /\ launcher = "recording"
    /\ launcher' = "done"
    /\ recorded' = TRUE
    /\ UNCHANGED <<status, worker, beat, finished, session, waiter, kills>>

-----------------------------------------------------------------------------
(* The worker process.                                                     *)

\* A dead worker's file ages; nobody else writes it.
Heartbeat ==
    /\ \/ /\ ProcessAlive
          /\ beat' = "fresh"
       \/ /\ worker = "gone"
          /\ beat = "fresh"
          /\ beat' = "stale"
    /\ UNCHANGED <<status, launcher, recorded, worker, finished, session,
                   waiter, kills>>

\* advance: somebody else's lock ends the worker without a failure record.
WorkerAdvances ==
    /\ worker = "up"
    /\ worker' = IF LockFree /\ status = "open" THEN "advancing" ELSE "stopping"
    /\ UNCHANGED <<status, launcher, recorded, beat, finished, session, waiter,
                   kills>>

WorkerStops ==
    /\ worker = "advancing"
    /\ worker' = "stopping"
    /\ status' \in {"waiting", "ended"}
    /\ UNCHANGED <<launcher, recorded, beat, finished, session, waiter, kills>>

\* Drop of WorkerHeartbeat.
WorkerFinishes ==
    /\ worker = "stopping"
    /\ worker' = "gone"
    /\ finished' = TRUE
    /\ UNCHANGED <<status, launcher, recorded, beat, session, waiter, kills>>

-----------------------------------------------------------------------------
(* A foreground session: resume on an open run, submit on a waiting one.   *)
(* Nothing records it and nothing removes the worker's marker.             *)

SessionBegins ==
    /\ session = "idle"
    /\ status # "ended"
    /\ LockFree
    /\ session' = "advancing"
    /\ status' = "open"
    /\ UNCHANGED <<launcher, recorded, worker, beat, finished, waiter, kills>>

SessionStops ==
    /\ session = "advancing"
    /\ session' = "over"
    /\ status' \in {"waiting", "ended"}
    /\ UNCHANGED <<launcher, recorded, worker, beat, finished, waiter, kills>>

Kill ==
    /\ kills < MaxKills
    /\ kills' = kills + 1
    /\ \/ /\ launcher \in {"spawning", "recording"}
          /\ launcher' = "gone"
          /\ UNCHANGED <<worker, session>>
       \/ /\ ProcessAlive
          /\ worker' = "gone"
          /\ UNCHANGED <<launcher, session>>
       \/ /\ session = "advancing"
          /\ session' = "over"
          /\ UNCHANGED <<launcher, worker>>
    /\ UNCHANGED <<status, recorded, beat, finished, waiter>>

-----------------------------------------------------------------------------
(* The waiter.                                                             *)

\* What ensure_worker_liveness finds: no record, or a marker, is taken for a
\* run in order.
LooksAlive ==
    \/ ~recorded
    \/ finished
    \/ beat # "stale" /\ ProcessAlive

StartWait ==
    /\ waiter = "away"
    /\ waiter' = "polling"
    /\ UNCHANGED <<status, launcher, recorded, worker, beat, finished, session,
                   kills>>

PollManifest ==
    /\ waiter = "polling"
    /\ waiter' = IF status = "open" THEN "checking" ELSE "returned"
    /\ UNCHANGED <<status, launcher, recorded, worker, beat, finished, session,
                   kills>>

\* A worker that looks dead is reported only if the run, read again, is open.
EnsureWorkerLiveness ==
    /\ waiter = "checking"
    /\ waiter' = IF LooksAlive \/ status # "open" THEN "polling" ELSE "reported"
    /\ UNCHANGED <<status, launcher, recorded, worker, beat, finished, session,
                   kills>>

-----------------------------------------------------------------------------
Launch == SpawnBackgroundWorker \/ WriteWorkerRecord

Work == WorkerAdvances \/ WorkerStops \/ WorkerFinishes

Wait == PollManifest \/ EnsureWorkerLiveness

Next ==
    \/ Launch
    \/ Work
    \/ Heartbeat
    \/ SessionBegins
    \/ SessionStops
    \/ Kill
    \/ StartWait
    \/ Wait

\* Processes that are not killed go on, a waiter polls as long as it lives.
\* Nobody has to resume, and nobody has to be killed.
FairSpec ==
    /\ Init /\ [][Next]_vars
    /\ WF_vars(Launch)
    /\ WF_vars(Work)
    /\ WF_vars(Heartbeat)
    /\ WF_vars(SessionStops)
    /\ WF_vars(Wait)

-----------------------------------------------------------------------------
(* Once the run's worker is recorded, a process that waits for the run     *)
(* comes back: with the run's status, or with the report that the worker   *)
(* is dead and the advice to resume (specs/CLI.md:114-116, "instead of     *)
(* polling forever").                                                      *)
WaitEnds ==
    recorded /\ waiter = "polling" ~> waiter \in {"returned", "reported"}
=============================================================================
