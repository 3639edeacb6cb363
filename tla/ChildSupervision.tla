--------------------------- MODULE ChildSupervision ---------------------------
(***************************************************************************)
(* How a worker supervises the adapter processes of its lanes on Unix:     *)
(* registration under .active-pids.lock, the poll of wait_child, the       *)
(* escalation of terminate_child, the capture of the output, the           *)
(* destructor of ChildCleanup, and what the next session does with the     *)
(* processes a killed worker left behind (run.rs, store.rs).               *)
(*                                                                         *)
(* A lane makes one attempt in a session until one has returned (RunPhases *)
(* has the retries).  The child <<lane, session>> is a process group: the  *)
(* leader the worker spawned and whatever the leader started, which is one *)
(* descendant here.  Deadlines are not timed: a step that follows one is   *)
(* always possible, and so is a cancellation (RunStore has its order with  *)
(* the registration of a child).                                           *)
(***************************************************************************)
EXTENDS Naturals, FiniteSets

CONSTANTS Lanes,        \* the lanes of the phase
          Forking,      \* bound: the lanes whose leader forks, or runs another program
          Resuming,     \* bound: the lanes that try again in a later session
          MaxSessions   \* bound: sessions of the run, one more than kills

Nobody == "nobody"

ASSUME SupervisionAssumption ==
  /\ Forking \subseteq Lanes /\ Resuming \subseteq Lanes
  /\ MaxSessions \in Nat \ {0}
  /\ Nobody \notin Lanes

VARIABLES
  session,    \* the session that runs, or ran last
  worker,     \* "up", "dead", "reconciling" or "stuck" (recovery refused)
  at,         \* lane -> where its attempt is
  again,      \* lanes whose ChildCleanup is being dropped
  lock,       \* who holds .active-pids.lock
  pids,       \* active-pids.json
  seen,       \* lane -> the list remove_active_process has read
  leader,     \* child -> state of the process that was spawned
  rest,       \* child -> state of its descendant
  execd,      \* children whose command line changed after it was recorded
  known,      \* children add_process has recorded
  aims,       \* signals of others than an attempt, between their check and the kill
  struck      \* how group ids were signalled that may be somebody else's by then

worldVars == <<leader, rest, execd>>
fileVars == <<pids, known>>
sessionVars == <<session, worker>>
signals == <<aims, struck>>
vars == <<session, worker, at, again, lock, pids, seen,
          leader, rest, execd, known, aims, struck>>

Children == Lanes \X (1 .. MaxSessions)
Child(l) == <<l, session>>

\* Where execute_subprocess_attempt can be.
Steps == {"idle", "admit", "spawned", "watch", "term", "kill", "last", "drain",
          "reap", "capture", "unregister", "remove", "done"}

LeaderStates == {"none", "alive", "doomed", "zombie", "reaped"}
RestStates == {"none", "alive", "doomed", "escaped"}

\* A signal that a reconciling session or a canceller is about to send: to whom,
\* and whether the recorded process was there when they looked.
Aims == [by : {"reconcile", "cancel"}, child : Children, matched : BOOLEAN]

TypeOK ==
  /\ session \in 1 .. MaxSessions
  /\ worker \in {"up", "dead", "reconciling", "stuck"}
  /\ at \in [Lanes -> Steps]
  /\ again \subseteq Lanes
  /\ lock \in Lanes \cup {Nobody}
  /\ pids \subseteq Children
  /\ seen \in [Lanes -> SUBSET Children]
  /\ leader \in [Children -> LeaderStates]
  /\ rest \in [Children -> RestStates]
  /\ execd \subseteq Children
  /\ known \subseteq Children
  /\ aims \subseteq Aims
  /\ struck \subseteq {"blind", "overtaken"}

Init ==
  /\ session = 1
  /\ worker = "up"
  /\ at = [l \in Lanes |-> "idle"]
  /\ again = {}
  /\ lock = Nobody
  /\ pids = {}
  /\ seen = [l \in Lanes |-> {}]
  /\ leader = [c \in Children |-> "none"]
  /\ rest = [c \in Children |-> "none"]
  /\ execd = {}
  /\ known = {}
  /\ aims = {}
  /\ struck = {}

-----------------------------------------------------------------------------
(* What the operating system does with a signal and with an exit.          *)

Running(c) == leader[c] \in {"alive", "doomed"}
Exited(c) == leader[c] = "zombie"

\* process_matches: start time and command line are those that were recorded.
Matches(c) == Running(c) /\ c \notin execd

\* SIGKILL to the group: who is in it will not run again, though it may take
\* its time to go (an uninterruptible sleep).
Doomed(state) == IF state = "alive" THEN "doomed" ELSE state
KillGroup(c) ==
  /\ leader' = [leader EXCEPT ![c] = Doomed(@)]
  /\ rest' = [rest EXCEPT ![c] = Doomed(@)]

\* The group id may belong to a stranger once the leader was reaped and nobody
\* is left in its group: a signal may then hit the stranger.
MayBeReused(c) == leader[c] = "reaped" /\ rest[c] \notin {"alive", "doomed"}
Struck(c, how) == struck' = IF MayBeReused(c) THEN struck \cup {how} ELSE struck

\* An attempt signals the group of its child without asking ps who that is.
Strike(c) == Struck(c, "blind") /\ UNCHANGED aims

\* Mutated: whoever has the recorded process id.
Recorded(c) == c \in known

\* kill_verified_process_tree looks who has the id, by ps, ...
Verified(c) == Matches(c)

\* Both look at one process after the other.
Aiming(by) == \E a \in aims : a.by = by

TakesAim(by, c) ==
  /\ Verified(c) /\ ~Aiming(by)
  /\ aims' = aims \cup {[by |-> by, child |-> c, matched |-> Matches(c)]}
  /\ UNCHANGED struck

\* ... and then signals the group, with SIGTERM or SIGKILL.  The process may have
\* ended in between, and its id may be another one's.
Fires(by, c) ==
  \E a \in aims :
    /\ a.by = by /\ a.child = c
    /\ KillGroup(c) \/ UNCHANGED <<leader, rest>>
    /\ Struck(c, IF a.matched THEN "overtaken" ELSE "blind")
    /\ aims' = aims \ {a}

Goto(l, step) == at' = [at EXCEPT ![l] = step]

LockIsFree == lock = Nobody
Release(l) == lock' = IF lock = l THEN Nobody ELSE lock

-----------------------------------------------------------------------------
(* execute_subprocess_attempt                                              *)

\* store.process_registration: the lock is held until the child is recorded.
Register(l) ==
  /\ worker = "up" /\ at[l] = "idle" /\ LockIsFree
  /\ session = 1 \/ l \in Resuming
  /\ lock' = l
  /\ Goto(l, "admit")
  /\ UNCHANGED <<sessionVars, again, fileVars, seen, worldVars, signals>>

\* A cancellation came first, or the program does not start.
NotSpawned(l) ==
  /\ at[l] = "admit"
  /\ Release(l)
  /\ Goto(l, "done")
  /\ UNCHANGED <<sessionVars, again, fileVars, seen, worldVars, signals>>

Spawn(l) ==
  /\ at[l] = "admit"
  /\ leader' = [leader EXCEPT ![Child(l)] = "alive"]
  /\ Goto(l, "spawned")
  /\ UNCHANGED <<sessionVars, again, lock, fileVars, seen, rest, execd, signals>>

\* process_identity, add_process, and the registration is dropped.
Identify(l) ==
  /\ at[l] = "spawned"
  /\ pids' = pids \cup {Child(l)}
  /\ known' = known \cup {Child(l)}
  /\ Release(l)
  /\ Goto(l, "watch")
  /\ UNCHANGED <<sessionVars, again, seen, worldVars, signals>>

\* ps does not know the child, which has exited: its group is drained.
ExitedUnidentified(l) ==
  /\ at[l] = "spawned" /\ Exited(Child(l))
  /\ KillGroup(Child(l)) /\ Strike(Child(l))
  /\ Release(l)
  /\ Goto(l, "watch")
  /\ UNCHANGED <<sessionVars, again, fileVars, seen, execd>>

\* ps fails for a child that runs: the error drops the ChildCleanup, which
\* signals the group and keeps the registration lock until it is done.
Unidentified(l) ==
  /\ at[l] = "spawned" /\ Running(Child(l))
  /\ Strike(Child(l))
  /\ again' = again \cup {l}
  /\ Goto(l, "term")
  /\ UNCHANGED <<sessionVars, lock, fileVars, seen, worldVars>>

\* wait_child: a cancellation, the output limit or the deadline.  SIGTERM
\* leaves the group its choice, so that nothing changes but who was asked.
Stop(l) ==
  /\ at[l] = "watch"
  /\ Strike(Child(l))
  /\ Goto(l, "term")
  /\ UNCHANGED <<sessionVars, again, lock, fileVars, seen, worldVars>>

\* Mutated: the poll reaps the leader it finds dead (try_wait).
SeesExitAndReaps(l) ==
  /\ at[l] \in {"watch", "term", "kill", "last"}
  /\ leader[Child(l)] \in {"zombie", "reaped"}
  /\ leader' = [leader EXCEPT ![Child(l)] = "reaped"]
  /\ Goto(l, "drain")
  /\ UNCHANGED <<sessionVars, again, lock, fileVars, seen, rest, execd, signals>>

\* wait_child and terminate_child see the exit without reaping the leader.
SeesExit(l) ==
  /\ at[l] \in {"watch", "term", "kill", "last"}
  /\ leader[Child(l)] \in {"zombie", "reaped"}
  /\ Goto(l, "drain")
  /\ UNCHANGED <<sessionVars, again, lock, fileVars, seen, worldVars, signals>>

\* The grace period of terminate_child is over.
ForceGroup(l) ==
  /\ at[l] = "term"
  /\ KillGroup(Child(l)) /\ Strike(Child(l))
  /\ Goto(l, "kill")
  /\ UNCHANGED <<sessionVars, again, lock, fileVars, seen, execd>>

\* Two seconds later: child.kill(), which does nothing once it was reaped.
ForceLeader(l) ==
  /\ at[l] = "kill"
  /\ leader' = [leader EXCEPT ![Child(l)] = Doomed(@)]
  /\ Goto(l, "last")
  /\ UNCHANGED <<sessionVars, again, lock, fileVars, seen, rest, execd, signals>>

\* Mutated: the last wait of terminate_child has no deadline.
WaitsForExit(l) ==
  /\ at[l] = "last" /\ Exited(Child(l))
  /\ Goto(l, "drain")
  /\ UNCHANGED <<sessionVars, again, lock, fileVars, seen, worldVars, signals>>

\* Two more seconds later terminate_child gives up.  wait_child makes it an
\* error, and the destructor tries once more.
GiveUp(l) ==
  /\ at[l] = "last"
  /\ KillGroup(Child(l)) /\ Strike(Child(l))
  /\ again' = again \cup {l}
  /\ Goto(l, IF l \in again THEN "unregister" ELSE "term")
  /\ UNCHANGED <<sessionVars, lock, fileVars, seen, execd>>

\* Mutated: the group of a leader that exited is left alone.
DrainNobody(l) ==
  /\ at[l] = "drain"
  /\ Goto(l, "reap")
  /\ UNCHANGED <<sessionVars, again, lock, fileVars, seen, worldVars, signals>>

\* kill_residual_process_group, for as long as the leader is not reaped.
Drain(l) ==
  /\ at[l] = "drain"
  /\ KillGroup(Child(l)) /\ Strike(Child(l))
  /\ Goto(l, "reap")
  /\ UNCHANGED <<sessionVars, again, lock, fileVars, seen, execd>>

\* child.wait(); a destructor goes on to the list of processes.
Reap(l) ==
  /\ at[l] = "reap"
  /\ leader' = [leader EXCEPT ![Child(l)] = IF @ = "zombie" THEN "reaped" ELSE @]
  /\ Goto(l, IF l \in again THEN "unregister" ELSE "capture")
  /\ UNCHANGED <<sessionVars, again, lock, fileVars, seen, rest, execd, signals>>

\* The readers end when nobody holds the other end of the pipes.
PipesClosed(l) == rest[Child(l)] = "none"

Capture(l) ==
  /\ at[l] = "capture" /\ PipesClosed(l)
  /\ Goto(l, "unregister")
  /\ UNCHANGED <<sessionVars, again, lock, fileVars, seen, worldVars, signals>>

\* Five seconds without the end of a stream are an error; the tree counts as
\* cleaned, so that the destructor only unregisters.
CaptureFails(l) ==
  /\ at[l] = "capture" /\ ~PipesClosed(l)
  /\ again' = again \cup {l}
  /\ Goto(l, "unregister")
  /\ UNCHANGED <<sessionVars, lock, fileVars, seen, worldVars, signals>>

\* remove_active_process reads the list and writes it back under the lock; a
\* child that was never recorded has nothing to remove.
NothingToRemove(l) ==
  /\ at[l] = "unregister" /\ Child(l) \notin known
  /\ Release(l)
  /\ Goto(l, "done")
  /\ UNCHANGED <<sessionVars, again, fileVars, seen, worldVars, signals>>

\* Mutated: the list is read and written back without the lock.
ReadPidsUnlocked(l) ==
  /\ at[l] = "unregister" /\ Child(l) \in known
  /\ seen' = [seen EXCEPT ![l] = pids]
  /\ Goto(l, "remove")
  /\ UNCHANGED <<sessionVars, again, lock, fileVars, worldVars, signals>>

ReadPids(l) ==
  /\ at[l] = "unregister" /\ Child(l) \in known
  /\ LockIsFree
  /\ lock' = l
  /\ seen' = [seen EXCEPT ![l] = pids]
  /\ Goto(l, "remove")
  /\ UNCHANGED <<sessionVars, again, fileVars, worldVars, signals>>

WritePids(l) ==
  /\ at[l] = "remove"
  /\ pids' = seen[l] \ {Child(l)}
  /\ seen' = [seen EXCEPT ![l] = {}]
  /\ Release(l)
  /\ Goto(l, "done")
  /\ UNCHANGED <<sessionVars, again, known, worldVars, signals>>

-----------------------------------------------------------------------------
(* The next session: reconcile_orphan_processes.                           *)

\* advance() takes the run lock of the dead worker and reads the list.
Restart ==
  /\ worker \in {"dead", "stuck"} /\ session < MaxSessions /\ LockIsFree
  /\ session' = session + 1
  /\ worker' = "reconciling"
  /\ UNCHANGED <<at, again, lock, fileVars, seen, worldVars, signals>>

\* An entry that is not the recorded process any more is dropped.
ForgetOrphan(c) ==
  /\ worker = "reconciling" /\ ~Aiming("reconcile") /\ c \in pids /\ LockIsFree
  /\ ~Matches(c)
  /\ pids' = pids \ {c}
  /\ UNCHANGED <<sessionVars, at, again, lock, known, seen, worldVars, signals>>

\* SIGTERM, two seconds, SIGKILL: each when the process still matches.
AimAtOrphan(c) ==
  /\ worker = "reconciling" /\ c \in pids
  /\ TakesAim("reconcile", c)
  /\ UNCHANGED <<sessionVars, at, again, lock, fileVars, seen, worldVars>>

SignalOrphan(c) ==
  /\ Fires("reconcile", c)
  /\ UNCHANGED <<sessionVars, at, again, lock, fileVars, seen, execd>>

\* Two more seconds and it is still there: the run is not recovered.
OrphanSurvives(c) ==
  /\ worker = "reconciling" /\ ~Aiming("reconcile") /\ c \in pids /\ Matches(c)
  /\ leader[c] = "doomed"
  /\ worker' = "stuck"
  /\ UNCHANGED <<session, at, again, lock, fileVars, seen, worldVars, signals>>

Reconciled ==
  /\ worker = "reconciling" /\ ~Aiming("reconcile") /\ pids = {}
  /\ worker' = "up"
  /\ UNCHANGED <<session, at, again, lock, fileVars, seen, worldVars, signals>>

-----------------------------------------------------------------------------
(* cancel(), from another process.                                         *)

\* It signals the processes it found in active-pids.json, some time later, if
\* they still match: twice, with half a second in between.
AimAtSnapshot(c) ==
  /\ c \in known
  /\ TakesAim("cancel", c)
  /\ UNCHANGED <<sessionVars, at, again, lock, fileVars, seen, worldVars>>

SignalSnapshot(c) ==
  /\ Fires("cancel", c)
  /\ UNCHANGED <<sessionVars, at, again, lock, fileVars, seen, execd>>

-----------------------------------------------------------------------------
(* The processes themselves, and the death of the worker.                  *)

WorldOnly == UNCHANGED <<sessionVars, at, again, lock, fileVars, seen, signals>>

\* The worker that has to reap the child is gone, or not.
Orphaned(c) == c[2] # session \/ worker # "up"

LeaderForks(c) ==
  /\ leader[c] = "alive" /\ rest[c] = "none" /\ ~Orphaned(c)
  /\ c[1] \in Forking
  /\ rest' = [rest EXCEPT ![c] = "alive"]
  /\ UNCHANGED <<leader, execd>> /\ WorldOnly

\* A descendant leaves the group and keeps the pipes.
RestEscapes(c) ==
  /\ rest[c] = "alive"
  /\ rest' = [rest EXCEPT ![c] = "escaped"]
  /\ UNCHANGED <<leader, execd>> /\ WorldOnly

RestExits(c) ==
  /\ rest[c] \in {"alive", "doomed", "escaped"}
  /\ rest' = [rest EXCEPT ![c] = "none"]
  /\ UNCHANGED <<leader, execd>> /\ WorldOnly

LeaderExits(c) ==
  /\ Running(c)
  /\ leader' = [leader EXCEPT ![c] = IF Orphaned(c) THEN "reaped" ELSE "zombie"]
  /\ execd' = execd \ {c}
  /\ UNCHANGED rest /\ WorldOnly

\* The program replaces itself by another (a wrapper script, env).
LeaderExecs(c) ==
  /\ leader[c] = "alive" /\ c \in known /\ c[1] \in Forking
  /\ execd' = execd \cup {c}
  /\ UNCHANGED <<leader, rest>> /\ WorldOnly

\* The worker is killed: its locks are dropped, init reaps its zombies.  What
\* the leaders had started is not followed further: no session looks for it.
Kill ==
  /\ worker \in {"up", "reconciling"} /\ session < MaxSessions
  /\ worker' = "dead"
  /\ at' = [l \in Lanes |-> IF at[l] = "done" THEN "done" ELSE "idle"]
  /\ again' = {}
  /\ lock' = Nobody
  /\ seen' = [l \in Lanes |-> {}]
  /\ leader' = [c \in Children |-> IF leader[c] = "zombie" THEN "reaped" ELSE leader[c]]
  /\ rest' = [c \in Children |-> "none"]
  /\ aims' = {a \in aims : a.by = "cancel"}
  /\ UNCHANGED <<session, fileVars, execd, struck>>

-----------------------------------------------------------------------------
Attempt(l) ==
  \/ Register(l) \/ NotSpawned(l) \/ Spawn(l)
  \/ Identify(l) \/ ExitedUnidentified(l) \/ Unidentified(l)
  \/ Stop(l) \/ SeesExit(l) \/ ForceGroup(l) \/ ForceLeader(l) \/ GiveUp(l)
  \/ Drain(l) \/ Reap(l) \/ Capture(l) \/ CaptureFails(l)
  \/ NothingToRemove(l) \/ ReadPids(l) \/ WritePids(l)

Reconcile ==
  \/ Reconciled
  \/ \E c \in Children : ForgetOrphan(c) \/ AimAtOrphan(c) \/ SignalOrphan(c) \/ OrphanSurvives(c)

World(c) ==
  \/ LeaderForks(c) \/ RestEscapes(c) \/ RestExits(c)
  \/ LeaderExits(c) \/ LeaderExecs(c)

Next ==
  \/ \E l \in Lanes : Attempt(l)
  \/ Restart \/ Reconcile
  \/ \E c \in Children : AimAtSnapshot(c) \/ SignalSnapshot(c) \/ World(c)
  \/ Kill

Spec == Init /\ [][Next]_vars

\* The threads of a worker that lives go on: every wait of an attempt has a
\* deadline.  Nothing is assumed of the processes.
FairSpec == Spec /\ \A l \in Lanes : WF_vars(Attempt(l))

-----------------------------------------------------------------------------
(* Properties                                                              *)

\* No signal goes to a process group that took over the id of a child, unless that
\* happened between the check of a reconciliation or a cancellation and its kill:
\* those signal whom they have just found under its start time and command line
\* (kill_verified_process_tree), and an attempt, which does not look, has its
\* leader unreaped (kill_residual_process_group).
NoStrayKill == "blind" \notin struck

\* wait_child, terminate_child and ChildCleanup: however an attempt ends,
\* nobody who stayed in its process group goes on running.
LeavesNothing ==
  \A l \in Lanes : at[l] \in {"capture", "unregister", "remove", "done"} =>
    leader[Child(l)] # "alive" /\ rest[Child(l)] # "alive"

\* add_process, remove_active_process and reconcile_orphan_processes: once a
\* session has recovered the run, no adapter an earlier one recorded runs any
\* more, except one that changed its command line in between.
OrphansFound ==
  worker = "up" =>
    \A c \in known \ execd : c[2] < session => leader[c] # "alive"

\* terminate_child (run.rs:3683) and receive_captured_output: an attempt comes
\* back although its processes ignore signals, never die, leave the group or
\* keep the pipes open, or its worker is killed.
AttemptEnds ==
  \A l \in Lanes : at[l] # "idle" ~> at[l] \in {"idle", "done"}
=============================================================================
