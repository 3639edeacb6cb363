------------------------ MODULE ChildSupervisionProofs ------------------------
(***************************************************************************)
(* What ChildSupervision promises, for any lanes, forks and sessions.      *)
(***************************************************************************)
EXTENDS ChildSupervision, TLAPS

\* Where an attempt has a child whose leader it has not reaped.
Held == {"spawned", "watch", "term", "kill", "last", "drain", "reap"}

\* An attempt goes on only while its worker lives.
Working == \A l \in Lanes : at[l] \notin {"idle", "done"} => worker = "up"

\* Nothing is known of a child that was not spawned.
Fresh == \A c \in Children :
    \/ c[2] > session
    \/ c[2] = session /\ worker # "dead" /\ at[c[1]] \in {"idle", "admit"}
    => leader[c] = "none" /\ rest[c] = "none" /\ c \notin known

\* The leader is not reaped before its group is drained.
Kept == \A l \in Lanes :
    /\ at[l] \in Held => leader[Child(l)] \in {"alive", "doomed", "zombie"}
    /\ at[l] \in {"drain", "reap"} => leader[Child(l)] = "zombie"
    /\ at[l] = "reap" => rest[Child(l)] # "alive"

\* Who registers a child or removes one holds the lock, and writes back the
\* list there is.
Locked == \A l \in Lanes :
    /\ at[l] \in {"admit", "spawned", "remove"} => lock = l
    /\ at[l] = "remove" => seen[l] = pids

\* A recorded adapter that runs, under the command line recorded, is listed.
Listed == \A c \in known \ execd : leader[c] = "alive" => c \in pids

\* Whoever is about to signal a recorded process has found it under its start
\* time and command line.
Looked == \A a \in aims : a.matched

SInv ==
    /\ TypeOK /\ Working /\ Fresh /\ Kept /\ Locked /\ Listed /\ Looked
    /\ LeavesNothing /\ OrphansFound /\ NoStrayKill

USE SupervisionAssumption 
    DEF Children, Steps, LeaderStates, RestStates, signals

-----------------------------------------------------------------------------
LEMMA InitInv == Init => SInv
<1> SUFFICES ASSUME Init PROVE SInv
    OBVIOUS
<1>1. TypeOK
      BY DEF Init, TypeOK
<1>2. Working /\ Fresh /\ Kept /\ Locked /\ Listed /\ Looked
      BY DEF Init, Working, Fresh, Kept, Locked, Listed, Looked, Held
<1>3. LeavesNothing /\ OrphansFound /\ NoStrayKill
      BY DEF Init, LeavesNothing, OrphansFound, NoStrayKill
<1>4. QED  BY <1>1, <1>2, <1>3 DEF SInv

\* Every lane has a child of its own in a session.
LEMMA ChildIs ==
    ASSUME TypeOK, NEW l \in Lanes
    PROVE  /\ Child(l) \in Children
           /\ Child(l)[1] = l /\ Child(l)[2] = session
           /\ \A c \in Children : c[1] = l /\ c[2] = session => c = Child(l)
           /\ \A k \in Lanes : Child(k) = Child(l) => k = l
BY DEF TypeOK, Child

\* A signal on its way is to a child, from a session or from a canceller.
LEMMA AimIs ==
    ASSUME NEW c \in Children, NEW by \in {"reconcile", "cancel"}
    PROVE  [by |-> by, child |-> c, matched |-> TRUE] \in Aims
BY DEF Aims

\* An attempt asks, waits, or signals the group of its child.
LEMMA Signalling ==
    ASSUME SInv, NEW l \in Lanes,
           ExitedUnidentified(l) \/ Unidentified(l) \/ Stop(l) \/ SeesExit(l) \/ ForceGroup(l)
               \/ ForceLeader(l) \/ GiveUp(l) \/ Drain(l)
    PROVE  SInv'
<1>0. /\ at' = [at EXCEPT ![l] = at'[l]]
      /\ at[l] \in Held \ {"reap"}
      /\ at'[l] \in (Held \ {"spawned"}) \cup {"unregister"}
      /\ at'[l] = "drain" => leader[Child(l)] \in {"zombie", "reaped"} /\ UNCHANGED leader
      /\ at'[l] = "reap" => at[l] = "drain" /\ KillGroup(Child(l))
      /\ \/ UNCHANGED leader
         \/ leader' = [leader EXCEPT ![Child(l)] = Doomed(leader[Child(l)])]
      /\ \/ UNCHANGED rest
         \/ rest' = [rest EXCEPT ![Child(l)] = Doomed(rest[Child(l)])]
      /\ struck' = struck \/ struck' = struck \cup {"blind"}
      /\ lock' \in {lock, Nobody}
      /\ again' \in {again, again \cup {l}}
      /\ UNCHANGED <<session, worker, pids, seen, execd, known, aims>>
  <2>1. at'[l] = "reap" /\ at' = [at EXCEPT ![l] = at'[l]] => Drain(l)
        BY DEF SInv, TypeOK, ExitedUnidentified, Unidentified, Stop, SeesExit,
           ForceGroup, ForceLeader, GiveUp, Goto
  <2>2. QED
        BY DEF SInv, TypeOK, Held, ExitedUnidentified, Unidentified, Stop, SeesExit,
           ForceGroup, ForceLeader, GiveUp, Drain, KillGroup, Strike, Struck, Goto, Release,
           sessionVars, fileVars, worldVars
<1>1. TypeOK'
  <2>1. at'[l] \in Steps
        BY <1>0 DEF Held
  <2>2. \A s \in LeaderStates : Doomed(s) \in LeaderStates
        BY DEF Doomed
  <2>3. \A s \in RestStates : Doomed(s) \in RestStates
        BY DEF Doomed
  <2>4. Child(l) \in Children
        BY ChildIs DEF SInv
  <2>5. leader' \in [Children -> LeaderStates]
        BY <1>0, <2>2 DEF SInv, TypeOK
  <2>6. rest' \in [Children -> RestStates]
        BY <1>0, <2>3 DEF SInv, TypeOK
  <2>7. at' \in [Lanes -> Steps]
        BY <1>0, <2>1 DEF SInv, TypeOK
  <2>8. struck' \subseteq {"blind", "overtaken"} /\ again' \subseteq Lanes
        BY <1>0 DEF SInv, TypeOK
  <2>9. QED  BY <1>0, <2>5, <2>6, <2>7, <2>8 DEF SInv, TypeOK
<1>2. Working'
      BY DEF SInv, Working, ExitedUnidentified, Unidentified, Stop, SeesExit,
         ForceGroup, ForceLeader, GiveUp, Drain, sessionVars
<1>3. Fresh'
      BY DEF SInv, Fresh, TypeOK, ExitedUnidentified, Unidentified, Stop, SeesExit,
         ForceGroup, ForceLeader, GiveUp, Drain, KillGroup, Doomed, Goto, sessionVars,
         fileVars, worldVars
<1>4. Kept'
  <2>1. leader[Child(l)] \in {"alive", "doomed", "zombie"}
        BY <1>0 DEF SInv, Kept
  <2>2. Child(l) \in Children /\ \A k \in Lanes \ {l} : Child(k) \in Children \ {Child(l)}
        BY ChildIs DEF SInv
  <2>3. leader'[Child(l)] \in {"alive", "doomed", "zombie"}
        BY <1>0, <2>1 DEF SInv, TypeOK, Doomed
  <2>4. \A k \in Lanes \ {l} :
            /\ Child(k)' = Child(k) /\ at'[k] = at[k]
            /\ leader'[Child(k)] = leader[Child(k)] /\ rest'[Child(k)] = rest[Child(k)]
        BY <1>0 DEF SInv, TypeOK, Child
  <2>5. at'[l] \in {"drain", "reap"} => leader'[Child(l)] = "zombie"
        BY <1>0 DEF SInv, TypeOK, Kept, Doomed
  <2>6. at'[l] = "reap" => rest'[Child(l)] # "alive"
        BY <1>0, <2>2 DEF SInv, TypeOK, KillGroup, Doomed
  <2>7. Child(l)' = Child(l)
        BY <1>0 DEF Child
  <2>8. QED  BY <2>3, <2>4, <2>5, <2>6, <2>7 DEF SInv, Kept
<1>5. Locked'
      BY DEF SInv, Locked, TypeOK, ExitedUnidentified, Unidentified, Stop, SeesExit,
         ForceGroup, ForceLeader, GiveUp, Drain, Goto, fileVars
<1>6. Listed'
      BY DEF SInv, Listed, TypeOK, ExitedUnidentified, Unidentified, Stop, SeesExit,
         ForceGroup, ForceLeader, GiveUp, Drain, KillGroup, Doomed, fileVars, worldVars
<1>7. LeavesNothing'
      BY ChildIs DEF SInv, LeavesNothing, Kept, Fresh, Child, TypeOK, Working,
         ExitedUnidentified, Unidentified, Stop, SeesExit, ForceGroup, ForceLeader,
         GiveUp, Drain, KillGroup, Doomed, Strike, Struck, MayBeReused, Running, Exited, Goto,
         Release, sessionVars, worldVars
<1>8. OrphansFound'
      BY DEF SInv, OrphansFound, TypeOK, ExitedUnidentified, Unidentified, Stop,
         SeesExit, ForceGroup, ForceLeader, GiveUp, Drain, KillGroup, Doomed,
         sessionVars, fileVars, worldVars
<1>9. NoStrayKill'
      BY DEF SInv, NoStrayKill, Kept, Held, ExitedUnidentified, Unidentified, Stop,
         SeesExit, ForceGroup, ForceLeader, GiveUp, Drain, Strike, Struck, MayBeReused
<1>10. Looked'
      BY DEF SInv, Looked, ExitedUnidentified, Unidentified, Stop, SeesExit, ForceGroup, ForceLeader, GiveUp, Drain, Strike
<1>11. QED  BY <1>1, <1>2, <1>3, <1>4, <1>5, <1>6, <1>7, <1>8, <1>9, <1>10 DEF SInv

\* An attempt is admitted or refused, captured, or has nothing to remove.
LEMMA Proceeding ==
    ASSUME SInv, NEW l \in Lanes,
           Register(l) \/ NotSpawned(l) \/ Capture(l) \/ CaptureFails(l) \/ NothingToRemove(l)
    PROVE  SInv'
<1>1. TypeOK'
      BY DEF SInv, TypeOK, Register, NotSpawned, Capture, CaptureFails,
         NothingToRemove, Goto, Release, sessionVars, fileVars, worldVars
<1>2. Working'
      BY DEF SInv, Working, Register, NotSpawned, Capture, CaptureFails,
         NothingToRemove, sessionVars
<1>3. Fresh'
      BY DEF SInv, Fresh, TypeOK, Register, NotSpawned, Capture, CaptureFails,
         NothingToRemove, Goto, sessionVars, fileVars, worldVars
<1>4. Kept'
      BY DEF SInv, Kept, Held, Child, TypeOK, Register, NotSpawned, Capture,
         CaptureFails, NothingToRemove, Goto, sessionVars, worldVars
<1>5. Locked'
      BY DEF SInv, Locked, TypeOK, Register, NotSpawned, Capture, CaptureFails,
         NothingToRemove, LockIsFree, Goto, Release, fileVars
<1>6. Listed'
      BY DEF SInv, Listed, Register, NotSpawned, Capture, CaptureFails,
         NothingToRemove, fileVars, worldVars
<1>7. LeavesNothing'
      BY DEF SInv, LeavesNothing, Fresh, Child, TypeOK, Working, Register, NotSpawned,
         Capture, CaptureFails, NothingToRemove, Goto, sessionVars, worldVars
<1>8. OrphansFound'
      BY DEF SInv, OrphansFound, Register, NotSpawned, Capture, CaptureFails,
         NothingToRemove, sessionVars, fileVars, worldVars
<1>9. NoStrayKill'
      BY DEF SInv, NoStrayKill, Register, NotSpawned, Capture, CaptureFails,
         NothingToRemove
<1>10. Looked'
      BY DEF SInv, Looked, Register, NotSpawned, Capture, CaptureFails, NothingToRemove
<1>11. QED  BY <1>1, <1>2, <1>3, <1>4, <1>5, <1>6, <1>7, <1>8, <1>9, <1>10 DEF SInv

\* A child is spawned.
LEMMA Spawning ==
    ASSUME SInv, NEW l \in Lanes, Spawn(l)
    PROVE  SInv'
<1>1. TypeOK'
      BY DEF SInv, TypeOK, Spawn, Goto, sessionVars, fileVars
<1>2. Working'
      BY DEF SInv, Working, Spawn, sessionVars
<1>3. Fresh'
      BY DEF SInv, Fresh, Child, TypeOK, Spawn, Goto, sessionVars, fileVars
<1>4. Kept'
      BY DEF SInv, Kept, Child, TypeOK, Spawn, Goto, sessionVars
<1>5. Locked'
      BY DEF SInv, Locked, Spawn, Goto
<1>6. Listed'
      BY ChildIs DEF SInv, Listed, Fresh, Working, Spawn, fileVars
<1>7. LeavesNothing'
      BY DEF SInv, LeavesNothing, Child, Spawn, Goto, sessionVars
<1>8. OrphansFound'
      BY DEF SInv, OrphansFound, Child, TypeOK, Spawn, sessionVars, fileVars
<1>9. NoStrayKill'
      BY DEF SInv, NoStrayKill, Spawn
<1>10. Looked'
      BY DEF SInv, Looked, Spawn
<1>11. QED  BY <1>1, <1>2, <1>3, <1>4, <1>5, <1>6, <1>7, <1>8, <1>9, <1>10 DEF SInv

\* A child is recorded.
LEMMA Identifying ==
    ASSUME SInv, NEW l \in Lanes, Identify(l)
    PROVE  SInv'
<1>1. TypeOK'
      BY ChildIs DEF SInv, TypeOK, Identify, Goto, Release, sessionVars, worldVars
<1>2. Working'
      BY DEF SInv, Working, Identify, sessionVars
<1>3. Fresh'
      BY DEF SInv, Fresh, Child, Identify, Goto, sessionVars, worldVars
<1>4. Kept'
      BY DEF SInv, Kept, Held, Child, Identify, Goto, sessionVars, worldVars
<1>5. Locked'
      BY DEF SInv, Locked, TypeOK, Identify, Goto
<1>6. Listed'
      BY DEF SInv, Listed, Identify, worldVars
<1>7. LeavesNothing'
      BY DEF SInv, LeavesNothing, Child, Identify, Goto, sessionVars, worldVars
<1>8. OrphansFound'
      BY DEF SInv, OrphansFound, Child, TypeOK, Identify, sessionVars, worldVars
<1>9. NoStrayKill'
      BY DEF SInv, NoStrayKill, Identify
<1>10. Looked'
      BY DEF SInv, Looked, Identify
<1>11. QED  BY <1>1, <1>2, <1>3, <1>4, <1>5, <1>6, <1>7, <1>8, <1>9, <1>10 DEF SInv

\* A leader that exited is reaped.
LEMMA Reaping ==
    ASSUME SInv, NEW l \in Lanes, Reap(l)
    PROVE  SInv'
<1>1. TypeOK'
      BY DEF SInv, TypeOK, Reap, Goto, sessionVars, fileVars
<1>2. Working'
      BY DEF SInv, Working, Reap, sessionVars
<1>3. Fresh'
      BY DEF SInv, Fresh, Reap, Goto, sessionVars, fileVars
<1>4. Kept'
      BY DEF SInv, Kept, Held, Child, TypeOK, Reap, Goto, sessionVars
<1>5. Locked'
      BY DEF SInv, Locked, Reap, Goto, fileVars
<1>6. Listed'
      BY DEF SInv, Listed, Reap, fileVars
<1>7. LeavesNothing'
      BY DEF SInv, LeavesNothing, Kept, Child, Reap, Goto, sessionVars
<1>8. OrphansFound'
      BY DEF SInv, OrphansFound, Reap, sessionVars, fileVars
<1>9. NoStrayKill'
      BY DEF SInv, NoStrayKill, Reap
<1>10. Looked'
      BY DEF SInv, Looked, Reap
<1>11. QED  BY <1>1, <1>2, <1>3, <1>4, <1>5, <1>6, <1>7, <1>8, <1>9, <1>10 DEF SInv

\* The list of processes is read ...
LEMMA Reading ==
    ASSUME SInv, NEW l \in Lanes, ReadPids(l)
    PROVE  SInv'
<1>1. TypeOK'
      BY DEF SInv, TypeOK, ReadPids, Goto, sessionVars, fileVars, worldVars
<1>2. Working'
      BY DEF SInv, Working, ReadPids, sessionVars
<1>3. Fresh'
      BY DEF SInv, Fresh, ReadPids, Goto, sessionVars, fileVars, worldVars
<1>4. Kept'
      BY DEF SInv, Kept, Held, Child, ReadPids, Goto, sessionVars, worldVars
<1>5. Locked'
      BY DEF SInv, Locked, TypeOK, ReadPids, LockIsFree, Goto, fileVars
<1>6. Listed'
      BY DEF SInv, Listed, ReadPids, fileVars, worldVars
<1>7. LeavesNothing'
      BY DEF SInv, LeavesNothing, Child, ReadPids, Goto, sessionVars, worldVars
<1>8. OrphansFound'
      BY DEF SInv, OrphansFound, ReadPids, sessionVars, fileVars, worldVars
<1>9. NoStrayKill'
      BY DEF SInv, NoStrayKill, ReadPids
<1>10. Looked'
      BY DEF SInv, Looked, ReadPids
<1>11. QED  BY <1>1, <1>2, <1>3, <1>4, <1>5, <1>6, <1>7, <1>8, <1>9, <1>10 DEF SInv

\* ... and written back.
LEMMA Writing ==
    ASSUME SInv, NEW l \in Lanes, WritePids(l)
    PROVE  SInv'
<1>1. TypeOK'
      BY DEF SInv, TypeOK, WritePids, Goto, Release, sessionVars, worldVars
<1>2. Working'
      BY DEF SInv, Working, WritePids, sessionVars
<1>3. Fresh'
      BY DEF SInv, Fresh, WritePids, Goto, sessionVars, worldVars
<1>4. Kept'
      BY DEF SInv, Kept, Held, Child, WritePids, Goto, sessionVars, worldVars
<1>5. Locked'
      BY DEF SInv, Locked, TypeOK, WritePids, Goto
<1>6. Listed'
      BY DEF SInv, Listed, LeavesNothing, Locked, WritePids, worldVars
<1>7. LeavesNothing'
      BY DEF SInv, LeavesNothing, Child, WritePids, Goto, sessionVars, worldVars
<1>8. OrphansFound'
      BY DEF SInv, OrphansFound, WritePids, sessionVars, worldVars
<1>9. NoStrayKill'
      BY DEF SInv, NoStrayKill, WritePids
<1>10. Looked'
      BY DEF SInv, Looked, WritePids
<1>11. QED  BY <1>1, <1>2, <1>3, <1>4, <1>5, <1>6, <1>7, <1>8, <1>9, <1>10 DEF SInv

\* Another session takes the run over.
LEMMA Recovering ==
    ASSUME SInv, Restart \/ Reconciled
    PROVE  SInv'
<1>1. TypeOK'
  <2>1. session' \in 1 .. MaxSessions /\ worker' \in {"up", "dead", "reconciling", "stuck"}
        BY DEF SInv, TypeOK, Restart, Reconciled
  <2>2. UNCHANGED <<at, again, lock, pids, seen, leader, rest, execd, known, aims, struck>>
        BY DEF Restart, Reconciled, fileVars, worldVars
  <2>3. QED  BY <2>1, <2>2 DEF SInv, TypeOK
<1>2. Working'
      BY DEF SInv, Working, Restart, Reconciled
<1>3. Fresh'
      BY DEF SInv, Fresh, TypeOK, Restart, Reconciled, fileVars, worldVars
<1>4. Kept'
      BY DEF SInv, Kept, Held, Working, Restart, Reconciled
<1>5. Locked'
      BY DEF SInv, Locked, Restart, Reconciled, fileVars
<1>6. Listed'
      BY DEF SInv, Listed, Restart, Reconciled, fileVars, worldVars
<1>7. LeavesNothing'
      BY DEF SInv, LeavesNothing, Fresh, Child, TypeOK, Restart, Reconciled, worldVars
<1>8. OrphansFound'
      BY DEF SInv, OrphansFound, Listed, Restart, Reconciled, fileVars, worldVars
<1>9. NoStrayKill'
      BY DEF SInv, NoStrayKill, Restart, Reconciled
<1>10. Looked'
      BY DEF SInv, Looked, Restart, Reconciled
<1>11. QED  BY <1>1, <1>2, <1>3, <1>4, <1>5, <1>6, <1>7, <1>8, <1>9, <1>10 DEF SInv

\* It looks who has the id of a process an earlier one recorded, or drops the
\* process, or gives up; a canceller looks too.
LEMMA Looking ==
    ASSUME SInv, NEW c \in Children,
           ForgetOrphan(c) \/ AimAtOrphan(c) \/ OrphanSurvives(c) \/ AimAtSnapshot(c)
    PROVE  SInv'
<1>0. \/ aims' = aims
      \/ \E by \in {"reconcile", "cancel"} :
            aims' = aims \cup {[by |-> by, child |-> c, matched |-> TRUE]}
  <2>1. ASSUME NEW by \in {"reconcile", "cancel"}, TakesAim(by, c)
        PROVE  aims' = aims \cup {[by |-> by, child |-> c, matched |-> TRUE]}
    <3>1. Matches(c) = TRUE
          BY <2>1 DEF TakesAim, Verified, Matches, Running
    <3>2. QED  BY <2>1, <3>1 DEF TakesAim
  <2>2. QED  BY <2>1 DEF ForgetOrphan, AimAtOrphan, OrphanSurvives, AimAtSnapshot
<1>1. /\ UNCHANGED <<session, at, again, lock, seen, leader, rest, execd, known, struck>>
      /\ worker' \in {worker, "stuck"} /\ (worker' # worker => worker = "reconciling")
      /\ \/ pids' = pids
         \/ pids' = pids \ {c} /\ ~Matches(c) /\ LockIsFree
      BY DEF ForgetOrphan, AimAtOrphan, OrphanSurvives, AimAtSnapshot, TakesAim,
         sessionVars, fileVars, worldVars
<1>2. TypeOK'
  <2>1. aims' \subseteq Aims
    <3>1. aims \subseteq Aims
          BY DEF SInv, TypeOK
    <3>2. ASSUME NEW a \in Aims, aims' = aims \cup {a}
          PROVE  aims' \subseteq Aims
          BY <3>1, <3>2
    <3>3. \A by \in {"reconcile", "cancel"} :
              [by |-> by, child |-> c, matched |-> TRUE] \in Aims
          BY AimIs
    <3>4. QED  BY Zenon, <1>0, <3>1, <3>2, <3>3
  <2>2. pids' \subseteq Children /\ worker' \in {"up", "dead", "reconciling", "stuck"}
        BY <1>1 DEF SInv, TypeOK
  <2>3. QED  BY <1>1, <2>1, <2>2 DEF SInv, TypeOK
<1>3. Working' /\ Fresh'
      BY <1>1 DEF SInv, Working, Fresh
<1>4. Kept' /\ LeavesNothing'
      BY <1>1 DEF SInv, Kept, LeavesNothing, Child
<1>5. Locked'
      BY <1>1 DEF SInv, TypeOK, Locked, LockIsFree
<1>6. Listed'
      BY <1>1 DEF SInv, Listed, Matches, Running
<1>7. OrphansFound' /\ NoStrayKill'
      BY <1>1 DEF SInv, OrphansFound, NoStrayKill
<1>8. Looked'
      BY <1>0 DEF SInv, Looked
<1>9. QED  BY <1>2, <1>3, <1>4, <1>5, <1>6, <1>7, <1>8 DEF SInv

\* They signal the group of the process they have seen, which may be gone.
LEMMA Firing ==
    ASSUME SInv, NEW c \in Children, SignalOrphan(c) \/ SignalSnapshot(c)
    PROVE  SInv'
<1>0. \E by \in {"reconcile", "cancel"} : Fires(by, c)
      BY DEF SignalOrphan, SignalSnapshot
<1>1. /\ UNCHANGED <<session, worker, at, again, lock, pids, seen, execd, known>>
      /\ KillGroup(c) \/ UNCHANGED <<leader, rest>>
      /\ struck' \in {struck, struck \cup {"overtaken"}}
      /\ aims' \subseteq aims
  <2>1. UNCHANGED <<session, worker, at, again, lock, pids, seen, execd, known>>
        BY DEF SignalOrphan, SignalSnapshot, sessionVars, fileVars
  <2>2. QED  BY <1>0, <2>1 DEF SInv, Looked, Fires, Struck
<1>2. TypeOK'
      BY <1>1 DEF SInv, TypeOK, KillGroup, Doomed
<1>3. Working' /\ Fresh'
      BY <1>1 DEF SInv, TypeOK, Working, Fresh, KillGroup, Doomed
<1>4. Kept' /\ LeavesNothing'
      BY <1>1 DEF SInv, TypeOK, Kept, LeavesNothing, Child, KillGroup, Doomed
<1>5. Locked'
      BY <1>1 DEF SInv, Locked
<1>6. Listed' /\ OrphansFound'
      BY <1>1 DEF SInv, TypeOK, Listed, OrphansFound, KillGroup, Doomed
<1>7. NoStrayKill' /\ Looked'
      BY <1>1 DEF SInv, NoStrayKill, Looked
<1>8. QED  BY <1>2, <1>3, <1>4, <1>5, <1>6, <1>7 DEF SInv

\* The processes fork, exit and change their programs.
LEMMA Living ==
    ASSUME SInv, NEW c \in Children, World(c)
    PROVE  SInv'
<1>1. TypeOK'
      BY DEF SInv, TypeOK, World, LeaderForks, RestEscapes, RestExits, LeaderExits,
         LeaderExecs, WorldOnly, sessionVars, fileVars
<1>2. Working'
      BY DEF SInv, Working, World, LeaderForks, RestEscapes, RestExits, LeaderExits,
         LeaderExecs, WorldOnly, sessionVars
<1>3. Fresh'
      BY DEF SInv, Fresh, TypeOK, World, LeaderForks, RestEscapes, RestExits,
         LeaderExits, LeaderExecs, WorldOnly, Running, sessionVars, fileVars
<1>4. Kept'
      BY DEF SInv, Kept, Held, Child, TypeOK, Working, World, LeaderForks, RestEscapes,
         RestExits, LeaderExits, LeaderExecs, WorldOnly, Running, Orphaned, sessionVars
<1>5. Locked'
      BY DEF SInv, Locked, World, LeaderForks, RestEscapes, RestExits, LeaderExits,
         LeaderExecs, WorldOnly, fileVars
<1>6. Listed'
      BY DEF SInv, Listed, TypeOK, World, LeaderForks, RestEscapes, RestExits,
         LeaderExits, LeaderExecs, WorldOnly, fileVars
<1>7. LeavesNothing'
      BY DEF SInv, LeavesNothing, Child, TypeOK, World, LeaderForks, RestEscapes,
         RestExits, LeaderExits, LeaderExecs, WorldOnly, sessionVars
<1>8. OrphansFound'
      BY DEF SInv, OrphansFound, TypeOK, World, LeaderForks, RestEscapes, RestExits,
         LeaderExits, LeaderExecs, WorldOnly, sessionVars, fileVars
<1>9. NoStrayKill'
      BY DEF SInv, NoStrayKill, World, LeaderForks, RestEscapes, RestExits,
         LeaderExits, LeaderExecs, WorldOnly
<1>10. Looked'
      BY DEF SInv, Looked, World, LeaderForks, RestEscapes, RestExits, LeaderExits, LeaderExecs, WorldOnly
<1>11. QED  BY <1>1, <1>2, <1>3, <1>4, <1>5, <1>6, <1>7, <1>8, <1>9, <1>10 DEF SInv

\* The worker is killed.
LEMMA Dying ==
    ASSUME SInv, Kill
    PROVE  SInv'
<1>1. TypeOK'
      BY DEF SInv, TypeOK, Kill, fileVars
<1>2. Working'
      BY DEF Working, Kill
<1>3. Fresh'
      BY DEF SInv, Fresh, Kill, fileVars
<1>4. Kept'
      BY DEF Kept, Held, Kill
<1>5. Locked'
      BY DEF Locked, Kill
<1>6. Listed'
      BY DEF SInv, Listed, TypeOK, Kill, fileVars
<1>7. LeavesNothing'
      BY DEF SInv, LeavesNothing, Child, TypeOK, Kill
<1>8. OrphansFound'
      BY DEF OrphansFound, Kill
<1>9. NoStrayKill'
      BY DEF SInv, NoStrayKill, Kill
<1>10. Looked'
      BY DEF SInv, Looked, Kill
<1>11. QED  BY <1>1, <1>2, <1>3, <1>4, <1>5, <1>6, <1>7, <1>8, <1>9, <1>10 DEF SInv

LEMMA Inductive == SInv /\ [Next]_vars => SInv'
<1> SUFFICES ASSUME SInv, [Next]_vars PROVE SInv'
    OBVIOUS
<1>1. ASSUME NEW l \in Lanes, Attempt(l) PROVE SInv'
      BY <1>1, Signalling, Proceeding, Spawning, Identifying, Reaping, Reading,
         Writing DEF Attempt
<1>2. ASSUME UNCHANGED vars PROVE SInv'
      BY <1>2 DEF vars, SInv, TypeOK, Working, Fresh, Kept, Locked, Listed,
         Looked, LeavesNothing, OrphansFound, NoStrayKill, Child
<1>3. QED
      BY <1>1, <1>2, Recovering, Looking, Firing, Living, Dying DEF Next, Reconcile

LEMMA Invariant == Spec => []SInv
BY InitInv, Inductive, PTL DEF Spec

-----------------------------------------------------------------------------
(* The promises.                                                           *)

\* The signals of an attempt never go to a process group that took over the id
\* of its child, because the leader stays unreaped while its group is signalled
\* (kill_residual_process_group, run.rs:4914); those of a reconciliation and of a
\* cancellation do only if the process they have just verified ends before the
\* kill (kill_verified_process_tree, run.rs:4850).
THEOREM NoStrangerIsHit == Spec => []NoStrayKill
BY Invariant, PTL DEF SInv

\* However an attempt ends, nobody who stayed in its process group goes on
\* (wait_child, terminate_child, the destructor of ChildCleanup).
THEOREM NothingIsLeft == Spec => []LeavesNothing
BY Invariant, PTL DEF SInv

\* No recorded adapter of an earlier session runs once the run was recovered
\* (add_process, remove_active_process, reconcile_orphan_processes).
THEOREM OrphansAreFound == Spec => []OrphansFound
BY Invariant, PTL DEF SInv
=============================================================================
