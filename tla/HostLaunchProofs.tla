-------------------------- MODULE HostLaunchProofs --------------------------
(***************************************************************************)
(* What HostLaunch promises, for any number of commands, runs and kills.   *)
(*                                                                         *)
(* The argument: whoever is past the scan on behalf of a host holds the    *)
(* launch lock, so what it saw of the runs of other hosts stays true until *)
(* its own run has a manifest.  `quinte run` does not hold the lock; it    *)
(* never touches a run of a host.                                          *)
(***************************************************************************)
EXTENDS HostLaunch, WellFoundedInduction, TLAPS

Loc == {"idle", "survey", "lock", "scan", "create", "making", "event", "receipt",
        "spawn", "started", "failed", "unlaunched", "return", "reconciled"}

TypeOK ==
    /\ run \in [Run -> {"none", "making", "active", "terminal", "removed"}]
    /\ byHost \subseteq {r \in Run : run[r] # "none"}
    /\ launched \subseteq Run
    /\ DOMAIN receipt = Run
    /\ lock \in Proc \cup {NoProc}
    /\ at \in [Proc -> Loc]
    /\ DOMAIN op = Proc
    /\ DOMAIN mine = Proc
    /\ DOMAIN told = Proc

\* A host command has the lock from its scan to its return.
HostLocs == Loc \ {"idle", "survey", "lock"}

LockHeld == \A p \in Proc : op[p] \in HostOp /\ at[p] \in HostLocs => lock = p

\* What is asked for shows in where a command stands.
OpFits ==
    \A p \in Proc :
        /\ at[p] # "idle" => op[p] \in Op
        /\ at[p] \in {"survey", "lock", "scan", "receipt", "started", "unlaunched",
                      "reconciled"} => op[p] \in HostOp

\* A command's run exists, and is the host's exactly if the command is.
MineFits ==
    \A p \in Proc :
        at[p] \in {"making", "event", "receipt", "spawn", "started", "failed",
                   "unlaunched"} =>
            /\ mine[p] \in Run
            /\ run[mine[p]] # "none"
            /\ mine[p] \in byHost <=> op[p] \in HostOp

\* Between its scan and its manifest a host command is alone.
Alone ==
    \A p \in Proc :
        op[p] \in HostOp /\ at[p] \in {"create", "making"} => \A r \in Run : ~HostActive(r)

IInv == TypeOK /\ LockHeld /\ OpFits /\ MineFits /\ Alone /\ OneActive

USE LaunchAssumption DEF Run, HostOp, Op

-----------------------------------------------------------------------------
(* The invariant holds at first and is kept by every step.                 *)

LEMMA InitInv == Init => IInv
  BY DEF Init, IInv, TypeOK, Loc, HostLocs, LockHeld, OpFits, MineFits, Alone,
         OneActive, HostActive

\* A step that leaves the runs alone and takes no command to where it is alone.
LEMMA Quiet ==
    ASSUME IInv, TypeOK', LockHeld', OpFits', MineFits',
           \A r \in Run : HostActive(r)' => HostActive(r),
           \A p \in Proc : op'[p] \in HostOp /\ at'[p] \in {"create", "making"} =>
                          op[p] \in HostOp /\ at[p] \in {"create", "making"}
    PROVE  IInv'
  BY DEF IInv, Alone, OneActive

LEMMA StepInv == IInv /\ [Next]_vars => IInv'
<1> SUFFICES ASSUME IInv, [Next]_vars PROVE IInv'
  OBVIOUS
<1>1. ASSUME NEW p \in Proc, Ask(p) PROVE IInv'
  <2>1. TypeOK' /\ LockHeld' /\ OpFits' /\ MineFits'
    BY <1>1 DEF Ask, IInv, TypeOK, LockHeld, OpFits, MineFits, HostLocs, Loc, At, To,
                End, disk
  <2>2. \A r \in Run : HostActive(r)' => HostActive(r)
    BY <1>1 DEF Ask, HostActive, IInv, TypeOK, LockHeld, OpFits, MineFits, HostLocs,
                Loc, At, To, End, disk
  <2>3. \A q \in Proc : op'[q] \in HostOp /\ at'[q] \in {"create", "making"} =>
                        op[q] \in HostOp /\ at[q] \in {"create", "making"}
    BY <1>1 DEF Ask, IInv, TypeOK, LockHeld, OpFits, MineFits, HostLocs, Loc, At, To,
                End, disk
  <2> QED
    BY <2>1, <2>2, <2>3, Quiet
<1>2. ASSUME NEW p \in Proc, Survey(p) PROVE IInv'
  <2>1. TypeOK' /\ LockHeld' /\ OpFits' /\ MineFits'
    BY <1>2 DEF Survey, IInv, TypeOK, LockHeld, OpFits, MineFits, HostLocs, Loc, At,
                To, End, disk
  <2>2. \A r \in Run : HostActive(r)' => HostActive(r)
    BY <1>2 DEF Survey, HostActive, IInv, TypeOK, LockHeld, OpFits, MineFits, HostLocs,
                Loc, At, To, End, disk
  <2>3. \A q \in Proc : op'[q] \in HostOp /\ at'[q] \in {"create", "making"} =>
                        op[q] \in HostOp /\ at[q] \in {"create", "making"}
    BY <1>2 DEF Survey, IInv, TypeOK, LockHeld, OpFits, MineFits, HostLocs, Loc, At,
                To, End, disk
  <2> QED
    BY <2>1, <2>2, <2>3, Quiet
<1>3. ASSUME NEW p \in Proc, Lock(p) PROVE IInv'
  <2>1. TypeOK' /\ LockHeld' /\ OpFits' /\ MineFits'
    BY <1>3 DEF Lock, IInv, TypeOK, LockHeld, OpFits, MineFits, HostLocs, Loc, At, To,
                End, disk
  <2>2. \A r \in Run : HostActive(r)' => HostActive(r)
    BY <1>3 DEF Lock, HostActive, IInv, TypeOK, LockHeld, OpFits, MineFits, HostLocs,
                Loc, At, To, End, disk
  <2>3. \A q \in Proc : op'[q] \in HostOp /\ at'[q] \in {"create", "making"} =>
                        op[q] \in HostOp /\ at[q] \in {"create", "making"}
    BY <1>3 DEF Lock, IInv, TypeOK, LockHeld, OpFits, MineFits, HostLocs, Loc, At, To,
                End, disk
  <2> QED
    BY <2>1, <2>2, <2>3, Quiet
<1>4. ASSUME NEW p \in Proc, Scan(p) PROVE IInv'
  <2>1. TypeOK' /\ LockHeld' /\ OpFits' /\ MineFits'
    BY <1>4 DEF Scan, Refused, Active, Unreadable, Unused, IInv, TypeOK, LockHeld,
                OpFits, MineFits, HostLocs, Loc, At, To, End, disk
  <2>2. Alone' /\ OneActive'
    BY <1>4 DEF Scan, Refused, Active, Alone, OneActive, HostActive, IInv, TypeOK,
                LockHeld, OpFits, MineFits, HostLocs, Loc, At, To, End, disk
  <2> QED
    BY <2>1, <2>2 DEF IInv
<1>5. ASSUME NEW p \in Proc, MakeDirs(p) PROVE IInv'
  <2>1. TypeOK' /\ LockHeld' /\ OpFits' /\ MineFits'
    <3>0. /\ run \in [Run -> {"none", "making", "active", "terminal", "removed"}]
          /\ at \in [Proc -> Loc] /\ DOMAIN op = Proc /\ DOMAIN mine = Proc
          /\ byHost \subseteq {s \in Run : run[s] # "none"}
      BY DEF IInv, TypeOK
    <3>1. PICK r \in Run : /\ run[r] = "none"
                           /\ run' = [run EXCEPT ![r] = "making"]
                           /\ byHost' = IF op[p] \in HostOp THEN byHost \cup {r} ELSE byHost
                           /\ mine' = [mine EXCEPT ![p] = r]
      BY <1>5 DEF MakeDirs, Unused
    <3>2. /\ at[p] = "create" /\ at' = [at EXCEPT ![p] = "making"]
          /\ UNCHANGED <<launched, receipt, lock, op, told, kills>>
      BY <1>5 DEF MakeDirs, At, To
    <3>3. TypeOK'
      BY <3>1, <3>2 DEF IInv, TypeOK, Loc
    <3>4. LockHeld'
      BY <3>2 DEF IInv, TypeOK, LockHeld, HostLocs, Loc
    <3>5. OpFits'
      BY <3>2 DEF IInv, TypeOK, OpFits
    <3>6. MineFits'
      <4> SUFFICES ASSUME NEW q \in Proc,
                          at'[q] \in {"making", "event", "receipt", "spawn", "started",
                                     "failed", "unlaunched"}
                   PROVE  /\ mine'[q] \in Run
                          /\ run'[mine'[q]] # "none"
                          /\ mine'[q] \in byHost' <=> op'[q] \in HostOp
        BY DEF MineFits
      <4>1. CASE q = p
        <5>1. mine'[p] = r /\ run'[r] = "making" /\ op'[p] = op[p]
          BY <3>1, <3>2 DEF IInv, TypeOK
        <5>2. r \in byHost' <=> op[p] \in HostOp
          BY <3>1, <3>2 DEF IInv, TypeOK
        <5> QED
          BY <4>1, <5>1, <5>2
      <4>2. CASE q # p
        BY <3>1, <3>2, <4>2 DEF IInv, TypeOK, MineFits
      <4> QED
        BY <4>1, <4>2
    <3> QED
      BY <3>3, <3>4, <3>5, <3>6
  <2>2. \A r \in Run : HostActive(r)' => HostActive(r)
    BY <1>5 DEF MakeDirs, Unused, HostActive, IInv, TypeOK, LockHeld, OpFits, MineFits,
                HostLocs, Loc, At, To, End, disk
  <2>3. \A q \in Proc : op'[q] \in HostOp /\ at'[q] \in {"create", "making"} =>
                        op[q] \in HostOp /\ at[q] \in {"create", "making"}
    BY <1>5 DEF MakeDirs, IInv, TypeOK, LockHeld, OpFits, MineFits, HostLocs, Loc, At,
                To, End, disk
  <2> QED
    BY <2>1, <2>2, <2>3, Quiet
<1>6. ASSUME NEW p \in Proc, SaveManifest(p) PROVE IInv'
  <2>1. TypeOK' /\ LockHeld' /\ OpFits' /\ MineFits'
    BY <1>6 DEF SaveManifest, Refused, Active, Unreadable, Unused, IInv, TypeOK,
                LockHeld, OpFits, MineFits, HostLocs, Loc, At, To, End, disk
  <2>2. CASE op[p] \in HostOp
    <3>1. \A r \in Run : ~HostActive(r)
      BY <1>6, <2>2 DEF SaveManifest, Alone, IInv, TypeOK, LockHeld, OpFits, MineFits,
                        HostLocs, Loc, At, To, End, disk
    <3>2. \A r \in Run : HostActive(r)' => r = mine[p]
      BY <1>6, <3>1 DEF SaveManifest, HostActive, IInv, TypeOK, LockHeld, OpFits,
                        MineFits, HostLocs, Loc, At, To, End, disk
    <3>3. \A q \in Proc : ~(op'[q] \in HostOp /\ at'[q] \in {"create", "making"})
      BY <1>6, <2>2 DEF SaveManifest, IInv, TypeOK, LockHeld, OpFits, MineFits,
                        HostLocs, Loc, At, To, End, disk
    <3> QED
      BY <2>1, <3>2, <3>3 DEF IInv, Alone, OneActive
  <2>3. CASE op[p] \notin HostOp
    <3>1. \A r \in Run : HostActive(r)' => HostActive(r)
      BY <1>6, <2>3 DEF SaveManifest, HostActive, IInv, TypeOK, LockHeld, OpFits,
                        MineFits, HostLocs, Loc, At, To, End, disk
    <3>2. \A q \in Proc : op'[q] \in HostOp /\ at'[q] \in {"create", "making"} =>
                          op[q] \in HostOp /\ at[q] \in {"create", "making"}
      BY <1>6 DEF SaveManifest, IInv, TypeOK, LockHeld, OpFits, MineFits, HostLocs,
                  Loc, At, To, End, disk
    <3> QED
      BY <2>1, <3>1, <3>2, Quiet
  <2> QED
    BY <2>2, <2>3
<1>7. ASSUME NEW p \in Proc, CreateFails(p) PROVE IInv'
  <2>1. TypeOK' /\ LockHeld' /\ OpFits' /\ MineFits'
    BY <1>7 DEF CreateFails, IInv, TypeOK, LockHeld, OpFits, MineFits, HostLocs, Loc,
                At, To, End, disk
  <2>2. \A r \in Run : HostActive(r)' => HostActive(r)
    BY <1>7 DEF CreateFails, HostActive, IInv, TypeOK, LockHeld, OpFits, MineFits,
                HostLocs, Loc, At, To, End, disk
  <2>3. \A q \in Proc : op'[q] \in HostOp /\ at'[q] \in {"create", "making"} =>
                        op[q] \in HostOp /\ at[q] \in {"create", "making"}
    BY <1>7 DEF CreateFails, IInv, TypeOK, LockHeld, OpFits, MineFits, HostLocs, Loc,
                At, To, End, disk
  <2> QED
    BY <2>1, <2>2, <2>3, Quiet
<1>8. ASSUME NEW p \in Proc, Created(p) PROVE IInv'
  <2>1. TypeOK' /\ LockHeld' /\ OpFits' /\ MineFits'
    BY <1>8 DEF Created, IInv, TypeOK, LockHeld, OpFits, MineFits, HostLocs, Loc, At,
                To, End, disk
  <2>2. \A r \in Run : HostActive(r)' => HostActive(r)
    BY <1>8 DEF Created, HostActive, IInv, TypeOK, LockHeld, OpFits, MineFits,
                HostLocs, Loc, At, To, End, disk
  <2>3. \A q \in Proc : op'[q] \in HostOp /\ at'[q] \in {"create", "making"} =>
                        op[q] \in HostOp /\ at[q] \in {"create", "making"}
    BY <1>8 DEF Created, IInv, TypeOK, LockHeld, OpFits, MineFits, HostLocs, Loc, At,
                To, End, disk
  <2> QED
    BY <2>1, <2>2, <2>3, Quiet
<1>9. ASSUME NEW p \in Proc, WriteReceipt(p) PROVE IInv'
  <2>1. TypeOK' /\ LockHeld' /\ OpFits' /\ MineFits'
    BY <1>9 DEF WriteReceipt, IInv, TypeOK, LockHeld, OpFits, MineFits, HostLocs, Loc,
                At, To, End, disk
  <2>2. \A r \in Run : HostActive(r)' => HostActive(r)
    BY <1>9 DEF WriteReceipt, HostActive, IInv, TypeOK, LockHeld, OpFits, MineFits,
                HostLocs, Loc, At, To, End, disk
  <2>3. \A q \in Proc : op'[q] \in HostOp /\ at'[q] \in {"create", "making"} =>
                        op[q] \in HostOp /\ at[q] \in {"create", "making"}
    BY <1>9 DEF WriteReceipt, IInv, TypeOK, LockHeld, OpFits, MineFits, HostLocs, Loc,
                At, To, End, disk
  <2> QED
    BY <2>1, <2>2, <2>3, Quiet
<1>10. ASSUME NEW p \in Proc, Spawn(p) PROVE IInv'
  <2>1. TypeOK' /\ LockHeld' /\ OpFits' /\ MineFits'
    BY <1>10 DEF Spawn, IInv, TypeOK, LockHeld, OpFits, MineFits, HostLocs, Loc, At,
                 To, End, disk
  <2>2. \A r \in Run : HostActive(r)' => HostActive(r)
    BY <1>10 DEF Spawn, HostActive, IInv, TypeOK, LockHeld, OpFits, MineFits, HostLocs,
                 Loc, At, To, End, disk
  <2>3. \A q \in Proc : op'[q] \in HostOp /\ at'[q] \in {"create", "making"} =>
                        op[q] \in HostOp /\ at[q] \in {"create", "making"}
    BY <1>10 DEF Spawn, IInv, TypeOK, LockHeld, OpFits, MineFits, HostLocs, Loc, At,
                 To, End, disk
  <2> QED
    BY <2>1, <2>2, <2>3, Quiet
<1>11. ASSUME NEW p \in Proc, SpawnFails(p) PROVE IInv'
  <2>1. TypeOK' /\ LockHeld' /\ OpFits' /\ MineFits'
    BY <1>11 DEF SpawnFails, IInv, TypeOK, LockHeld, OpFits, MineFits, HostLocs, Loc,
                 At, To, End, disk
  <2>2. \A r \in Run : HostActive(r)' => HostActive(r)
    BY <1>11 DEF SpawnFails, HostActive, IInv, TypeOK, LockHeld, OpFits, MineFits,
                 HostLocs, Loc, At, To, End, disk
  <2>3. \A q \in Proc : op'[q] \in HostOp /\ at'[q] \in {"create", "making"} =>
                        op[q] \in HostOp /\ at[q] \in {"create", "making"}
    BY <1>11 DEF SpawnFails, IInv, TypeOK, LockHeld, OpFits, MineFits, HostLocs, Loc,
                 At, To, End, disk
  <2> QED
    BY <2>1, <2>2, <2>3, Quiet
<1>12. ASSUME NEW p \in Proc, RecordFailure(p) PROVE IInv'
  <2>1. TypeOK' /\ LockHeld' /\ OpFits' /\ MineFits'
    BY <1>12 DEF RecordFailure, IInv, TypeOK, LockHeld, OpFits, MineFits, HostLocs,
                 Loc, At, To, End, disk
  <2>2. \A r \in Run : HostActive(r)' => HostActive(r)
    BY <1>12 DEF RecordFailure, HostActive, IInv, TypeOK, LockHeld, OpFits, MineFits,
                 HostLocs, Loc, At, To, End, disk
  <2>3. \A q \in Proc : op'[q] \in HostOp /\ at'[q] \in {"create", "making"} =>
                        op[q] \in HostOp /\ at[q] \in {"create", "making"}
    BY <1>12 DEF RecordFailure, IInv, TypeOK, LockHeld, OpFits, MineFits, HostLocs,
                 Loc, At, To, End, disk
  <2> QED
    BY <2>1, <2>2, <2>3, Quiet
<1>13. ASSUME NEW p \in Proc, FinalReceipt(p) PROVE IInv'
  <2>1. TypeOK' /\ LockHeld' /\ OpFits' /\ MineFits'
    BY <1>13 DEF FinalReceipt, IInv, TypeOK, LockHeld, OpFits, MineFits, HostLocs, Loc,
                 At, To, End, disk
  <2>2. \A r \in Run : HostActive(r)' => HostActive(r)
    BY <1>13 DEF FinalReceipt, HostActive, IInv, TypeOK, LockHeld, OpFits, MineFits,
                 HostLocs, Loc, At, To, End, disk
  <2>3. \A q \in Proc : op'[q] \in HostOp /\ at'[q] \in {"create", "making"} =>
                        op[q] \in HostOp /\ at[q] \in {"create", "making"}
    BY <1>13 DEF FinalReceipt, IInv, TypeOK, LockHeld, OpFits, MineFits, HostLocs, Loc,
                 At, To, End, disk
  <2> QED
    BY <2>1, <2>2, <2>3, Quiet
<1>14. ASSUME NEW p \in Proc, Return(p) PROVE IInv'
  <2>1. TypeOK' /\ LockHeld' /\ OpFits' /\ MineFits'
    BY <1>14 DEF Return, IInv, TypeOK, LockHeld, OpFits, MineFits, HostLocs, Loc, At,
                 To, End, disk
  <2>2. \A r \in Run : HostActive(r)' => HostActive(r)
    BY <1>14 DEF Return, HostActive, IInv, TypeOK, LockHeld, OpFits, MineFits,
                 HostLocs, Loc, At, To, End, disk
  <2>3. \A q \in Proc : op'[q] \in HostOp /\ at'[q] \in {"create", "making"} =>
                        op[q] \in HostOp /\ at[q] \in {"create", "making"}
    BY <1>14 DEF Return, IInv, TypeOK, LockHeld, OpFits, MineFits, HostLocs, Loc, At,
                 To, End, disk
  <2> QED
    BY <2>1, <2>2, <2>3, Quiet
<1>15. ASSUME NEW p \in Proc, Select(p) PROVE IInv'
  <2>1. TypeOK' /\ LockHeld' /\ OpFits' /\ MineFits'
    BY <1>15 DEF Select, IInv, TypeOK, LockHeld, OpFits, MineFits, HostLocs, Loc, At,
                 To, End, disk
  <2>2. \A r \in Run : HostActive(r)' => HostActive(r)
    BY <1>15 DEF Select, HostActive, IInv, TypeOK, LockHeld, OpFits, MineFits,
                 HostLocs, Loc, At, To, End, disk
  <2>3. \A q \in Proc : op'[q] \in HostOp /\ at'[q] \in {"create", "making"} =>
                        op[q] \in HostOp /\ at[q] \in {"create", "making"}
    BY <1>15 DEF Select, IInv, TypeOK, LockHeld, OpFits, MineFits, HostLocs, Loc, At,
                 To, End, disk
  <2> QED
    BY <2>1, <2>2, <2>3, Quiet
<1>16. ASSUME NEW p \in Proc, Reconciled(p) PROVE IInv'
  <2>1. TypeOK' /\ LockHeld' /\ OpFits' /\ MineFits'
    BY <1>16 DEF Reconciled, IInv, TypeOK, LockHeld, OpFits, MineFits, HostLocs, Loc,
                 At, To, End, disk
  <2>2. \A r \in Run : HostActive(r)' => HostActive(r)
    BY <1>16 DEF Reconciled, HostActive, IInv, TypeOK, LockHeld, OpFits, MineFits,
                 HostLocs, Loc, At, To, End, disk
  <2>3. \A q \in Proc : op'[q] \in HostOp /\ at'[q] \in {"create", "making"} =>
                        op[q] \in HostOp /\ at[q] \in {"create", "making"}
    BY <1>16 DEF Reconciled, IInv, TypeOK, LockHeld, OpFits, MineFits, HostLocs, Loc,
                 At, To, End, disk
  <2> QED
    BY <2>1, <2>2, <2>3, Quiet
<1>17. ASSUME NEW p \in Proc, Kill(p) PROVE IInv'
  <2>1. TypeOK' /\ LockHeld' /\ OpFits' /\ MineFits'
    BY <1>17 DEF Kill, IInv, TypeOK, LockHeld, OpFits, MineFits, HostLocs, Loc, At, To,
                 End, disk
  <2>2. \A r \in Run : HostActive(r)' => HostActive(r)
    BY <1>17 DEF Kill, HostActive, IInv, TypeOK, LockHeld, OpFits, MineFits, HostLocs,
                 Loc, At, To, End, disk
  <2>3. \A q \in Proc : op'[q] \in HostOp /\ at'[q] \in {"create", "making"} =>
                        op[q] \in HostOp /\ at[q] \in {"create", "making"}
    BY <1>17 DEF Kill, IInv, TypeOK, LockHeld, OpFits, MineFits, HostLocs, Loc, At, To,
                 End, disk
  <2> QED
    BY <2>1, <2>2, <2>3, Quiet
<1>18. ASSUME NEW r \in Run, RunEnds(r) PROVE IInv'
  <2>1. TypeOK' /\ LockHeld' /\ OpFits' /\ MineFits'
    BY <1>18 DEF RunEnds, IInv, TypeOK, LockHeld, OpFits, MineFits
  <2>2. \A s \in Run : HostActive(s)' => HostActive(s)
    BY <1>18 DEF RunEnds, HostActive, IInv, TypeOK
  <2>3. UNCHANGED <<op, at>>
    BY <1>18 DEF RunEnds
  <2> QED
    BY <2>1, <2>2, <2>3, Quiet
<1>19. CASE UNCHANGED vars
  BY <1>19 DEF vars, disk, IInv, TypeOK, LockHeld, OpFits, MineFits, Alone, OneActive,
             HostActive
<1> QED
  BY <1>1, <1>2, <1>3, <1>4, <1>5, <1>6, <1>7, <1>8, <1>9, <1>10, <1>11, <1>12, <1>13,
     <1>14, <1>15, <1>16, <1>17, <1>18, <1>19 DEF Next

\* Hosts never have two runs of theirs active, however many commands race and
\* are killed (start, active_manifests).
THEOREM HostsHaveOneRun == Spec => []OneActive
<1>1. IInv => OneActive
  BY DEF IInv
<1> QED
  BY <1>1, InitInv, StepInv, PTL DEF Spec

-----------------------------------------------------------------------------
(* What a reconcile answers.                                               *)

\* A worker that a host started has a start receipt, which is written first.
Receipted ==
    /\ launched \subseteq {r \in Run : run[r] # "none"}
    /\ \A r \in launched \cap byHost : receipt[r] # Nothing
    /\ \A p \in Proc :
          op[p] \in HostOp /\ at[p] \in {"spawn", "started", "failed", "unlaunched"}
              => receipt[mine[p]] # Nothing

RInv == IInv /\ Receipted /\ ReconcileIsTrue

Below == {ss \in Nat \X Nat : ss[1] < ss[2]}

\* Of the runs with a receipt one is the latest.
LEMMA HasLatest ==
    ASSUME NEW S \in SUBSET Run, S # {}
    PROVE  \E r \in S : \A s \in S : s <= r
<1> DEFINE T == {b \in Nat : \A s \in S : s <= b}
<1>1. IsWellFoundedOn(Below, Nat)
  BY NatLessThanWellFounded DEF OpToRel, Below
<1>2. MaxRuns \in T
  OBVIOUS
<1>3. PICK b \in T : \A c \in T : ~(<<c, b>> \in Below)
  <2>1. T \in SUBSET Nat /\ T # {}
    BY <1>2
  <2> QED
    BY <1>1, <2>1, WFMin
<1>4. b \in S
  <2>1. SUFFICES ASSUME b \notin S PROVE FALSE
    OBVIOUS
  <2>2. \A s \in S : s \in Nat /\ 1 <= s /\ s <= b - 1
    BY <2>1
  <2>3. b - 1 \in T
    <3>1. PICK s \in S : TRUE
      OBVIOUS
    <3>2. b - 1 \in Nat
      BY <2>2, <3>1
    <3> QED
      BY <2>2, <3>2
  <2>4. <<b - 1, b>> \in Below
    BY <2>3 DEF Below
  <2> QED
    BY <1>3, <2>3, <2>4
<1> QED
  BY <1>4

\* What a scan of the receipts under the lock finds.
LEMMA LatestIs ==
    ASSUME IInv, Receipted, NEW r \in launched \cap byHost
    PROVE  LatestStart # Nothing /\ r <= LatestStart
<1>1. r \in Starts /\ Starts \in SUBSET Run
  BY DEF Starts, Receipted
<1>2. \E s \in Starts : \A t \in Starts : t <= s
  BY <1>1, HasLatest
<1>3. LatestStart \in Starts /\ \A t \in Starts : t <= LatestStart
  BY <1>1, <1>2 DEF LatestStart
<1> QED
  BY <1>1, <1>3

\* Steps that start no worker and write no receipt.
LEMMA ReceiptsKept ==
    ASSUME IInv, Receipted, UNCHANGED <<launched, receipt>>,
           \A r \in Run : run'[r] # "none" \/ run[r] = "none",
           launched \cap byHost' \subseteq byHost,
           \A p \in Proc :
               op'[p] \in HostOp /\ at'[p] \in {"spawn", "started", "failed", "unlaunched"}
               => /\ op[p] \in HostOp
                  /\ at[p] \in {"spawn", "started", "failed", "unlaunched"}
                  /\ mine'[p] = mine[p]
    PROVE  Receipted'
  BY DEF Receipted

\* Steps that make no run of a host active and start no worker of one, and
\* answer nothing new.
LEMMA TruthKept ==
    ASSUME ReconcileIsTrue,
           \A r \in Run : HostActive(r)' => HostActive(r),
           launched' \cap byHost' \subseteq launched \cap byHost,
           \A p \in Proc : at'[p] = "reconciled" => at[p] = "reconciled" /\ told'[p] = told[p]
    PROVE  ReconcileIsTrue'
  BY DEF ReconcileIsTrue, At

\* Whoever answers a reconcile has the lock, and nobody else is past a scan.
LEMMA NobodyAnswers ==
    ASSUME IInv, NEW p \in Proc, op[p] \in HostOp, at[p] \in HostLocs \ {"reconciled"}
    PROVE  \A q \in Proc : at[q] # "reconciled"
  BY DEF IInv, TypeOK, LockHeld, OpFits, HostLocs, Loc

LEMMA ReconcileStep == RInv /\ [Next]_vars => RInv'
<1> SUFFICES ASSUME RInv, [Next]_vars PROVE Receipted' /\ ReconcileIsTrue'
  BY StepInv DEF RInv
<1> USE DEF RInv
<1>1. ASSUME NEW p \in Proc,
             \/ Ask(p) \/ Survey(p) \/ Lock(p) \/ Scan(p) \/ Return(p) \/ Reconciled(p)
             \/ CreateFails(p) \/ SpawnFails(p) \/ RecordFailure(p) \/ Kill(p)
      PROVE  Receipted' /\ ReconcileIsTrue'
  <2>1. /\ UNCHANGED <<launched, receipt, byHost>>
        /\ \A r \in Run : run'[r] # "none" \/ run[r] = "none"
        /\ \A r \in Run : run'[r] = "active" => run[r] = "active"
    BY <1>1 DEF Ask, Survey, Lock, Scan, Return, Reconciled, CreateFails, SpawnFails,
                RecordFailure, Kill, IInv, TypeOK, disk
  <2>2. \A q \in Proc :
            op'[q] \in HostOp /\ at'[q] \in {"spawn", "started", "failed", "unlaunched"}
            => /\ op[q] \in HostOp
               /\ at[q] \in {"spawn", "started", "failed", "unlaunched"}
               /\ mine'[q] = mine[q]
    BY <1>1 DEF Ask, Survey, Lock, Scan, Return, Reconciled, CreateFails, SpawnFails,
                RecordFailure, Kill, IInv, TypeOK, At, To, End
  <2>3. \A q \in Proc : at'[q] = "reconciled" => at[q] = "reconciled" /\ told'[q] = told[q]
    BY <1>1 DEF Ask, Survey, Lock, Scan, Return, Reconciled, CreateFails, SpawnFails,
                RecordFailure, Kill, IInv, TypeOK, At, To, End
  <2>4. Receipted'
    BY <2>1, <2>2, ReceiptsKept
  <2> QED
    BY <2>1, <2>3, <2>4, TruthKept DEF HostActive
<1>2. ASSUME NEW p \in Proc, MakeDirs(p) PROVE Receipted' /\ ReconcileIsTrue'
  <2>1. PICK r \in Run : /\ run[r] = "none"
                         /\ run' = [run EXCEPT ![r] = "making"]
                         /\ byHost' = IF op[p] \in HostOp THEN byHost \cup {r} ELSE byHost
    BY <1>2 DEF MakeDirs, Unused
  <2>2. /\ at[p] = "create" /\ at' = [at EXCEPT ![p] = "making"]
        /\ UNCHANGED <<launched, receipt, op, told>>
        /\ \A q \in Proc \ {p} : mine'[q] = mine[q]
    BY <1>2 DEF MakeDirs, At, To, IInv, TypeOK
  <2>3. r \notin launched
    BY <2>1 DEF Receipted
  <2>4. /\ \A s \in Run : run'[s] # "none" \/ run[s] = "none"
        /\ launched \cap byHost' = launched \cap byHost
        /\ \A s \in Run : HostActive(s)' => HostActive(s)
    BY <2>1, <2>3 DEF IInv, TypeOK, HostActive
  <2>5. \A q \in Proc :
            at'[q] \in {"spawn", "started", "failed", "unlaunched", "reconciled"}
            => at'[q] = at[q] /\ q # p
    BY <2>2 DEF IInv, TypeOK
  <2>6. Receipted'
    BY <2>2, <2>4, <2>5, ReceiptsKept
  <2> QED
    BY <2>2, <2>4, <2>5, <2>6, TruthKept
<1>3. ASSUME NEW p \in Proc, SaveManifest(p) \/ Created(p)
      PROVE  Receipted' /\ ReconcileIsTrue'
  <2>1. /\ UNCHANGED <<launched, receipt, byHost, op, mine, told>>
        /\ at[p] \in {"making", "event"} /\ at'[p] \in {"event", "receipt", "spawn"}
        /\ op[p] \in HostOp => at'[p] # "spawn"
        /\ \A q \in Proc \ {p} : at'[q] = at[q]
    BY <1>3 DEF SaveManifest, Created, At, To, disk, IInv, TypeOK
  <2>2. mine[p] \in Run /\ (mine[p] \in byHost <=> op[p] \in HostOp)
    BY <2>1 DEF IInv, MineFits
  <2>3. \A s \in Run : \/ run'[s] = run[s]
                       \/ s = mine[p] /\ run'[s] = "active"
    BY <1>3, <2>2 DEF SaveManifest, Created, disk, IInv, TypeOK
  <2>4. Receipted'
    BY <2>1, <2>3, ReceiptsKept
  <2>5. CASE op[p] \in HostOp
    <3>1. \A q \in Proc : at[q] # "reconciled"
      BY <2>1, <2>5, NobodyAnswers DEF HostLocs, Loc
    <3>2. \A q \in Proc : at'[q] # "reconciled"
      BY <2>1, <3>1
    <3> QED
      BY <2>4, <3>2 DEF ReconcileIsTrue, At
  <2>6. CASE op[p] \notin HostOp
    <3>1. \A s \in Run : HostActive(s)' => HostActive(s)
      BY <2>1, <2>2, <2>3, <2>6 DEF HostActive
    <3> QED
      BY <2>1, <2>4, <3>1, TruthKept
  <2> QED
    BY <2>5, <2>6
<1>4. ASSUME NEW p \in Proc, WriteReceipt(p) \/ FinalReceipt(p)
      PROVE  Receipted' /\ ReconcileIsTrue'
  <2>1. /\ UNCHANGED <<run, launched, byHost>>
        /\ \A r \in Run : receipt'[r] # Nothing \/ receipt'[r] = receipt[r]
        /\ at[p] \in {"receipt", "started", "unlaunched"}
        /\ \A q \in Proc \ {p} : /\ at'[q] = at[q] /\ op'[q] = op[q]
                                  /\ mine'[q] = mine[q] /\ told'[q] = told[q]
    BY <1>4 DEF WriteReceipt, FinalReceipt, At, To, End, IInv, TypeOK
  <2>2. mine[p] \in Run
    BY <2>1 DEF IInv, MineFits
  <2>3. \/ at'[p] = "idle"
        \/ at'[p] = "spawn" /\ receipt'[mine'[p]] # Nothing
    BY <1>4, <2>2 DEF WriteReceipt, FinalReceipt, At, To, End, IInv, TypeOK
  <2>4. \A q \in Proc \ {p} :
            at[q] \in {"spawn", "started", "failed", "unlaunched"} => mine[q] \in Run
    BY DEF IInv, MineFits
  <2>5. Receipted'
    BY <2>1, <2>3, <2>4 DEF Receipted
  <2>6. ReconcileIsTrue'
    BY <2>1, <2>3, TruthKept DEF HostActive
  <2> QED
    BY <2>5, <2>6
<1>5. ASSUME NEW p \in Proc, Spawn(p) PROVE Receipted' /\ ReconcileIsTrue'
  <2>1. /\ UNCHANGED <<run, byHost, receipt, op, mine, told>>
        /\ launched' = launched \cup {mine[p]}
        /\ at[p] = "spawn" /\ at'[p] \in {"started", "return"}
        /\ \A q \in Proc \ {p} : at'[q] = at[q]
    BY <1>5 DEF Spawn, At, To, IInv, TypeOK
  <2>2. /\ mine[p] \in Run /\ run[mine[p]] # "none"
        /\ mine[p] \in byHost <=> op[p] \in HostOp
    BY <2>1 DEF IInv, MineFits
  <2>3. op[p] \in HostOp => receipt[mine[p]] # Nothing
    BY <2>1 DEF Receipted
  <2>4. Receipted'
    BY <2>1, <2>2, <2>3 DEF Receipted
  <2>5. CASE op[p] \in HostOp
    <3>1. \A q \in Proc : at[q] # "reconciled"
      BY <2>1, <2>5, NobodyAnswers DEF HostLocs, Loc
    <3>2. \A q \in Proc : at'[q] # "reconciled"
      BY <2>1, <3>1
    <3> QED
      BY <2>4, <3>2 DEF ReconcileIsTrue, At
  <2>6. CASE op[p] \notin HostOp
    <3>1. launched' \cap byHost' \subseteq launched \cap byHost
      BY <2>1, <2>2, <2>6
    <3> QED
      BY <2>1, <2>4, <3>1, TruthKept DEF HostActive
  <2> QED
    BY <2>5, <2>6
<1>6. ASSUME NEW p \in Proc, Select(p) PROVE Receipted' /\ ReconcileIsTrue'
  <2>1. /\ UNCHANGED <<run, launched, byHost, receipt>>
        /\ \A q \in Proc \ {p} : /\ at'[q] = at[q] /\ told'[q] = told[q]
                                  /\ op'[q] = op[q] /\ mine'[q] = mine[q]
        /\ at'[p] \in {"idle", "reconciled"}
    BY <1>6 DEF Select, At, To, End, disk, IInv, TypeOK
  <2>2. at'[p] = "reconciled" => /\ told'[p].safe = (Active = {})
                                 /\ Active = {} => told'[p].run = LatestStart
    <3>1. CASE Unreadable
      BY <1>6, <3>1 DEF Select, At, To, End, IInv, TypeOK
    <3>2. CASE ~Unreadable
      <4>1. told'[p] = [run |-> CASE Active = {} -> LatestStart
                                  [] Cardinality(Active) = 1 -> CHOOSE r \in Active : TRUE
                                  [] OTHER -> Nothing,
                        safe |-> Active = {}]
        BY <1>6, <3>2 DEF Select, IInv, TypeOK
      <4>2. told'[p].safe = (Active = {})
        BY <4>1
      <4>3. ASSUME Active = {}
            PROVE  told'[p].run = LatestStart
        BY <4>1, <4>3
      <4> QED
        BY <4>2, <4>3
    <3> QED
      BY <3>1, <3>2
  <2>3. Receipted'
    BY <2>1, ReceiptsKept
  <2>4. ASSUME at'[p] = "reconciled", told'[p].safe
        PROVE  /\ \A r \in Run : ~HostActive(r)
               /\ \A r \in launched \cap byHost :
                      told'[p].run # Nothing /\ r <= told'[p].run
    <3>1. Active = {} /\ told'[p].run = LatestStart
      BY <2>2, <2>4
    <3> QED
      BY <3>1, LatestIs DEF Active, HostActive
  <2>5. ReconcileIsTrue'
    BY <2>1, <2>4 DEF ReconcileIsTrue, At, HostActive
  <2> QED
    BY <2>3, <2>5
<1>7. ASSUME NEW r \in Run, RunEnds(r) PROVE Receipted' /\ ReconcileIsTrue'
  <2>1. /\ UNCHANGED <<byHost, launched, receipt, at, op, mine, told>>
        /\ \A s \in Run : run'[s] = run[s] \/ (run[s] = "active" /\ run'[s] = "terminal")
    BY <1>7 DEF RunEnds, IInv, TypeOK
  <2>2. Receipted'
    BY <2>1, ReceiptsKept
  <2> QED
    BY <2>1, <2>2, TruthKept DEF HostActive
<1>8. CASE UNCHANGED vars
  BY <1>8, ReceiptsKept, TruthKept DEF vars, disk, HostActive
<1> QED
  BY <1>1, <1>2, <1>3, <1>4, <1>5, <1>6, <1>7, <1>8 DEF Next

\* A reconcile that answers launch_safe tells the truth, and finds the last run
\* whose worker a host started although its answer was lost (reconcile,
\* latest_start_receipt).
THEOREM ReconcileTellsTheTruth == Spec => []ReconcileIsTrue
<1>1. Init => RInv
  BY InitInv DEF Init, RInv, Receipted, ReconcileIsTrue, At
<1>2. RInv => ReconcileIsTrue
  BY DEF RInv
<1> QED
  BY <1>1, <1>2, ReconcileStep, PTL DEF Spec
=============================================================================
