------------------------------ MODULE A2ATasks ------------------------------
(***************************************************************************)
(* The A2A face of a run (src/a2a): requests, each in a thread of its own, *)
(* that start, show, cancel or answer a task, and the task record they     *)
(* keep beside the run.  The run itself is somebody else's: its status     *)
(* moves as RunLifecycle says, and HostLaunch starts it.                   *)
(*                                                                         *)
(* A record holds what the first message said (its context) and, once the  *)
(* run has a result, the ids of its artifacts.  The three ids are assigned *)
(* together, so that one stands for them.                                  *)
(***************************************************************************)
EXTENDS Naturals, FiniteSets

CONSTANTS
    Thread,
    MaxIds,     \* bound: ids that are made up
    NoRecord

VARIABLES
    status,     \* of the run, as the wire names it
    record,     \* the task record on disk
    at,         \* where each request stands
    op,         \* which request it is
    mine,       \* the record it works with
    ids,        \* how many ids were made up so far
    reported    \* history: the artifact ids clients were given

a2aVars == <<status, record, at, op, mine, ids, reported>>
threadVars == <<at, op, mine>>

\* map_run_status
Task == {"WORKING", "INPUT_REQUIRED", "COMPLETED", "FAILED", "CANCELED"}
Settled == {"COMPLETED", "FAILED", "CANCELED"}
Interrupted == Settled \cup {"INPUT_REQUIRED"}

NoId == 0
Record == [context : BOOLEAN, id : 0 .. MaxIds]
New == [context |-> TRUE, id |-> NoId]
\* What is made up for a run without a record.
Blank == [context |-> FALSE, id |-> NoId]

Init ==
    /\ status = "none"
    /\ record = NoRecord
    /\ at = [r \in Thread |-> "idle"]
    /\ op = [r \in Thread |-> "none"]
    /\ mine = [r \in Thread |-> NoRecord]
    /\ ids = 0
    /\ reported = {}

TypeOK ==
    /\ status \in Task \cup {"none"}
    /\ record \in Record \cup {NoRecord}
    /\ at \in [Thread -> {"idle", "started", "wait", "load", "recover", "act", "project", "save"}]
    /\ op \in [Thread -> {"none", "send", "get", "cancel", "continue"}]
    /\ mine \in [Thread -> Record \cup {NoRecord}]
    /\ ids \in 0 .. MaxIds
    /\ reported \subseteq 1 .. MaxIds

-----------------------------------------------------------------------------
\* The scheduler moves the run on.
RunMoves ==
    /\ \/ status = "WORKING" /\ status' \in {"INPUT_REQUIRED", "COMPLETED", "FAILED"}
       \/ status = "INPUT_REQUIRED" /\ status' \in {"WORKING", "FAILED"}
    /\ UNCHANGED <<record, threadVars, ids, reported>>

Goes(r, loc) == at' = [at EXCEPT ![r] = loc]
Holds(r, rec) == mine' = [mine EXCEPT ![r] = rec]

\* An answer, with or without artifacts, or an error.
Replies(r) ==
    /\ Goes(r, "idle")
    /\ op' = [op EXCEPT ![r] = "none"]
    /\ Holds(r, NoRecord)

Refused(r) == Replies(r) /\ UNCHANGED <<status, record, ids, reported>>

-----------------------------------------------------------------------------
(* SendMessage                                                             *)

\* No other run is active, and host::start has made this one.
Send(r) ==
    /\ at[r] = "idle" /\ status = "none"
    /\ status' = "WORKING"
    /\ Goes(r, "started")
    /\ op' = [op EXCEPT ![r] = "send"]
    /\ UNCHANGED <<record, mine, ids, reported>>

\* The record, and then the answer: at once, or when the run can go no further.
SaveNew(r) ==
    /\ at[r] = "started"
    /\ record' = New
    /\ Holds(r, New)
    /\ Goes(r, "project") \/ Goes(r, "wait")
    /\ UNCHANGED <<status, op, ids, reported>>

\* wait_until_interruptible; its ceiling of an hour is left out.
WaitOver(r) ==
    /\ at[r] = "wait" /\ status \in Interrupted
    /\ Goes(r, "project")
    /\ UNCHANGED <<status, record, op, mine, ids, reported>>

-----------------------------------------------------------------------------
(* GetTask, CancelTask, and SendMessage for a task that waits for a verdict. *)

Ask(r, what) ==
    /\ at[r] = "idle" /\ status # "none"
    /\ op' = [op EXCEPT ![r] = what]
    /\ Goes(r, IF what = "continue" THEN "act" ELSE "load")
    /\ UNCHANGED <<status, record, mine, ids, reported>>

After(r) == IF op[r] = "cancel" THEN "act" ELSE "project"

\* load_or_recover
LoadRecord(r) ==
    /\ at[r] = "load"
    /\ IF record # NoRecord
       THEN Holds(r, record) /\ Goes(r, After(r))
       ELSE Goes(r, "recover") /\ UNCHANGED mine
    /\ UNCHANGED <<status, record, op, ids, reported>>

\* Failing to save it is no error.
Recover(r) ==
    /\ at[r] = "recover"
    /\ Holds(r, Blank)
    /\ record' \in {Blank, record}
    /\ Goes(r, After(r))
    /\ UNCHANGED <<status, op, ids, reported>>

\* ListTasks makes up what GetTask would recover, and saves nothing.
List(r) ==
    /\ at[r] = "idle" /\ status # "none"
    /\ Holds(r, IF record = NoRecord THEN Blank ELSE record)
    /\ Goes(r, "project")
    /\ op' = [op EXCEPT ![r] = "get"]
    /\ UNCHANGED <<status, record, ids, reported>>

Cancel(r) ==
    /\ at[r] = "act" /\ op[r] = "cancel"
    /\ status \notin {"COMPLETED", "FAILED"}
    /\ status' = "CANCELED"
    /\ Goes(r, "project")
    /\ UNCHANGED <<record, op, mine, ids, reported>>

NotCancelable(r) ==
    /\ at[r] = "act" /\ op[r] = "cancel"
    /\ status \in {"COMPLETED", "FAILED"}
    /\ Refused(r)

\* The verdict goes the way of `quinte primary-arbiter submit` (PrimaryArbiter).
Continue(r) ==
    /\ at[r] = "act" /\ op[r] = "continue"
    /\ status = "INPUT_REQUIRED"
    /\ status' \in {"WORKING", "COMPLETED"}
    /\ Goes(r, "load")
    /\ UNCHANGED <<record, op, mine, ids, reported>>

VerdictRejected(r) ==
    /\ at[r] = "act" /\ op[r] = "continue"
    /\ Refused(r)

-----------------------------------------------------------------------------
(* project_task                                                            *)

\* No artifacts before the run has a result; or its files cannot be read.
ShowState(r) ==
    /\ at[r] = "project"
    /\ Refused(r)

\* The ids of the record this request holds ...
ShowArtifacts(r) ==
    /\ at[r] = "project" /\ status = "COMPLETED"
    /\ mine[r].id # NoId
    /\ reported' = reported \cup {mine[r].id}
    /\ Replies(r)
    /\ UNCHANGED <<status, record, ids>>

\* ... or new ones, when it has none.
AssignIds(r) ==
    /\ at[r] = "project" /\ status = "COMPLETED"
    /\ mine[r].id = NoId
    /\ ids < MaxIds
    /\ ids' = ids + 1
    /\ Holds(r, [mine[r] EXCEPT !.id = ids'])
    /\ Goes(r, "save")
    /\ UNCHANGED <<status, record, op, reported>>

SaveIds(r) ==
    /\ at[r] = "save"
    /\ record' = mine[r]
    /\ reported' = reported \cup {mine[r].id}
    /\ Replies(r)
    /\ UNCHANGED <<status, ids>>

-----------------------------------------------------------------------------
Request(r) ==
    \/ Send(r) \/ SaveNew(r) \/ WaitOver(r)
    \/ \E what \in {"get", "cancel", "continue"} : Ask(r, what)
    \/ LoadRecord(r) \/ Recover(r) \/ List(r)
    \/ Cancel(r) \/ NotCancelable(r) \/ Continue(r) \/ VerdictRejected(r)
    \/ ShowState(r) \/ ShowArtifacts(r) \/ AssignIds(r) \/ SaveIds(r)

Next == RunMoves \/ \E r \in Thread : Request(r)

Spec == Init /\ [][Next]_a2aVars

-----------------------------------------------------------------------------
\* Whoever asks, and whenever: the artifacts of a task have one identity
\* (host_map.rs:370-372).
ArtifactIdsAreStable == Cardinality(reported) <= 1
=============================================================================
