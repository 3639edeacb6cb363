------------------------------- MODULE PiSeat -------------------------------
(***************************************************************************)
(* The Pi seat (src/pi): a server that answers SendMessage and GetTask,    *)
(* works on each task in a thread of its own and appends a row to          *)
(* tasks.jsonl before it changes the record in memory.  A thread holds the *)
(* mutex of the store while it writes; `writing` is the row.               *)
(*                                                                         *)
(* A task is what one SendMessage creates: its client gives no id, so that *)
(* the seat makes a new one.                                               *)
(***************************************************************************)
EXTENDS Naturals, Sequences

CONSTANTS
    Task,
    MaxTransport,   \* attempts at a request that does not get through
    MaxLimited,     \* attempts at a request that is answered with 429
    MaxSeatFaults   \* bound: writes that fail and deaths of the seat

VARIABLES
    rows,       \* tasks.jsonl: the rows of each task, oldest first
    tail,       \* how it ends: "ended", "open" without a newline, or with a
                \* line that does not parse, "torn"
    memory,     \* the store: each task's state
    job,        \* each task's thread, and its failed attempts so far
    writing,    \* the row being written
    seat,       \* whether the seat is up
    faults       \* history

piVars == <<rows, tail, memory, job, writing, seat, faults>>

Ended == {"completed", "failed"}
States == {"working"} \cup Ended
Nothing == <<>>
Jobs == [on : BOOLEAN, transport : 0 .. MaxTransport - 1, limited : 0 .. MaxLimited - 1]
NoJob == [on |-> FALSE, transport |-> 0, limited |-> 0]
Fresh == [NoJob EXCEPT !.on = TRUE]

PiTypeOK ==
    /\ rows \in [Task -> Seq(States)]
    /\ tail \in {"ended", "open", "torn"}
    /\ memory \in [Task -> States \cup {"none"}]
    /\ job \in [Task -> Jobs]
    /\ writing \in (Task \X States) \cup {Nothing}
    /\ seat \in {"up", "down"}
    /\ faults \in 0 .. MaxSeatFaults

PiInit ==
    /\ rows = [t \in Task |-> <<>>]
    /\ tail = "ended"
    /\ memory = [t \in Task |-> "none"]
    /\ job = [t \in Task |-> NoJob]
    /\ writing = Nothing
    /\ seat = "up"
    /\ faults = 0

-----------------------------------------------------------------------------
Working(t) == job[t].on

\* Nobody holds the mutex.
StoreIsFree == seat = "up" /\ writing = Nothing

WriteRow(t, state) ==
    /\ StoreIsFree
    /\ writing' = <<t, state>>

\* SendMessage: the task is working as soon as it is known.
Accept(t) ==
    /\ memory[t] = "none" /\ rows[t] = <<>>
    /\ WriteRow(t, "working")
    /\ UNCHANGED <<rows, tail, memory, job, seat, faults>>

\* The thread's outcome, a panic included, is the terminal row.
Finish(t, state) ==
    /\ Working(t)
    /\ WriteRow(t, state)
    /\ job' = [job EXCEPT ![t] = NoJob]
    /\ UNCHANGED <<rows, tail, memory, seat, faults>>

\* The row is on disk, glued to the one before if that has no newline; the
\* record follows, and a new task's thread starts.
Written ==
    LET t == writing[1]  state == writing[2] IN
    /\ writing # Nothing /\ seat = "up"
    /\ rows' = [rows EXCEPT ![t] = Append(@, state)]
    /\ memory' = [memory EXCEPT ![t] = state]
    /\ job' = [job EXCEPT ![t] = IF state = "working" THEN Fresh ELSE @]
    /\ tail' = IF tail = "ended" THEN "ended" ELSE "torn"
    /\ writing' = Nothing
    /\ UNCHANGED <<seat, faults>>

\* A write that stops half-way: of the row nothing, a part, all but the newline
\* or all is there.
PartlyWritten ==
    \/ UNCHANGED <<rows, tail>>
    \/ writing # Nothing /\ tail' = "torn" /\ UNCHANGED rows
    \/ /\ writing # Nothing
       /\ rows' = [rows EXCEPT ![writing[1]] = Append(@, writing[2])]
       /\ tail' \in (IF tail = "ended" THEN {"ended", "open"} ELSE {"torn"})

\* An I/O error.  SendMessage reports it; a terminal row is given up and the
\* task stays working.
WriteFails ==
    /\ writing # Nothing /\ seat = "up" /\ faults < MaxSeatFaults
    /\ PartlyWritten
    /\ writing' = Nothing
    /\ faults' = faults + 1
    /\ UNCHANGED <<memory, job, seat>>

-----------------------------------------------------------------------------
(* Provider::complete.  Any answer ends it but 429.                        *)

Again(t, tries) ==
    /\ job' = [job EXCEPT ![t] = tries]
    /\ UNCHANGED <<rows, tail, memory, writing, seat, faults>>

\* The connection failed: a short pause.  The attempts are counted over the
\* whole call.
Unreachable(t) ==
    /\ Working(t) /\ job[t].transport + 1 < MaxTransport
    /\ Again(t, [job[t] EXCEPT !.transport = @ + 1])

\* 429: the pause is what Retry-After says, or the next of the schedule.
RateLimited(t) ==
    /\ Working(t) /\ job[t].limited + 1 < MaxLimited
    /\ Again(t, [job[t] EXCEPT !.limited = @ + 1])

-----------------------------------------------------------------------------
\* The seat dies, and every thread with it.
KillSeat ==
    /\ seat = "up" /\ faults < MaxSeatFaults
    /\ PartlyWritten
    /\ seat' = "down"
    /\ faults' = faults + 1
    /\ memory' = [t \in Task |-> "none"]
    /\ job' = [t \in Task |-> NoJob]
    /\ writing' = Nothing

\* Mutated: the first row of a task.
OldestRow(t) == IF rows[t] = <<>> THEN "none" ELSE Head(rows[t])

\* TaskStore::open keeps the last row of each task.
LatestRow(t) == IF rows[t] = <<>> THEN "none" ELSE rows[t][Len(rows[t])]

\* A seat whose file has a line that does not parse does not start.  Nobody
\* goes on with the tasks that were being worked on.
StartSeat ==
    /\ seat = "down" /\ tail # "torn"
    /\ seat' = "up"
    /\ memory' = [t \in Task |-> LatestRow(t)]
    /\ UNCHANGED <<rows, tail, job, writing, faults>>

-----------------------------------------------------------------------------
\* GetTask.
Reports(t, state) == StoreIsFree /\ memory[t] = state

Work(t) == Unreachable(t) \/ RateLimited(t) \/ \E s \in Ended : Finish(t, s)

PiNext ==
    \/ \E t \in Task : Accept(t) \/ Work(t)
    \/ Written \/ WriteFails
    \/ KillSeat \/ StartSeat

PiSpec == PiInit /\ [][PiNext]_piVars
=============================================================================
