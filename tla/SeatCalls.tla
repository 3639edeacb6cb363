------------------------------ MODULE SeatCalls ------------------------------
(***************************************************************************)
(* Lanes whose party is an A2A seat: the wait loop of a lane (src/run.rs,  *)
(* await_a2a_worker) and the thread that makes its call behind the         *)
(* process-wide gate (src/adapters.rs, CountingGate, execute_a2a_call).  A *)
(* lane may give a call up; the call goes on and keeps its slot.           *)
(*                                                                         *)
(* The seat at the other end (pi/) may answer anything at any time, and    *)
(* need not answer: a seat that restarts forgets what it worked on and     *)
(* reports the task as working for ever.                                   *)
(***************************************************************************)
EXTENDS Naturals, FiniteSets

CONSTANTS
    Lane,
    Limit,         \* calls the gate admits at once
    MaxCalls       \* bound: attempts of all lanes

ASSUME SeatAssumption ==
    /\ IsFiniteSet(Lane)
    /\ Limit \in Nat \ {0}
    /\ MaxCalls \in Nat

\* One thread for each attempt of a lane.
Call == Lane \X (1 .. MaxCalls)

VARIABLES
    held,       \* the gate's count
    call,       \* where each call's thread stands
    result,     \* what it came to
    signal,     \* the calls that reported their slot
    attempt,    \* the attempt each lane is at
    lane,       \* whether it waits, and what it returned with
    deadline,   \* whether its deadline is set
    cancelled   \* cancel.requested

gate == <<held, call, result, signal>>
lanes == <<attempt, lane, deadline>>
vars == <<gate, lanes, cancelled>>

Loc == {"none", "gate", "asleep", "woken", "send", "sent", "poll", "release", "notify", "done"}

TypeOK ==
    /\ held \in Nat
    /\ call \in [Call -> Loc]
    /\ result \in [Call -> {"none", "ok", "error"}]
    /\ signal \subseteq Call
    /\ attempt \in [Lane -> 0 .. MaxCalls]
    /\ lane \in [Lane -> {"idle", "wait", "ok", "error", "late", "cancelled"}]
    /\ deadline \in [Lane -> BOOLEAN]
    /\ cancelled \in BOOLEAN

Init ==
    /\ held = 0
    /\ call = [w \in Call |-> "none"]
    /\ result = [w \in Call |-> "none"]
    /\ signal = {}
    /\ attempt = [l \in Lane |-> 0]
    /\ lane = [l \in Lane |-> "idle"]
    /\ deadline = [l \in Lane |-> FALSE]
    /\ cancelled = FALSE

-----------------------------------------------------------------------------
(* The gate: a count under a mutex and a condition variable.               *)

Goes(w, loc) == call' = [call EXCEPT ![w] = loc]

\* Mutated: who was woken does not look again.
HasRoomOrWoken(w) == held < Limit \/ call[w] = "woken"

HasRoom(w) == held < Limit

Acquire(w) ==
    /\ call[w] \in {"gate", "woken"}
    /\ IF HasRoom(w)
       THEN held' = held + 1 /\ signal' = signal \cup {w} /\ Goes(w, "send")
       ELSE Goes(w, "asleep") /\ UNCHANGED <<held, signal>>
    /\ UNCHANGED <<result, lanes, cancelled>>

\* A condition variable may wake anybody at any time.
WakesUp(w) ==
    /\ call[w] = "asleep"
    /\ Goes(w, "woken")
    /\ UNCHANGED <<held, result, signal, lanes, cancelled>>

\* The slot is dropped when the call has its outcome: the count first ...
Release(w) ==
    /\ call[w] = "release"
    /\ held' = held - 1
    /\ Goes(w, "notify")
    /\ UNCHANGED <<result, signal, lanes, cancelled>>

\* Mutated: the slot is given back and nobody is told.
NotifyNobody(w) == Goes(w, "done")

\* ... then, without the mutex, one of those that sleep is woken.
NotifyOne(w) ==
    \/ /\ \A v \in Call : call[v] # "asleep"
       /\ Goes(w, "done")
    \/ \E v \in Call :
           /\ call[v] = "asleep"
           /\ call' = [call EXCEPT ![w] = "done", ![v] = "woken"]

Notify(w) ==
    /\ call[w] = "notify"
    /\ NotifyOne(w)
    /\ UNCHANGED <<held, result, signal, lanes, cancelled>>

-----------------------------------------------------------------------------
(* A call: SendMessage, then GetTask until the task has ended.             *)

Outcome(w, r) ==
    /\ result' = [result EXCEPT ![w] = r]
    /\ Goes(w, "release")

\* The request to accept a task leaves.
Send(w) ==
    /\ call[w] = "send"
    /\ Goes(w, "sent")
    /\ UNCHANGED <<held, result, signal, lanes, cancelled>>

\* Its answer names the task.
Accepted(w) ==
    /\ call[w] = "sent"
    /\ Goes(w, "poll")
    /\ UNCHANGED <<held, result, signal, lanes, cancelled>>

\* The task completed, and its artifact is the answer.
Completes(w) ==
    /\ call[w] = "poll"
    /\ Outcome(w, "ok")
    /\ UNCHANGED <<held, signal, lanes, cancelled>>

\* Every request has its own timeout, and polling its deadline: a request is
\* refused or not answered, the task failed or is unknown, or it still works
\* when the time is over.
Fails(w) ==
    /\ call[w] \in {"send", "sent", "poll"}
    /\ Outcome(w, "error")
    /\ UNCHANGED <<held, signal, lanes, cancelled>>

-----------------------------------------------------------------------------
(* The lane.                                                               *)

Current(l) == <<l, attempt[l]>>

\* The first attempt, or a retry of one that failed.
Attempt(l) ==
    /\ lane[l] \in {"idle", "error", "late"}
    /\ Cardinality({w \in Call : call[w] # "none"}) < MaxCalls
    /\ attempt[l] < MaxCalls
    /\ ~cancelled
    /\ attempt' = [attempt EXCEPT ![l] = @ + 1]
    /\ lane' = [lane EXCEPT ![l] = "wait"]
    /\ deadline' = [deadline EXCEPT ![l] = FALSE]
    /\ Goes(<<l, attempt[l] + 1>>, "gate")
    /\ UNCHANGED <<held, result, signal, cancelled>>

Returns(l, r) ==
    /\ lane' = [lane EXCEPT ![l] = r]
    /\ UNCHANGED <<gate, attempt, deadline, cancelled>>

\* The outcome is sent once the slot is free again.
Receive(l) ==
    /\ lane[l] = "wait"
    /\ call[Current(l)] = "done"
    /\ Returns(l, result[Current(l)])

SeesCancellation(l) ==
    /\ lane[l] = "wait"
    /\ cancelled
    /\ Returns(l, "cancelled")

\* Mutated: the budget runs from the start.
StartsAtOnce(l) == TRUE

\* The budget runs from the slot.
BudgetStarts(l) == Current(l) \in signal

SetDeadline(l) ==
    /\ lane[l] = "wait"
    /\ ~deadline[l]
    /\ BudgetStarts(l)
    /\ deadline' = [deadline EXCEPT ![l] = TRUE]
    /\ UNCHANGED <<gate, attempt, lane, cancelled>>

\* Once it is set, time passes.
TimesOut(l) ==
    /\ lane[l] = "wait"
    /\ deadline[l]
    /\ Returns(l, "late")

Cancel ==
    /\ ~cancelled
    /\ cancelled' = TRUE
    /\ UNCHANGED <<gate, lanes>>

-----------------------------------------------------------------------------
Thread(w) == Acquire(w) \/ Release(w) \/ Notify(w) \/ Send(w) \/ Accepted(w) \/ Completes(w) \/ Fails(w)

Waits(l) == Receive(l) \/ SeesCancellation(l) \/ SetDeadline(l) \/ TimesOut(l)

Next ==
    \/ \E w \in Call : Thread(w) \/ WakesUp(w)
    \/ \E l \in Lane : Attempt(l) \/ Waits(l)
    \/ Cancel

Spec == Init /\ [][Next]_vars

\* Threads run, and time passes for the calls that have begun.  A lane need
\* not time out: it has no deadline before its call has a slot.
Fairness ==
    /\ \A w \in Call : WF_vars(Thread(w))
    /\ \A l \in Lane : WF_vars(Receive(l))

FairSpec == Spec /\ Fairness

-----------------------------------------------------------------------------
\* No more calls are under way than the gate admits, those included that their
\* lanes have given up (CountingGate).
CallsWithinLimit ==
    Cardinality({w \in Call : call[w] \in {"send", "sent", "poll"}}) <= Limit

\* A lane that waits for a slot does not use up its time: it only times out
\* after its call began (await_a2a_worker).
QueuedKeepsBudget ==
    \A l \in Lane : lane[l] = "late" => Current(l) \in signal

\* Every lane returns, however many calls were given up before it: each slot
\* comes back and somebody who waits for it hears of it (acquire, GateSlot).
LanesReturn == \A l \in Lane : lane[l] = "wait" ~> lane[l] # "wait"
=============================================================================
