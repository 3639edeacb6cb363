----------------------------- MODULE SeatSystem -----------------------------
(***************************************************************************)
(* SeatCalls and PiSeat together: the lanes' calls are answered by a Pi    *)
(* seat that may be killed and started again.                              *)
(***************************************************************************)
EXTENDS SeatCalls

CONSTANTS MaxTransport, MaxLimited, MaxSeatFaults

ASSUME SystemAssumption ==
    /\ MaxTransport \in Nat \ {0}
    /\ MaxLimited \in Nat \ {0}
    /\ MaxSeatFaults \in Nat

VARIABLES rows, tail, memory, job, writing, seat, faults

Pi == INSTANCE PiSeat WITH Task <- Call

seatVars == <<rows, tail, memory, job, writing, seat, faults>>
systemVars == <<vars, seatVars>>

SystemInit == Init /\ Pi!PiInit

Alone == UNCHANGED seatVars

\* The request is at the seat; its answer may be lost.
SendArrives(w) == Send(w) /\ Pi!Accept(w)

\* The answer to SendMessage, once the task is known.
SendAnswered(w) ==
    /\ seat = "up" /\ memory[w] # "none"
    /\ Accepted(w) /\ Alone

PollAnswered(w) ==
    /\ Pi!Reports(w, "completed")
    /\ Completes(w) /\ Alone

CallStep(w) ==
    \/ SendArrives(w) \/ SendAnswered(w) \/ PollAnswered(w)
    \/ (Acquire(w) \/ Release(w) \/ Notify(w) \/ Fails(w)) /\ Alone

SeatStep ==
    /\ \/ \E w \in Call : Pi!Work(w)
       \/ Pi!Written \/ Pi!WriteFails
       \/ Pi!StartSeat
    /\ UNCHANGED vars

\* A request the seat has not answered yet fails with it.
SeatDies ==
    LET asked == {w \in Call : call[w] = "sent"} IN
    /\ Pi!KillSeat
    /\ call' = [w \in Call |-> IF w \in asked THEN "release" ELSE call[w]]
    /\ result' = [w \in Call |-> IF w \in asked THEN "error" ELSE result[w]]
    /\ UNCHANGED <<held, signal, lanes, cancelled>>

SystemNext ==
    \/ \E w \in Call : CallStep(w) \/ (WakesUp(w) /\ Alone)
    \/ \E l \in Lane : (Attempt(l) \/ Waits(l)) /\ Alone
    \/ Cancel /\ Alone
    \/ SeatStep \/ SeatDies

\* Threads run, and every request ends: it has a timeout.  Nothing is assumed of
\* the seat.
SystemFairness ==
    /\ \A w \in Call : WF_systemVars(CallStep(w))
    /\ \A l \in Lane : WF_systemVars(Receive(l) /\ Alone)

SystemSpec == SystemInit /\ [][SystemNext]_systemVars /\ SystemFairness

-----------------------------------------------------------------------------
\* What a lane was told a seat keeps: once a call has its artifact, the seat
\* reports the task as completed whenever it is up, restarts included
\* (task.rs:87-90: a completed task must not regress to working).
AnswerSurvives ==
    \A w \in Call :
        result[w] = "ok" /\ seat = "up" => memory[w] = "completed"

=============================================================================
