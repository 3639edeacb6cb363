-------------------------- MODULE SeatSystemProofs --------------------------
(***************************************************************************)
(* What the gate, the lanes and the seat promise, for any number of lanes, *)
(* calls, slots and faults.                                                *)
(*                                                                         *)
(* The gate: its count is the number of calls that have a slot, given-up   *)
(* calls included, since only the thread of a call takes and drops it.     *)
(* The lanes: a deadline is set for a call that reported its slot, and a   *)
(* new attempt begins without one.  The seat: when it reports a task as    *)
(* completed, the last row of the task says so, and nobody is left who     *)
(* would write another.                                                    *)
(***************************************************************************)
EXTENDS SeatSystem, Sequences, FiniteSetTheorems, TLAPS

USE SeatAssumption, SystemAssumption

-----------------------------------------------------------------------------
(* The gate.                                                               *)

Holders == {w \in Call : call[w] \in {"send", "sent", "poll", "release"}}

\* A lane's calls are numbered by its attempts.
Numbered ==
    /\ attempt \in [Lane -> 0 .. MaxCalls]
    /\ \A l \in Lane, i \in 1 .. MaxCalls : i > attempt[l] => call[<<l, i>>] = "none"

CountIsTrue ==
    /\ call \in [Call -> Loc]
    /\ Numbered
    /\ held = Cardinality(Holders)
    /\ held <= Limit

LEMMA CallsAreFinite == IsFiniteSet(Call)
  BY FS_Interval, FS_Product, 1 \in Int, MaxCalls \in Int DEF Call

LEMMA HoldersAreFinite ==
    /\ IsFiniteSet(Holders)
    /\ IsFiniteSet(Holders')
    /\ Cardinality(Holders) \in Nat
  BY CallsAreFinite, FS_Subset, FS_CardinalityType DEF Holders

LEMMA CountAtFirst == Init => CountIsTrue
<1> SUFFICES ASSUME Init PROVE CountIsTrue
  OBVIOUS
<1>1. Holders = {}
  BY DEF Init, Holders
<1> QED
  BY <1>1, FS_EmptySet DEF Init, CountIsTrue, Numbered, Loc, Call

\* A step after which the same calls have a slot.
LEMMA SameHolders ==
    ASSUME CountIsTrue, call' \in [Call -> Loc], Numbered', held' = held,
           \A w \in Call : call'[w] \in {"send", "sent", "poll", "release"}
                           <=> call[w] \in {"send", "sent", "poll", "release"}
    PROVE  CountIsTrue'
<1>1. Holders' = Holders
  BY DEF Holders
<1> QED
  BY <1>1 DEF CountIsTrue

\* A thread moves on, and its lane's number does not.
LEMMA NumberedKept ==
    ASSUME CountIsTrue, attempt' = attempt,
           \A w \in Call : call[w] = "none" => call'[w] = "none"
    PROVE  Numbered'
  BY DEF CountIsTrue, Numbered, Call

LEMMA CountKept == CountIsTrue /\ [Next]_vars => CountIsTrue'
<1> SUFFICES ASSUME CountIsTrue, [Next]_vars PROVE CountIsTrue'
  OBVIOUS
<1>1. ASSUME NEW w \in Call, Acquire(w) PROVE CountIsTrue'
  <2>1. Numbered'
    BY <1>1, NumberedKept DEF Acquire, Goes, CountIsTrue, lanes
  <2>2. CASE HasRoom(w)
    <3>1. Holders' = Holders \cup {w} /\ w \notin Holders
      BY <1>1, <2>2 DEF Acquire, Goes, Holders, CountIsTrue
    <3>2. Cardinality(Holders') = Cardinality(Holders) + 1
      BY <3>1, HoldersAreFinite, FS_AddElement
    <3> QED
      BY <1>1, <2>1, <2>2, <3>2, HoldersAreFinite
      DEF Acquire, Goes, CountIsTrue, HasRoom, Loc
  <2>3. CASE ~HasRoom(w)
    BY <1>1, <2>1, <2>3, SameHolders DEF Acquire, Goes, CountIsTrue, Loc
  <2> QED
    BY <2>2, <2>3
<1>2. ASSUME NEW w \in Call, Release(w) PROVE CountIsTrue'
  <2>1. Numbered'
    BY <1>2, NumberedKept DEF Release, Goes, CountIsTrue, lanes
  <2>2. Holders' = Holders \ {w} /\ w \in Holders
    BY <1>2 DEF Release, Goes, Holders, CountIsTrue
  <2>3. Cardinality(Holders') = Cardinality(Holders) - 1
    BY <2>2, HoldersAreFinite, FS_RemoveElement
  <2> QED
    BY <1>2, <2>1, <2>3, HoldersAreFinite DEF Release, Goes, CountIsTrue, Loc
<1>3. ASSUME NEW w \in Call, WakesUp(w) \/ Notify(w) PROVE CountIsTrue'
  <2>1. Numbered'
    BY <1>3, NumberedKept DEF WakesUp, Notify, NotifyOne, Goes, CountIsTrue, lanes
  <2> QED
    BY <1>3, <2>1, SameHolders DEF WakesUp, Notify, NotifyOne, Goes, CountIsTrue, Loc
<1>4. ASSUME NEW w \in Call, Send(w) \/ Accepted(w) \/ Completes(w) \/ Fails(w)
      PROVE  CountIsTrue'
  <2>1. Numbered'
    BY <1>4, NumberedKept
    DEF Send, Accepted, Completes, Fails, Outcome, Goes, CountIsTrue, lanes
  <2> QED
    BY <1>4, <2>1, SameHolders
    DEF Send, Accepted, Completes, Fails, Outcome, Goes, CountIsTrue, Loc
<1>5. ASSUME NEW l \in Lane, Attempt(l) PROVE CountIsTrue'
  <2>1. <<l, attempt[l] + 1>> \in Call /\ call[<<l, attempt[l] + 1>>] = "none"
    BY <1>5 DEF Attempt, CountIsTrue, Numbered, Call
  <2>2. Numbered'
    BY <1>5, <2>1 DEF Attempt, Goes, CountIsTrue, Numbered, Call
  <2> QED
    BY <1>5, <2>1, <2>2, SameHolders DEF Attempt, Goes, CountIsTrue, Loc
<1>6. CASE UNCHANGED <<gate, attempt>>
  BY <1>6 DEF CountIsTrue, Numbered, Holders, gate
<1>7. ASSUME NEW l \in Lane, Waits(l) PROVE UNCHANGED <<gate, attempt>>
  BY <1>7 DEF Waits, Receive, SeesCancellation, SetDeadline, TimesOut, Returns, gate
<1>8. Cancel => UNCHANGED <<gate, attempt>>
  BY DEF Cancel, gate, lanes
<1>9. UNCHANGED vars => UNCHANGED <<gate, attempt>>
  BY DEF vars, lanes
<1> QED
  BY <1>1, <1>2, <1>3, <1>4, <1>5, <1>6, <1>7, <1>8, <1>9 DEF Next, Thread

LEMMA CountBounds == CountIsTrue => CallsWithinLimit
<1> SUFFICES ASSUME CountIsTrue PROVE CallsWithinLimit
  OBVIOUS
<1> DEFINE W == {w \in Call : call[w] \in {"send", "sent", "poll"}}
<1>1. W \subseteq Holders
  BY DEF Holders
<1>2. Cardinality(W) <= Cardinality(Holders) /\ Cardinality(W) \in Nat
  BY <1>1, HoldersAreFinite, FS_Subset, FS_CardinalityType
<1> QED
  BY <1>2, HoldersAreFinite DEF CallsWithinLimit, CountIsTrue

\* The lanes' part of the system steps as SeatCalls says, except that all
\* requests at a seat fail at once when it dies.
LEMMA CallsOrDeath == [SystemNext]_systemVars => [Next]_vars \/ SeatDies
<1> SUFFICES ASSUME [SystemNext]_systemVars PROVE [Next]_vars \/ SeatDies
  OBVIOUS
<1>1. ASSUME NEW w \in Call, CallStep(w) PROVE Next
  BY <1>1 DEF CallStep, SendArrives, SendAnswered, PollAnswered, Next, Thread
<1>2. ASSUME NEW w \in Call, WakesUp(w) PROVE Next
  BY <1>2 DEF Next
<1>3. ASSUME NEW l \in Lane, Attempt(l) \/ Waits(l) PROVE Next
  BY <1>3 DEF Next
<1>4. Cancel => Next
  BY DEF Next
<1>5. SeatStep => UNCHANGED vars
  BY DEF SeatStep
<1>6. UNCHANGED systemVars => UNCHANGED vars
  BY DEF systemVars
<1> QED
  BY <1>1, <1>2, <1>3, <1>4, <1>5, <1>6 DEF SystemNext

LEMMA CountOutlivesSeat == CountIsTrue /\ SeatDies => CountIsTrue'
<1> SUFFICES ASSUME CountIsTrue, SeatDies PROVE CountIsTrue'
  OBVIOUS
<1>1. call' \in [Call -> Loc]
  BY DEF SeatDies, CountIsTrue, Loc
<1>2. Numbered'
  BY NumberedKept DEF SeatDies, lanes
<1> QED
  BY <1>1, <1>2, SameHolders DEF SeatDies, CountIsTrue

\* However many calls lanes have given up, and whatever becomes of the seat, no
\* more calls are under way than the gate admits (CountingGate, GateSlot).
THEOREM GateHolds == SystemSpec => []CallsWithinLimit
<1>1. SystemInit => CountIsTrue
  BY CountAtFirst DEF SystemInit
<1>2. CountIsTrue /\ [SystemNext]_systemVars => CountIsTrue'
  BY CallsOrDeath, CountKept, CountOutlivesSeat
<1> QED
  BY <1>1, <1>2, CountBounds, PTL DEF SystemSpec

-----------------------------------------------------------------------------
(* The lanes.                                                              *)

\* A deadline is that of a call that has reported its slot.
BudgetIsTrue ==
    /\ attempt \in [Lane -> 0 .. MaxCalls]
    /\ DOMAIN lane = Lane
    /\ DOMAIN deadline = Lane
    /\ result \in [Call -> {"none", "ok", "error"}]
    /\ \A l \in Lane : lane[l] = "wait" => attempt[l] > 0
    /\ \A l \in Lane : deadline[l] => Current(l) \in signal
    /\ \A l \in Lane : lane[l] = "late" => deadline[l]

LEMMA BudgetKept == BudgetIsTrue /\ [Next]_vars => BudgetIsTrue'
<1> SUFFICES ASSUME BudgetIsTrue, [Next]_vars PROVE BudgetIsTrue'
  OBVIOUS
<1>1. ASSUME NEW w \in Call, Thread(w) \/ WakesUp(w) PROVE BudgetIsTrue'
  <2>1. /\ UNCHANGED lanes
        /\ signal \subseteq signal'
        /\ result' \in [Call -> {"none", "ok", "error"}]
    BY <1>1 DEF Thread, Acquire, WakesUp, Release, Notify, Send, Accepted, Completes,
                Fails, Outcome, lanes, BudgetIsTrue
  <2> QED
    BY <2>1 DEF BudgetIsTrue, Current, lanes
<1>2. ASSUME NEW l \in Lane, Attempt(l) PROVE BudgetIsTrue'
  BY <1>2 DEF Attempt, BudgetIsTrue, Current
<1>3. ASSUME NEW l \in Lane, Receive(l) PROVE BudgetIsTrue'
  <2>1. Current(l) \in Call
    BY <1>3 DEF Receive, BudgetIsTrue, Current, Call
  <2>2. result[Current(l)] \in {"none", "ok", "error"}
    BY <2>1 DEF BudgetIsTrue
  <2> QED
    BY <1>3, <2>2 DEF Receive, Returns, BudgetIsTrue, Current, gate
<1>4. ASSUME NEW l \in Lane, SeesCancellation(l) \/ SetDeadline(l) \/ TimesOut(l)
      PROVE  BudgetIsTrue'
  BY <1>4 DEF SeesCancellation, SetDeadline, BudgetStarts, TimesOut, Returns,
              BudgetIsTrue, Current, gate
<1>5. CASE Cancel \/ UNCHANGED vars
  BY <1>5 DEF Cancel, BudgetIsTrue, Current, vars, gate, lanes
<1> QED
  BY <1>1, <1>2, <1>3, <1>4, <1>5 DEF Next, Waits

LEMMA BudgetOutlivesSeat == BudgetIsTrue /\ SeatDies => BudgetIsTrue'
  BY DEF BudgetIsTrue, SeatDies, Current, lanes

\* No lane runs out of time before its call had a slot (await_a2a_worker).
THEOREM BudgetIsKept == SystemSpec => []QueuedKeepsBudget
<1>1. SystemInit => BudgetIsTrue
  BY DEF SystemInit, Init, BudgetIsTrue
<1>2. BudgetIsTrue /\ [SystemNext]_systemVars => BudgetIsTrue'
  BY CallsOrDeath, BudgetKept, BudgetOutlivesSeat
<1>3. BudgetIsTrue => QueuedKeepsBudget
  BY DEF BudgetIsTrue, QueuedKeepsBudget
<1> QED
  BY <1>1, <1>2, <1>3, PTL DEF SystemSpec

-----------------------------------------------------------------------------
(* The seat.                                                               *)

Completed(w) == rows[w] # <<>> /\ rows[w][Len(rows[w])] = "completed"

\* A task that is completed on disk, and nobody is left who writes to it.
SettledIn(w) == Completed(w) /\ ~job[w].on /\ (writing # <<>> => writing[1] # w)

RowsTyped == rows \in [Call -> Seq(Pi!States)]

SeatTyped ==
    /\ memory \in [Call -> Pi!States \cup {"none"}]
    /\ job \in [Call -> Pi!Jobs]
    /\ writing \in (Call \X Pi!States) \cup {<<>>}
    /\ result \in [Call -> {"none", "ok", "error"}]

\* A terminal row is written when its thread is over; a seat that is down does
\* nothing.
Quiet ==
    /\ \A w \in Call : writing = <<w, "completed">> => ~job[w].on
    /\ seat = "down" => writing = <<>> /\ \A w \in Call : ~job[w].on

AnswerIsTrue ==
    /\ RowsTyped
    /\ SeatTyped
    /\ Quiet
    /\ \A w \in Call : seat = "up" /\ memory[w] = "completed" => SettledIn(w)
    /\ \A w \in Call : result[w] = "ok" => SettledIn(w)
    /\ AnswerSurvives

LEMMA FreshIsJob == Pi!NoJob \in Pi!Jobs /\ Pi!Fresh \in Pi!Jobs
<1>1. 0 \in 0 .. MaxTransport - 1 /\ 0 \in 0 .. MaxLimited - 1
  OBVIOUS
<1>2. Pi!NoJob \in Pi!Jobs
  BY <1>1, Zenon DEF Pi!NoJob, Pi!Jobs
<1>3. \A j \in Pi!Jobs : [j EXCEPT !.on = TRUE] \in Pi!Jobs
  BY DEF Pi!Jobs
<1> QED
  BY <1>2, <1>3 DEF Pi!Fresh

\* A task's thread after one more failed attempt.
LEMMA TriedIsJob ==
    ASSUME NEW j \in Pi!Jobs
    PROVE  /\ j.transport + 1 < MaxTransport
              => /\ [j EXCEPT !.transport = @ + 1] \in Pi!Jobs
                 /\ [j EXCEPT !.transport = @ + 1].on = j.on
           /\ j.limited + 1 < MaxLimited
              => /\ [j EXCEPT !.limited = @ + 1] \in Pi!Jobs
                 /\ [j EXCEPT !.limited = @ + 1].on = j.on
  BY DEF Pi!Jobs

LEMMA AnswerAtFirst == SystemInit => AnswerIsTrue
  BY DEF SystemInit, Init, Pi!PiInit, Pi!NoJob, Pi!Jobs, Pi!Nothing, AnswerIsTrue, RowsTyped, SeatTyped,
         Quiet, SettledIn, Completed, AnswerSurvives

LEMMA RowsUntouched ==
    ASSUME UNCHANGED rows
    PROVE  (RowsTyped' <=> RowsTyped) /\ \A w \in Call : Completed(w)' <=> Completed(w)
  BY DEF RowsTyped, Completed

LEMMA RowsAppended ==
    ASSUME RowsTyped, NEW w \in Call, NEW s \in Pi!States,
           rows' = [rows EXCEPT ![w] = Append(@, s)]
    PROVE  /\ RowsTyped'
           /\ Completed(w)' <=> s = "completed"
           /\ \A v \in Call \ {w} : Completed(v)' <=> Completed(v)
<1>1. Append(rows[w], s) \in Seq(Pi!States)
  BY DEF RowsTyped
<1>2. Append(rows[w], s) # <<>> /\ Append(rows[w], s)[Len(Append(rows[w], s))] = s
  BY DEF RowsTyped
<1>3. rows'[w] = Append(rows[w], s) /\ \A v \in Call \ {w} : rows'[v] = rows[v]
  BY DEF RowsTyped
<1> QED
  BY <1>1, <1>2, <1>3 DEF RowsTyped, Completed

\* The seat does nothing, and no call gets its answer.
LEMMA AnswerUntouched ==
    ASSUME AnswerIsTrue, Alone, result' \in [Call -> {"none", "ok", "error"}],
           \A w \in Call : result'[w] = "ok" => result[w] = "ok"
    PROVE  AnswerIsTrue'
  BY RowsUntouched
  DEF Alone, seatVars, AnswerIsTrue, SeatTyped, Quiet, SettledIn, AnswerSurvives

\* A write that stops half-way leaves what is settled, and types.
LEMMA PartlyWrittenKeeps ==
    ASSUME AnswerIsTrue, Pi!PartlyWritten
    PROVE  RowsTyped' /\ \A w \in Call : SettledIn(w) => Completed(w)'
<1>1. CASE UNCHANGED rows
  BY <1>1, RowsUntouched DEF AnswerIsTrue, SettledIn
<1>2. CASE writing # <<>> /\ rows' = [rows EXCEPT ![writing[1]] = Append(@, writing[2])]
  <2>1. writing[1] \in Call /\ writing[2] \in Pi!States
    BY <1>2 DEF AnswerIsTrue, SeatTyped
  <2> QED
    BY <1>2, <2>1, RowsAppended DEF AnswerIsTrue, SettledIn
<1> QED
  BY <1>1, <1>2 DEF Pi!PartlyWritten, Pi!Nothing

LEMMA AnswerKept == AnswerIsTrue /\ [SystemNext]_systemVars => AnswerIsTrue'
<1> SUFFICES ASSUME AnswerIsTrue, [SystemNext]_systemVars PROVE AnswerIsTrue'
  OBVIOUS
<1>1. ASSUME NEW w \in Call,
             SendAnswered(w) \/ ((Acquire(w) \/ Release(w) \/ Notify(w) \/ Fails(w) \/ WakesUp(w)) /\ Alone)
      PROVE  AnswerIsTrue'
  <2>1. Alone
    BY <1>1 DEF SendAnswered
  <2>2. /\ result' \in [Call -> {"none", "ok", "error"}]
        /\ \A v \in Call : result'[v] = "ok" => result[v] = "ok"
    BY <1>1 DEF SendAnswered, Accepted, Acquire, Release, Notify, Fails, Outcome, WakesUp,
                AnswerIsTrue, SeatTyped
  <2> QED
    BY <2>1, <2>2, AnswerUntouched
<1>2. ASSUME Alone, UNCHANGED result PROVE AnswerIsTrue'
  BY <1>2, AnswerUntouched DEF AnswerIsTrue, SeatTyped
<1>3. ASSUME NEW l \in Lane, (Attempt(l) \/ Waits(l)) /\ Alone PROVE AnswerIsTrue'
  BY <1>2, <1>3 DEF Attempt, Waits, Receive, SeesCancellation, SetDeadline, TimesOut, Returns, gate
<1>4. ASSUME Cancel /\ Alone PROVE AnswerIsTrue'
  BY <1>2, <1>4 DEF Cancel, gate
<1>5. CASE UNCHANGED systemVars
  BY <1>2, <1>5 DEF systemVars, vars, gate, Alone
<1> USE DEF AnswerIsTrue, SeatTyped, Quiet, SettledIn, AnswerSurvives
<1>6. ASSUME NEW w \in Call, SendArrives(w) PROVE AnswerIsTrue'
  <2>1. ~Completed(w)
    BY <1>6 DEF SendArrives, Pi!Accept, Completed
  <2> QED
    BY <1>6, <2>1, RowsUntouched
    DEF SendArrives, Send, Pi!Accept, Pi!WriteRow, Pi!StoreIsFree, Pi!Nothing, Pi!States
<1>7. ASSUME NEW w \in Call, PollAnswered(w) PROVE AnswerIsTrue'
  BY <1>7, RowsUntouched
  DEF PollAnswered, Completes, Outcome, Pi!Reports, Pi!StoreIsFree, Alone, seatVars
<1>8. ASSUME NEW w \in Call, Pi!Work(w), UNCHANGED vars PROVE AnswerIsTrue'
  <2>1. UNCHANGED <<rows, memory, seat, result>>
    BY <1>8 DEF Pi!Work, Pi!Unreachable, Pi!RateLimited, Pi!Again, Pi!Finish, vars, gate
  <2>2. ASSUME Pi!Unreachable(w) \/ Pi!RateLimited(w) PROVE AnswerIsTrue'
    <3>1. job' \in [Call -> Pi!Jobs] /\ \A v \in Call : job'[v].on = job[v].on
      <4>1. job[w] \in Pi!Jobs
        OBVIOUS
      <4>2. PICK tries \in Pi!Jobs : job' = [job EXCEPT ![w] = tries] /\ tries.on = job[w].on
        BY <2>2, <4>1, TriedIsJob DEF Pi!Unreachable, Pi!RateLimited, Pi!Again
      <4> QED
        BY <4>2
    <3>2. UNCHANGED writing
      BY <2>2 DEF Pi!Unreachable, Pi!RateLimited, Pi!Again
    <3> QED
      BY <2>1, <3>1, <3>2, RowsUntouched
  <2>3. ASSUME NEW s \in Pi!Ended, Pi!Finish(w, s) PROVE AnswerIsTrue'
    <3>1. job[w].on /\ seat = "up" /\ writing = <<>> /\ writing' = <<w, s>>
      BY <2>3 DEF Pi!Finish, Pi!Working, Pi!WriteRow, Pi!StoreIsFree, Pi!Nothing
    <3>2. job' \in [Call -> Pi!Jobs] /\ \A v \in Call : job'[v].on => v # w /\ job[v].on
      BY <2>3 DEF Pi!Finish, Pi!NoJob, Pi!Jobs
    <3>3. /\ writing' \in (Call \X Pi!States) \cup {<<>>}
          /\ writing' # <<>> => writing'[1] = w
      BY <3>1 DEF Pi!States
    <3>4. \A v \in Call : writing' = <<v, "completed">> => ~job'[v].on
      BY <3>1, <3>2
    <3>5. \A v \in Call : SettledIn(v) => v # w
      BY <3>1
    <3> QED
      BY <2>1, <3>1, <3>2, <3>3, <3>4, <3>5, RowsUntouched
  <2> QED
    BY <1>8, <2>2, <2>3 DEF Pi!Work
<1>9. ASSUME Pi!Written, UNCHANGED vars PROVE AnswerIsTrue'
  <2>1. PICK t \in Call, s \in Pi!States : writing = <<t, s>>
    BY <1>9 DEF Pi!Written, Pi!Nothing
  <2>7. /\ rows' = [rows EXCEPT ![t] = Append(@, s)]
        /\ memory' = [memory EXCEPT ![t] = s]
        /\ job' = [job EXCEPT ![t] = IF s = "working" THEN Pi!Fresh ELSE @]
    BY <1>9, <2>1 DEF Pi!Written
  <2>2. /\ RowsTyped'
        /\ Completed(t)' <=> s = "completed"
        /\ \A v \in Call \ {t} : Completed(v)' <=> Completed(v)
    BY <2>7, RowsAppended
  <2>3. /\ job' \in [Call -> Pi!Jobs]
        /\ \A v \in Call \ {t} : job'[v] = job[v]
        /\ s # "working" => job'[t] = job[t]
    <3>1. Pi!Fresh \in Pi!Jobs
      BY FreshIsJob
    <3> QED
      BY <2>7, <3>1
  <2>4. /\ memory' \in [Call -> Pi!States \cup {"none"}]
        /\ memory'[t] = s
        /\ \A v \in Call \ {t} : memory'[v] = memory[v]
        /\ writing' = <<>> /\ seat = "up" /\ seat' = "up" /\ UNCHANGED result
    BY <1>9, <2>7 DEF Pi!Written, Pi!Nothing, vars, gate
  <2>5. \A v \in Call : SettledIn(v) => v # t
    BY <2>1
  <2>6. s = "completed" => ~job[t].on
    BY <2>1
  <2> QED
    BY <2>2, <2>3, <2>4, <2>5, <2>6
<1>10. ASSUME Pi!WriteFails, UNCHANGED vars PROVE AnswerIsTrue'
  <2>1. RowsTyped' /\ \A w \in Call : SettledIn(w) => Completed(w)'
    BY <1>10, PartlyWrittenKeeps DEF Pi!WriteFails
  <2> QED
    BY <1>10, <2>1 DEF Pi!WriteFails, Pi!Nothing, vars, gate
<1>11. ASSUME Pi!StartSeat, UNCHANGED vars PROVE AnswerIsTrue'
  <2>1. \A w \in Call : memory'[w] = "completed" <=> Completed(w)
    BY <1>11 DEF Pi!StartSeat, Pi!LatestRow, Completed
  <2>2. memory' \in [Call -> Pi!States \cup {"none"}]
    BY <1>11 DEF Pi!StartSeat, Pi!LatestRow, RowsTyped
  <2> QED
    BY <1>11, <2>1, <2>2, RowsUntouched DEF Pi!StartSeat, vars, gate
<1>12. ASSUME SeatDies PROVE AnswerIsTrue'
  <2>1. RowsTyped' /\ \A w \in Call : SettledIn(w) => Completed(w)'
    BY <1>12, PartlyWrittenKeeps DEF SeatDies, Pi!KillSeat
  <2>2. /\ result' \in [Call -> {"none", "ok", "error"}]
        /\ \A w \in Call : result'[w] = "ok" => result[w] = "ok"
    BY <1>12 DEF SeatDies
  <2>3. /\ seat' = "down" /\ writing' = <<>>
        /\ memory' \in [Call -> Pi!States \cup {"none"}]
        /\ job' \in [Call -> Pi!Jobs] /\ \A w \in Call : ~job'[w].on
    BY <1>12 DEF SeatDies, Pi!KillSeat, Pi!Nothing, Pi!NoJob, Pi!Jobs
  <2> QED
    BY <2>1, <2>2, <2>3
<1> QED
  BY <1>1, <1>3, <1>4, <1>5, <1>6, <1>7, <1>8, <1>9, <1>10, <1>11, <1>12
  DEF SystemNext, CallStep, SeatStep

\* A task whose artifact a lane was given stays completed, wherever the seat is
\* killed and however often its writes fail (task.rs:87-90).
THEOREM AnswerIsKept == SystemSpec => []AnswerSurvives
<1>1. AnswerIsTrue => AnswerSurvives
  BY DEF AnswerIsTrue
<1> QED
  BY <1>1, AnswerAtFirst, AnswerKept, PTL DEF SystemSpec
=============================================================================
