----------------------------- MODULE RunPhases -----------------------------
(***************************************************************************)
(* The rounds of a run (src/run.rs): R1 with its lanes in parallel, R2     *)
(* over what R1 contested, in parallel or one lane after the other, and    *)
(* the counterpart arbiter of R3; the attempts of each lane, their         *)
(* classification, the retries, and the waits before them.                 *)
(*                                                                         *)
(* One scheduler thread works under .run.lock, so there is one session at  *)
(* a time; it may be killed anywhere and entered again.  The lanes of a    *)
(* parallel round are threads.  A killed session takes its transports with *)
(* it: what is left of them is reconciled before advance() goes on.        *)
(*                                                                         *)
(* Time is not counted: cool, recent and pacing say whether an instant has *)
(* passed.  The run's status is here only whether it goes on; transitions  *)
(* and their crashes are in RunStore and RunScheduler, and the handshake   *)
(* with the primary arbiter, here a choice of its verdict, is in           *)
(* PrimaryArbiter.                                                         *)
(***************************************************************************)
EXTENDS Contestation, MergeVerdicts, LaneAnswer

CONSTANTS
    Lane,          \* the routes of the roster
    Counterpart,   \* the route of the counterpart arbiter
    Supervised,    \* the routes whose adapter is a child process
    Answers,       \* the valid answers there are in each round
    MaxAttempts,   \* policy.max_attempts
    MaxKills,      \* bound: sessions killed
    NoAnswer,      \* no accepted.json
    NoLane

ASSUME PhasesAssumption ==
    /\ IsFiniteSet(Lane)
    /\ Lane # {}
    /\ Counterpart \notin Lane
    /\ Supervised \subseteq Lane \cup {Counterpart}
    /\ NoLane \notin Lane \cup {Counterpart}
    /\ MaxAttempts \in Nat \ {0}
    /\ MaxKills \in Nat

Phases == {"R1", "R2", "R3"}

\* An answer that was accepted satisfies the contract of its round.
ASSUME AnswersAssumption ==
    \A ph \in Phases : \A a \in Answers[ph] :
        \A id \in DOMAIN a.residuals : a.residuals[id] \in Residual

Route == Lane \cup {Counterpart}
Roster(ph) == IF ph = "R3" THEN {Counterpart} ELSE Lane

VARIABLES
    parallel,         \* policy.r2_parallel
    status,           \* "active", or how the run ended
    cancelRequested,  \* cancel.requested exists
    \* files
    dirs,             \* the highest attempt-<n> of a lane, by round and route
    accepted,         \* accepted.json of a lane; r3/cc-response.json
    deadline,         \* next_attempt of retry-deadline.json, 0 without the file
    pacing,           \* r2-rate-state.json: none, interval, backoff, or over
    skipped,          \* r2/skipped.json exists
    packet,           \* the lanes packets/r2.json quotes, {} without the file
    result,           \* result.json, with the primary verdict it was merged from
    \* the session
    at,               \* where its thread stands
    phase,            \* the round it runs
    cur,              \* the route it works on
    job,              \* how far a route is in this round
    try,              \* the attempt of a route
    got,              \* what the attempt came to, until the thread is done with it
    last,             \* history: what there is to hold against that (Against)
    failed,           \* an error was collected from a route
    stopped,          \* the launch of lanes was cut short
    \* the world
    cool,             \* the due time of a retry has not come
    recent,           \* less than the interval since an R2 transport started
    calls,            \* history: transports started
    unpaced,          \* history: killed after an R2 start, before its pacing
    kills

files == <<dirs, accepted, deadline, pacing, skipped, packet, result>>
session == <<at, phase, cur, job, try, got, last, failed, stopped>>
world == <<cool, recent, calls, unpaced, kills>>
vars == <<parallel, status, cancelRequested, files, session, world>>

PerRoute(x) == [ph \in Phases |-> [l \in Route |-> x]]

\* What a session knows is gone when it leaves a round.
Drop(loc) ==
    /\ at' = loc
    /\ phase' = "R1"
    /\ cur' = NoLane
    /\ job' = [l \in Route |-> "idle"]
    /\ try' = [l \in Route |-> 0]
    /\ got' = [l \in Route |-> <<>>]
    /\ last' = [l \in Route |-> "fit"]
    /\ failed' = FALSE
    /\ stopped' = FALSE

Init ==
    /\ parallel \in BOOLEAN
    /\ status = "active"
    /\ cancelRequested = FALSE
    /\ dirs = PerRoute(0)
    /\ accepted = PerRoute(NoAnswer)
    /\ deadline = PerRoute(0)
    /\ pacing = "none"
    /\ skipped = FALSE
    /\ packet = {}
    /\ result = NoAnswer
    /\ at = "off"
    /\ phase = "R1"
    /\ cur = NoLane
    /\ job = [l \in Route |-> "idle"]
    /\ try = [l \in Route |-> 0]
    /\ got = [l \in Route |-> <<>>]
    /\ last = [l \in Route |-> "fit"]
    /\ failed = FALSE
    /\ stopped = FALSE
    /\ cool = PerRoute(FALSE)
    /\ recent = FALSE
    /\ calls = PerRoute(0)
    /\ unpaced = FALSE
    /\ kills = 0

-----------------------------------------------------------------------------
(* What an attempt comes to.                                               *)

\* What the parsers make of an output (LaneAnswer), of a lane or of an arbiter.
Holds(arbiter, s) == IF arbiter THEN AcceptedVerdict(s) # {} ELSE Accepted(s) # {}

Readings == [arbiter \in BOOLEAN |->
    {[parses |-> Holds(arbiter, s), \* it holds one output of the contract
      unusable |-> Unusable(s),     \* a completed stream, a useless final part
      ended |-> s.ended,
      last |-> IF arbiter THEN "fit" ELSE LastIs(s),
      chat |-> s.carrier = "chat"]  \* an in-process provider call
     : s \in Outputs}]

\* What was captured of an attempt, as far as its classification looks at it.
Captures == [arbiter \in BOOLEAN |->
    {r \in [cancelled : BOOLEAN,   \* ended because of cancel.requested
            limited : BOOLEAN,     \* more bytes than the policy allows
            timedOut : BOOLEAN,
            exitZero : BOOLEAN,
            out : Readings[arbiter],
            evidence : BOOLEAN,    \* its references and ids are valid
            cleaned : BOOLEAN,     \* temporary credentials were removed
            rateLimited : BOOLEAN, \* classify_rate_limit found a signal
            seat : BOOLEAN] :      \* stderr names an A2A seat task
        ~(r.cancelled /\ r.timedOut)}]

Heard(r) == ~r.cancelled /\ ~r.limited

Valid(r) ==
    Heard(r) /\ (r.timedOut \/ r.exitZero) /\ r.out.parses /\ r.evidence /\ r.cleaned

\* RetryClass::RateLimited.  A timeout is classified before the exit code.
RateLimited(r) ==
    /\ Heard(r) /\ ~r.timedOut /\ r.cleaned /\ r.rateLimited
    /\ ~r.exitZero \/ (~r.out.parses /\ r.out.chat)

\* RetryClass::TransientTimeout and TransientAdapter.
Transient(r) ==
    /\ Heard(r) /\ r.cleaned
    /\ \/ r.timedOut /\ ~(r.out.parses /\ r.evidence)
       \/ ~r.timedOut /\ ~RateLimited(r)
          /\ IF r.exitZero THEN ~r.out.parses /\ r.out.unusable ELSE r.seat

\* What an attempt comes to: an answer, a failure that may be tried again, a
\* final one (RetryClass::Never, or a Retry-After beyond the ceiling of the
\* policy), or a cancellation.
CameTo(ph, r) ==
    CASE r.cancelled -> {<<"cancelled">>}
      [] Valid(r) -> {<<"answer", a>> : a \in Answers[ph]}
      [] Transient(r) -> {<<"retry">>}
      [] RateLimited(r) -> {<<"retry">>, <<"final">>}
      [] OTHER -> {<<"final">>}

\* What there is to hold against that: an answer although the stream ended in
\* something else, or an output that was cut off and heard to its end or until the
\* deadline.
Against(r) ==
    CASE Valid(r) -> r.out.last
      [] Heard(r) /\ r.cleaned /\ (r.timedOut \/ (r.exitZero /\ r.out.ended))
         /\ ~Valid(r) /\ r.out.last = "cut" -> "cut"
      [] OTHER -> "fit"

\* run_attempt itself may fail, too.
Outcomes == [ph \in Phases |->
    {[got |-> <<"broken">>, last |-> "fit"]}
    \cup UNION {[got : CameTo(ph, r), last : {Against(r)}] : r \in Captures[ph = "R3"]}]

-----------------------------------------------------------------------------
(* The session's thread.                                                   *)

Missing(ph) == {l \in Roster(ph) : accepted[ph][l] = NoAnswer}
PhaseComplete(ph) == Missing(ph) = {}

\* The R1 answers, and what they contest.
FirstRound == [l \in Lane |-> accepted["R1"][l]]
Disputed == Contested(FirstRound)

Parallel(ph) == ph = "R1" \/ (ph = "R2" /\ parallel)
Paced(ph) == ph = "R2" /\ ~parallel

\* Mutated: every session counts its attempts anew.
FirstAttempt(ph, l) == IF accepted[ph][l] = NoAnswer THEN 1 ELSE MaxAttempts + 1

\* Attempts are counted by their directories.
NextAttempt(ph, l) == dirs[ph][l] + 1

RetryAllowed(l) == got[l] = <<"retry">> /\ try[l] < MaxAttempts

To(loc) == at' = loc

\* The session ends, and the run with it: fail_run, which yields to a
\* cancellation.
End(s) ==
    /\ status' = IF cancelRequested THEN "Cancelled" ELSE s
    /\ Drop("off")
    /\ UNCHANGED <<parallel, cancelRequested, files, world>>

\* cancel_run where a cancellation was noticed: the run is over, the session
\* is not yet.
CancelRun == status' = IF cancelRequested THEN "Cancelled" ELSE status

\* The thread is done with a route, and with what its attempt came to.
Settle(l) ==
    /\ job' = [job EXCEPT ![l] = "settled"]
    /\ got' = [got EXCEPT ![l] = <<>>]
    /\ last' = [last EXCEPT ![l] = "fit"]
    /\ cur' = NoLane

\* An error met while a lane of a parallel round is settled is collected, and
\* the other lanes are settled first; any other one fails the run.
Collect(l) ==
    /\ failed' = TRUE
    /\ Settle(l)
    /\ To("settle")
    /\ UNCHANGED <<parallel, cancelRequested, files, phase, try, stopped, world>>

Bail ==
    IF Parallel(phase) /\ job[cur] # "missing"
    THEN Collect(cur) /\ UNCHANGED status
    ELSE End("Failed")

Resume ==
    /\ at = "off"
    /\ status = "active"
    /\ To("advance")
    /\ UNCHANGED <<parallel, status, cancelRequested, files, phase, cur, job,
                   try, got, last, failed, stopped, world>>

Begin(ph) ==
    /\ at = "advance"
    /\ ~cancelRequested
    /\ IF Parallel(ph) /\ \E l \in Missing(ph) : NextAttempt(ph, l) > MaxAttempts
       THEN End("Failed")
       ELSE /\ phase' = ph
            /\ job' = [l \in Route |-> IF l \in Missing(ph) THEN "missing" ELSE "settled"]
            /\ cur' = NoLane
            /\ try' = [l \in Route |-> 0]
            /\ got' = [l \in Route |-> <<>>]
            /\ last' = [l \in Route |-> "fit"]
            /\ failed' = FALSE
            /\ stopped' = FALSE
            /\ To("pick")
            /\ UNCHANGED <<parallel, status, cancelRequested, files, world>>

BeginR1 == ~PhaseComplete("R1") /\ Begin("R1")

\* A unanimous first round needs no second one.  That is noted whether or not
\* the run is being cancelled.
SkipR2 ==
    /\ at = "advance"
    /\ PhaseComplete("R1")
    /\ ~skipped
    /\ Disputed = {}
    /\ skipped' = TRUE
    /\ UNCHANGED <<parallel, status, cancelRequested, dirs, accepted, deadline,
                   pacing, packet, result, session, world>>

\* Otherwise its packet is due: the transition notices a cancellation ...
R2Packet ==
    /\ at = "advance"
    /\ ~cancelRequested
    /\ PhaseComplete("R1")
    /\ ~skipped
    /\ Disputed # {}
    /\ packet = {}
    /\ To("packet")
    /\ UNCHANGED <<parallel, status, cancelRequested, files, phase, cur, job, try, got,
                   last, failed, stopped, world>>

\* ... and build_r2_packet does not: the contested answers, under rotated labels.
WritePacket ==
    /\ at = "packet"
    /\ packet' = Disputed
    /\ To("advance")
    /\ UNCHANGED <<parallel, status, cancelRequested, dirs, accepted, deadline, pacing,
                   skipped, result, phase, cur, job, try, got, last, failed, stopped,
                   world>>

\* Every lane is heard again, whatever was contested.
BeginR2 ==
    /\ PhaseComplete("R1")
    /\ ~skipped
    /\ packet # {}
    /\ ~PhaseComplete("R2")
    /\ Begin("R2")

\* Mutated: R3 needs only a second round that has begun.
SecondRoundBegun == skipped \/ packet # {}

SecondRoundOver == skipped \/ (packet # {} /\ PhaseComplete("R2"))

BeginR3 ==
    /\ PhaseComplete("R1")
    /\ SecondRoundOver
    /\ ~PhaseComplete("R3")
    /\ Begin("R3")

\* Mutated: a second round replaces the first.
LastRound ==
    IF skipped THEN {accepted["R1"][l] : l \in Lane}
               ELSE {accepted["R2"][l] : l \in Lane}

\* What the rounds hand to the merge.
Earlier ==
    {accepted["R1"][l] : l \in Lane}
    \cup (IF skipped THEN {} ELSE {accepted["R2"][l] : l \in Lane})

\* The primary arbiter answers and write_run_result merges the verdicts.
Decide ==
    /\ at = "advance"
    /\ ~cancelRequested
    /\ PhaseComplete("R1") /\ SecondRoundOver /\ PhaseComplete("R3")
    /\ \E primary \in Answers["R3"] :
           result' = [merged |-> Merge(primary, accepted["R3"][Counterpart], Earlier),
                      primary |-> primary]
    /\ status' = "Decided"
    /\ Drop("off")
    /\ UNCHANGED <<parallel, cancelRequested, dirs, accepted, deadline, pacing, skipped,
                   packet, world>>

\* Any of the transitions of advance() ends a run that is being cancelled.
AdvanceCancelled ==
    /\ at = "advance"
    /\ cancelRequested
    /\ End("Cancelled")

\* The next lane to prepare (parallel) or to run (one after the other).
Pick(l) ==
    /\ at = "pick"
    /\ job[l] = "missing"
    /\ IF NextAttempt(phase, l) > MaxAttempts
       THEN End("Failed")
       ELSE /\ cur' = l
            /\ try' = [try EXCEPT ![l] = NextAttempt(phase, l)]
            /\ To("due")
            /\ UNCHANGED <<parallel, status, cancelRequested, files, phase, job,
                           got, last, failed, stopped, world>>

PickNoMore ==
    /\ at = "pick"
    /\ \A l \in Route : job[l] # "missing"
    /\ cur' = NoLane
    /\ To(IF Parallel(phase) THEN "launch" ELSE "gate")
    /\ UNCHANGED <<parallel, status, cancelRequested, files, phase, job, try, got,
                   last, failed, stopped, world>>

AfterDue == To(IF Paced(phase) THEN "pace" ELSE "build")

\* Mutated: only a retry of this session waits.
NoDeadlineOfThisSession ==
    /\ at = "due"
    /\ deadline[phase][cur] = 0 \/ job[cur] = "missing"
    /\ AfterDue
    /\ UNCHANGED <<parallel, status, cancelRequested, files, phase, cur, job,
                   try, got, last, failed, stopped, world>>

NoDeadline ==
    /\ at = "due"
    /\ deadline[phase][cur] = 0
    /\ AfterDue
    /\ UNCHANGED <<parallel, status, cancelRequested, files, phase, cur, job,
                   try, got, last, failed, stopped, world>>

\* wait_for_retry_deadline refuses a deadline of another attempt.
DeadlinePassed ==
    /\ at = "due"
    /\ deadline[phase][cur] # 0
    /\ IF deadline[phase][cur] # try[cur]
       THEN Bail
       ELSE /\ ~cool[phase][cur]
            /\ deadline' = [deadline EXCEPT ![phase][cur] = 0]
            /\ AfterDue
            /\ UNCHANGED <<parallel, status, cancelRequested, dirs, accepted, pacing,
                           skipped, packet, result, phase, cur, job, try, got, last,
                           failed, stopped, world>>

\* The wait for a retry or for the pacing is cut short by a cancellation.
Waiting ==
    \/ at = "due" /\ deadline[phase][cur] = try[cur] /\ cool[phase][cur]
    \/ at = "pace" /\ pacing \in {"interval", "backoff"}

WaitCancelled ==
    /\ Waiting
    /\ cancelRequested
    /\ IF Parallel(phase) /\ job[cur] # "missing"
       THEN Collect(cur) /\ CancelRun
       ELSE End("Cancelled")

\* wait_for_r2_pacing, without a file or when its time has come.
PacingPassed ==
    /\ at = "pace"
    /\ pacing \in {"none", "over"}
    /\ pacing' = "none"
    /\ To("build")
    /\ UNCHANGED <<parallel, status, cancelRequested, dirs, accepted, deadline, skipped,
                   packet, result, phase, cur, job, try, got, last, failed, stopped, world>>

\* adapters::build creates the attempt's directory.  The first attempts of a
\* parallel round are all built before any of them starts.
Build ==
    /\ at = "build"
    /\ dirs' = [dirs EXCEPT ![phase][cur] = try[cur]]
    /\ IF Parallel(phase) /\ job[cur] = "missing"
       THEN /\ job' = [job EXCEPT ![cur] = "ready"]
            /\ To("pick")
       ELSE /\ job' = [job EXCEPT ![cur] = "started"]
            /\ To("call")
    /\ UNCHANGED <<parallel, status, cancelRequested, accepted, deadline, pacing,
                   skipped, packet, result, phase, cur, try, got, last, failed, stopped,
                   world>>

\* The route or its input cannot be prepared; the directory may exist already.
BuildFails ==
    /\ at = "build"
    /\ Bail

Launch(l) ==
    /\ at = "launch"
    /\ job[l] = "ready"
    /\ job' = [job EXCEPT ![l] = "started"]
    /\ UNCHANGED <<parallel, status, cancelRequested, files, at, phase, cur, try,
                   got, last, failed, stopped, world>>

\* The stagger between two starts notices a cancellation: the lanes that were
\* not launched never will be, and the run has ended while the others still
\* run.
LaunchCancelled ==
    /\ at = "launch"
    /\ cancelRequested
    /\ \E l \in Route : job[l] \in {"started", "launching", "calling", "returned"}
    /\ \E l \in Route : job[l] = "ready"
    /\ CancelRun
    /\ stopped' = TRUE
    /\ job' = [l \in Route |-> IF job[l] = "ready" THEN "settled" ELSE job[l]]
    /\ To("join")
    /\ UNCHANGED <<parallel, cancelRequested, files, phase, cur, try, got, last,
                   failed, world>>

LaunchDone ==
    /\ at = "launch"
    /\ \A l \in Route : job[l] # "ready"
    /\ To("join")
    /\ UNCHANGED <<parallel, status, cancelRequested, files, phase, cur, job, try,
                   got, last, failed, stopped, world>>

\* Mutated: the first lane that returns is looked at.
FirstReturned == \E l \in Route : job[l] = "returned"

\* Every launched lane is joined before any of their outputs is looked at.
Joined == \A l \in Route : job[l] \notin {"started", "launching", "calling"}

Join ==
    /\ at = "join"
    /\ Joined
    /\ IF stopped \/ \E l \in Route : got[l] = <<"broken">>
       THEN End("Failed")
       ELSE /\ To("settle")
            /\ UNCHANGED <<parallel, status, cancelRequested, files, phase, cur,
                           job, try, got, last, failed, stopped, world>>

\* Mutated: only a retry leaves a pacing behind.
CallReturnedUnpaced ==
    /\ at = "call"
    /\ job[cur] = "returned"
    /\ IF got[cur] = <<"broken">>
       THEN Bail
       ELSE /\ To("settle")
            /\ UNCHANGED <<parallel, status, cancelRequested, files, phase, cur, job,
                           try, got, last, failed, stopped, world>>

\* A call the thread made itself is over; in the serial second round the next
\* one has to keep its distance from now on.
CallReturned ==
    /\ at = "call"
    /\ job[cur] = "returned"
    /\ IF got[cur] = <<"broken">>
       THEN Bail
       ELSE /\ pacing' = IF Paced(phase) /\ pacing # "backoff" THEN "interval" ELSE pacing
            /\ To("settle")
            /\ UNCHANGED <<parallel, status, cancelRequested, dirs, accepted, deadline,
                           skipped, packet, result, phase, cur, job, try, got, last,
                           failed, stopped, world>>

\* accept_or_retry_lane, await_arbiter_output: a lane that is back is given up
\* when a cancellation is noticed, and looked at otherwise.
Settling(l) ==
    /\ at = "settle"
    /\ job[l] = "returned"

\* Mutated: only the lane itself looks for a cancellation.
NoticedByLane(l) == got[l] = <<"cancelled">>

Noticed(l) == cancelRequested \/ got[l] = <<"cancelled">>

Abandon(l) ==
    /\ Settling(l)
    /\ Noticed(l)
    /\ IF Parallel(phase) THEN Collect(l) /\ CancelRun ELSE End("Failed")

Clear(l) ==
    /\ Settling(l)
    /\ ~Noticed(l)
    /\ cur' = l
    /\ To("cleared")
    /\ UNCHANGED <<parallel, status, cancelRequested, files, phase, job, try, got, last,
                   failed, stopped, world>>

\* A cancellation that comes after that does not keep its answer from being
\* accepted ...
Accept ==
    /\ at = "cleared"
    /\ \E a \in Answers[phase] :
           /\ got[cur] = <<"answer", a>>
           /\ accepted' = [accepted EXCEPT ![phase][cur] = a]
    /\ Settle(cur)
    /\ To("settle")
    /\ UNCHANGED <<parallel, status, cancelRequested, dirs, deadline, pacing, skipped,
                   packet, result, phase, try, failed, stopped, world>>

\* ... nor the lane from being put off: the due time is on disk before the
\* wait ...
ScheduleRetry ==
    /\ at = "cleared"
    /\ RetryAllowed(cur)
    /\ deadline' = [deadline EXCEPT ![phase][cur] = try[cur] + 1]
    /\ cool' = [cool EXCEPT ![phase][cur] = TRUE]
    /\ job' = [job EXCEPT ![cur] = "retry"]
    /\ got' = [got EXCEPT ![cur] = <<>>]
    /\ last' = [last EXCEPT ![cur] = "fit"]
    /\ To("scheduled")
    /\ UNCHANGED <<parallel, status, cancelRequested, dirs, accepted, pacing, skipped,
                   packet, result, phase, cur, try, failed, stopped, recent, calls,
                   unpaced, kills>>

\* (in the serial second round the other lanes keep away as long)
RetryScheduled ==
    /\ at = "scheduled"
    /\ pacing' = IF Paced(phase) THEN "backoff" ELSE pacing
    /\ try' = [try EXCEPT ![cur] = @ + 1]
    /\ To("due")
    /\ UNCHANGED <<parallel, status, cancelRequested, dirs, accepted, deadline, skipped,
                   packet, result, phase, cur, job, got, last, failed, stopped, world>>

\* Mutated: a lane whose attempts are used up is not given up.
GiveUpFailed ==
    /\ at = "cleared"
    /\ got[cur] = <<"final">>
    /\ Bail

\* ... nor from being given up.
GiveUp ==
    /\ at = "cleared"
    /\ got[cur] \in {<<"final">>, <<"retry">>}
    /\ ~RetryAllowed(cur)
    /\ Bail

AllSettled ==
    /\ at = "settle"
    /\ \A l \in Route : job[l] # "returned"
    /\ IF failed
       THEN End("Failed")
       ELSE /\ To(IF Parallel(phase) THEN "gate" ELSE "pick")
            /\ UNCHANGED <<parallel, status, cancelRequested, files, phase, cur,
                           job, try, got, last, failed, stopped, world>>

\* The five-party gate.  The transition to R1Gate or R2Gate notices a
\* cancellation.
Gate ==
    /\ at = "gate"
    /\ CASE ~PhaseComplete(phase) -> End("Failed")
         [] PhaseComplete(phase) /\ phase \in {"R1", "R2"} /\ cancelRequested ->
                End("Cancelled")
         [] OTHER -> /\ Drop("advance")
                     /\ UNCHANGED <<parallel, status, cancelRequested, files, world>>

-----------------------------------------------------------------------------
(* The lanes, each in its thread or in the session's.                      *)

\* run_attempt looks for a cancellation first, and a child is not spawned
\* without looking again.
LaneRefused(l) ==
    /\ job[l] = "started" \/ (job[l] = "launching" /\ l \in Supervised)
    /\ cancelRequested
    /\ job' = [job EXCEPT ![l] = "returned"]
    /\ got' = [got EXCEPT ![l] = <<"cancelled">>]
    /\ UNCHANGED <<parallel, status, cancelRequested, files, at, phase, cur, try, last,
                   failed, stopped, world>>

LaneStarts(l) ==
    /\ job[l] = "started"
    /\ ~cancelRequested
    /\ job' = [job EXCEPT ![l] = "launching"]
    /\ UNCHANGED <<parallel, status, cancelRequested, files, at, phase, cur, try, got,
                   last, failed, stopped, world>>

\* A call of this process is made without looking again.
LaneCalls(l) ==
    /\ job[l] = "launching"
    /\ l \in Supervised => ~cancelRequested
    /\ job' = [job EXCEPT ![l] = "calling"]
    /\ calls' = [calls EXCEPT ![phase][l] = @ + 1]
    /\ recent' = (recent \/ Paced(phase))
    /\ UNCHANGED <<parallel, status, cancelRequested, files, at, phase, cur, try, got,
                   last, failed, stopped, cool, unpaced, kills>>

\* An attempt that cannot be started is broken.
LaneReturns(l) ==
    /\ job[l] \in {"launching", "calling"}
    /\ \E o \in Outcomes[phase] :
           /\ job[l] = "launching" => o.got = <<"broken">>
           /\ o.got = <<"cancelled">> => cancelRequested
           /\ got' = [got EXCEPT ![l] = o.got]
           /\ last' = [last EXCEPT ![l] = o.last]
    /\ job' = [job EXCEPT ![l] = "returned"]
    /\ UNCHANGED <<parallel, status, cancelRequested, files, at, phase, cur, try,
                   failed, stopped, world>>

-----------------------------------------------------------------------------
(* The surroundings.                                                       *)

RetryComesDue(ph, l) ==
    /\ cool[ph][l]
    /\ cool' = [cool EXCEPT ![ph][l] = FALSE]
    /\ UNCHANGED <<parallel, status, cancelRequested, files, session, recent, calls,
                   unpaced, kills>>

IntervalPasses ==
    /\ recent
    /\ recent' = FALSE
    /\ unpaced' = FALSE
    /\ UNCHANGED <<parallel, status, cancelRequested, files, session, cool, calls,
                   kills>>

\* The pacing's instant lies after the interval of the last start and, in a
\* backoff, after the retry that set it.
PacingComesDue ==
    /\ pacing \in {"interval", "backoff"}
    /\ ~recent
    /\ pacing = "backoff" => \A l \in Lane : ~cool["R2"][l]
    /\ pacing' = "over"
    /\ UNCHANGED <<parallel, status, cancelRequested, dirs, accepted, deadline, skipped,
                   packet, result, session, world>>

RequestCancel ==
    /\ status = "active"
    /\ ~cancelRequested
    /\ cancelRequested' = TRUE
    /\ UNCHANGED <<parallel, status, files, session, world>>

\* The canceller ends the run itself when it finds no child: there may be a
\* session nevertheless, whose calls are made in its process or whose children
\* have not been registered yet, or no longer are.
CancelEnds ==
    /\ status = "active"
    /\ cancelRequested
    /\ status' = "Cancelled"
    /\ UNCHANGED <<parallel, cancelRequested, files, session, world>>

Kill ==
    /\ at # "off"
    /\ kills < MaxKills
    /\ kills' = kills + 1
    /\ unpaced' = (recent /\ pacing = "none")
    /\ Drop("off")
    /\ UNCHANGED <<parallel, status, cancelRequested, files, cool, recent, calls>>

Thread ==
    \/ BeginR1 \/ SkipR2 \/ R2Packet \/ WritePacket \/ BeginR2 \/ BeginR3
    \/ Decide \/ AdvanceCancelled
    \/ PickNoMore \/ NoDeadline \/ DeadlinePassed
    \/ WaitCancelled \/ PacingPassed \/ Build \/ BuildFails
    \/ LaunchCancelled \/ LaunchDone \/ Join \/ CallReturned
    \/ Accept \/ ScheduleRetry \/ RetryScheduled \/ GiveUp \/ AllSettled \/ Gate
    \/ \E l \in Route : Pick(l) \/ Launch(l) \/ Abandon(l) \/ Clear(l)

LaneThread(l) == LaneRefused(l) \/ LaneStarts(l) \/ LaneCalls(l) \/ LaneReturns(l)

Clock ==
    \/ \E ph \in Phases, l \in Route : RetryComesDue(ph, l)
    \/ IntervalPasses
    \/ PacingComesDue

Progress == Thread \/ (\E l \in Route : LaneThread(l)) \/ Clock

Next == Resume \/ Progress \/ RequestCancel \/ CancelEnds \/ Kill

Spec == Init /\ [][Next]_vars

\* A session that can go on does, a call ends by its deadline and time passes.
\* Each of these comes to an end, so it is enough that one of them happens.
Fairness == WF_vars(Progress)

FairSpec == Spec /\ Fairness

-----------------------------------------------------------------------------
(* What the rounds promise.                                                *)

\* However often a session is killed and entered again, a route is called at
\* most max_attempts times in a round: the directories it left count
\* (next_attempt).
BudgetHolds == \A ph \in Phases, l \in Route : calls[ph][l] <= MaxAttempts

\* A later round has begun only on all answers of the one before it; the packet
\* of R2 quotes what the answers contest; R3 without R2 follows a unanimous R1.
GateHolds ==
    /\ \A l \in Lane :
           calls["R2"][l] > 0 => /\ PhaseComplete("R1")
                                /\ Disputed # {}
                                /\ packet = Disputed
    /\ calls["R3"][Counterpart] > 0
           => /\ PhaseComplete("R1")
              /\ IF Disputed = {} THEN skipped ELSE PhaseComplete("R2")

\* A high-risk residual of any lane, in either round, is in the result, and is
\* closed there only if an arbiter reported it closed and none reported it open:
\* it must not disappear because both arbiters omit it (merge_verdicts,
\* run.rs:4441-4442).
RisksSurvive ==
    result # NoAnswer
    => \A ph \in {"R1", "R2"}, l \in Lane :
           accepted[ph][l] # NoAnswer
           => \A id \in HighRiskIds({accepted[ph][l]}) :
                  LET said == {a.residuals[id] : a \in
                                  {b \in {result.primary, accepted["R3"][Counterpart]} :
                                      id \in DOMAIN b.residuals}}
                  IN  /\ id \in DOMAIN result.merged.residuals
                      /\ result.merged.residuals[id].closed
                             => said # {} /\ \A r \in said : r.closed

\* A lane whose stream ended in something that may be meant as its answer and is
\* none, finished or not, does not go on with an older draft; if it was cut off,
\* the lane is asked again while it has attempts left, unless its session is lost
\* (extract_json_from_events, parse_last_complete_candidate,
\* has_unusable_final_candidate; specs/RUNTIME-MIGRATION.md:115-119,
\* specs/PROTOCOL.md:251-258).  What is recognised so is less in a text event than
\* in a CodeWhale stream: LaneAnswer's Recognised.
FinalCandidateDecides ==
    [][at = "cleared" /\ last[cur] # "fit"
       => /\ accepted' = accepted
          /\ last[cur] = "cut" /\ try[cur] < MaxAttempts
                 => \/ at' \in {"cleared", "scheduled"}
                    \/ at' = "off" /\ status' = status]_vars

\* Once its retry is scheduled a route is not called before the due time, in
\* this session or a later one (retry-deadline.json).
CooldownKept ==
    [][\A ph \in Phases, l \in Route :
           calls'[ph][l] # calls[ph][l] => ~cool[ph][l]]_vars

\* In a serial second round two transports do not start within the interval,
\* except after a kill between a start and the pacing it should have left.
PacedUnlessKilled ==
    [][calls'["R2"] # calls["R2"] /\ ~parallel => ~recent \/ unpaced]_vars

\* No answer of a round is taken, and no run given up as failed, while a lane
\* that was launched has not been joined: an early failure must not detach the
\* lanes behind it (run.rs:2642-2643).
LanesJoined ==
    [][accepted' # accepted \/ (status' # status /\ ~cancelRequested)
       => \A l \in Route : job[l] \notin {"started", "launching", "calling"}]_vars

\* What was decided on while the run went on, and is not done yet.
AboutToCall == {<<phase, l>> : l \in {k \in Route : job[k] = "launching"}}

AboutToAnswer ==
    IF at = "cleared" /\ \E a \in Answers[phase] : got[cur] = <<"answer", a>>
    THEN {<<phase, cur>>}
    ELSE {}

\* Whatever becomes of its sessions, a run keeps what Deliberation promises: calls
\* within the budget and in the order of the rounds, answers that stand, and after
\* a failure or a cancellation neither a result nor anything else, except what was
\* decided on before the cancellation: calls that had passed their last look for
\* one, the answer of one lane, the packet; and the note that R2 is unnecessary
\* (advance, phase_complete, run_attempt, accept_or_retry_lane, write_run_result).
Deliberation == INSTANCE Deliberation WITH
    MaxCalls <- MaxAttempts,
    Disputes <- Contested,
    Merged <- Merge,
    toCall <- AboutToCall,
    toAnswer <- AboutToAnswer,
    quoting <- at = "packet"
DeliberationSpec == Deliberation!Spec

\* A session comes back: no lane waits for another for ever, and the retries
\* run out.
SessionEnds == at # "off" ~> at = "off"
=============================================================================
