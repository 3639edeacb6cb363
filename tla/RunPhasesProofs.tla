--------------------------- MODULE RunPhasesProofs ---------------------------
(***************************************************************************)
(* What RunPhases promises, for any roster, budget, answers and number of  *)
(* kills.                                                                  *)
(***************************************************************************)
EXTENDS RunPhases, WellFoundedInduction, TLAPS

Locs == {"off", "advance", "packet", "pick", "due", "pace", "build", "launch", "join",
         "call", "settle", "cleared", "scheduled", "gate"}

Jobs == {"idle", "missing", "ready", "started", "launching", "calling", "returned",
         "retry", "settled"}

Given(ph) == Answers[ph] \cup {NoAnswer}

TypeOK ==
    /\ parallel \in BOOLEAN
    /\ cancelRequested \in BOOLEAN
    /\ dirs \in [Phases -> [Route -> Nat]]
    /\ DOMAIN accepted = Phases
    /\ \A ph \in Phases : accepted[ph] \in [Route -> Given(ph)]
    /\ deadline \in [Phases -> [Route -> Nat]]
    /\ pacing \in {"none", "interval", "backoff", "over"}
    /\ skipped \in BOOLEAN
    /\ at \in Locs
    /\ phase \in Phases
    /\ cur \in Route \cup {NoLane}
    /\ job \in [Route -> Jobs]
    /\ try \in [Route -> Nat]
    /\ cool \in [Phases -> [Route -> BOOLEAN]]
    /\ recent \in BOOLEAN
    /\ unpaced \in BOOLEAN
    /\ calls \in [Phases -> [Route -> Nat]]

\* The route the thread works on, from its choice to the end of its call.
Working == {"due", "pace", "build", "scheduled", "call"}

\* How far a route is while the lanes are prepared, and while they are settled.
Prepared(l) == job[l] \in {"missing", "settled"} \/ (job[l] = "ready" /\ Parallel(phase))
Aside(l) == job[l] \in {"returned", "settled"} \/ (job[l] = "missing" /\ ~Parallel(phase))

\* Where the thread stands says how far the routes are.
Stages ==
    /\ at \in {"off", "advance", "packet"} =>
           phase = "R1" /\ \A l \in Route : job[l] = "idle"
    /\ at = "pick" => \A l \in Route : Prepared(l)
    /\ at \in Working => cur \in Route
    /\ at = "pace" => Paced(phase)
    /\ at \in {"due", "pace", "build"} => job[cur] \in {"missing", "retry"}
    /\ at \in {"due", "pace", "build"} /\ job[cur] = "missing"
           => \A l \in Route : Prepared(l)
    /\ at \in {"due", "pace", "build"} /\ job[cur] = "retry"
           => \A l \in Route \ {cur} : Aside(l)
    /\ at = "scheduled" => job[cur] = "retry"
    /\ at = "call" => job[cur] \in {"started", "launching", "calling", "returned"}
    /\ at \in {"scheduled", "call"} => \A l \in Route \ {cur} : Aside(l)
    /\ at = "launch" => \A l \in Route :
           job[l] \in {"ready", "started", "launching", "calling", "returned", "settled"}
    /\ at = "join" => \A l \in Route :
           job[l] \in {"started", "launching", "calling", "returned", "settled"}
    /\ at \in {"launch", "join"} => Parallel(phase)
    /\ at \in {"settle", "cleared"} => \A l \in Route : Aside(l)
    /\ at = "cleared" => cur \in Route /\ job[cur] = "returned"
    /\ at = "gate" => \A l \in Route : job[l] = "settled"

\* A route a round is not done with has no answer yet.
Open == \A l \in Route :
    job[l] \notin {"idle", "settled"} => l \in Roster(phase) /\ accepted[phase][l] = NoAnswer

\* The attempts are those the directories count.
Counted ==
    /\ \A ph \in Phases, l \in Route :
           calls[ph][l] <= dirs[ph][l] /\ dirs[ph][l] <= MaxAttempts
    /\ \A l \in Route :
           /\ job[l] \in {"ready", "started", "launching", "calling", "returned"}
                  => try[l] = dirs[phase][l]
           /\ job[l] \in {"ready", "started", "launching"} => calls[phase][l] < dirs[phase][l]
    /\ at \in {"due", "pace", "build"}
           => try[cur] = dirs[phase][cur] + 1 /\ try[cur] <= MaxAttempts
    /\ at = "scheduled" => try[cur] = dirs[phase][cur] /\ try[cur] < MaxAttempts

\* A due time that has not come is on disk, and no route that may call has one.
Deferred ==
    /\ \A ph \in Phases, l \in Route : cool[ph][l] => deadline[ph][l] # 0
    /\ at \in {"pace", "build"} => deadline[phase][cur] = 0
    /\ \A l \in Route :
           job[l] \in {"ready", "started", "launching", "calling", "returned"}
               => deadline[phase][l] = 0

\* Who started a transport within the interval left a pacing behind, is about
\* to, ended the run, or was killed in between.
Spaced ==
    /\ recent => \/ unpaced
                 \/ pacing \in {"interval", "backoff"}
                 \/ at = "call" /\ Paced(phase) /\ job[cur] \in {"calling", "returned"}
                 \/ at = "off" /\ status # "active"
    /\ recent => pacing # "over"
    /\ at = "build" /\ Paced(phase) => pacing = "none" /\ (recent => unpaced)
    /\ at = "call" /\ Paced(phase) => pacing = "none"
    /\ at = "call" /\ Paced(phase) /\ job[cur] \in {"started", "launching"}
           => (recent => unpaced)

\* What a round was begun on is still there.
Founded ==
    /\ packet # {} => PhaseComplete("R1") /\ packet = Disputed
    /\ skipped => PhaseComplete("R1") /\ Disputed = {}
    /\ phase = "R2" => packet # {}
    /\ \A l \in Lane : calls["R2"][l] > 0 \/ accepted["R2"][l] # NoAnswer => packet # {}
    /\ phase = "R3" \/ calls["R3"][Counterpart] > 0
           => PhaseComplete("R1") /\ SecondRoundOver
    /\ at = "packet" => PhaseComplete("R1")

\* A result ends the run.
Over == result # NoAnswer => at = "off" /\ status # "active"

PInv == TypeOK /\ Stages /\ Open /\ Counted /\ Deferred /\ Spaced /\ Founded /\ Over

USE PhasesAssumption DEF Phases, Route

-----------------------------------------------------------------------------
(* The invariant holds at first.                                           *)

LEMMA InitInv == Init => PInv
<1> SUFFICES ASSUME Init PROVE PInv
    OBVIOUS
<1>1. TypeOK
      BY DEF Init, TypeOK, PerRoute, Locs, Jobs, Given
<1>2. Stages /\ Open /\ Counted /\ Deferred /\ Spaced /\ Over
      BY DEF Init, PerRoute, Stages, Open, Counted, Deferred, Spaced, Over, Working
<1>3. Founded
      BY DEF Init, PerRoute, Founded
<1>4. QED  BY <1>1, <1>2, <1>3 DEF PInv

\* What a round was begun on does not change with the thread.
LEMMA StillFounded ==
    ASSUME Founded, UNCHANGED <<accepted, packet, skipped, phase, calls>>,
           at' \in {at, "advance", "pick", "due", "pace", "build", "launch", "join", "call",
                   "settle", "cleared", "scheduled", "gate"}
    PROVE  Founded'
<1>1. PhaseComplete("R1")' = PhaseComplete("R1") /\ Disputed' = Disputed
      BY DEF PhaseComplete, Missing, Disputed, FirstRound, Roster
<1>2. SecondRoundOver' = SecondRoundOver
      BY DEF SecondRoundOver, PhaseComplete, Missing, Roster
<1>3. QED  BY <1>1, <1>2 DEF Founded

-----------------------------------------------------------------------------
(* Steps in which a session leaves a round.                                *)

\* Nothing a session knew is left.
LEMMA Dropping ==
    ASSUME PInv, NEW loc \in {"off", "advance"}, Drop(loc),
           UNCHANGED <<parallel, dirs, accepted, deadline, pacing, skipped, packet,
                       cool, recent, calls>>,
           cancelRequested' \in BOOLEAN, unpaced' \in BOOLEAN, Spaced', Over'
    PROVE  PInv'
<1>1. TypeOK'
      BY DEF PInv, TypeOK, Drop, Locs, Jobs
<1>2. Stages' /\ Open'
      BY DEF Drop, Stages, Open, Working
<1>3. Counted' /\ Deferred'
      BY DEF PInv, Counted, Deferred, Drop
<1>4. PhaseComplete("R1")' = PhaseComplete("R1") /\ Disputed' = Disputed
      BY DEF PhaseComplete, Missing, Disputed, FirstRound, Roster
<1>5. SecondRoundOver' = SecondRoundOver
      BY DEF SecondRoundOver, PhaseComplete, Missing, Roster
<1>6. Founded'
      BY <1>4, <1>5 DEF PInv, Founded, Drop
<1>7. QED  BY <1>1, <1>2, <1>3, <1>6 DEF PInv

\* The run ends with its session.
LEMMA Ending ==
    ASSUME PInv, NEW s, s # "active", End(s)
    PROVE  PInv'
<1>1. /\ Drop("off")
      /\ status' # "active"
      /\ UNCHANGED <<parallel, cancelRequested, files, world>>
      BY DEF End
<1>2. Spaced'
      BY <1>1 DEF PInv, Spaced, Drop, files, world, Paced
<1>3. Over'
      BY <1>1 DEF Over, Drop
<1>4. QED  BY <1>1, <1>2, <1>3, Dropping DEF files, world, PInv, TypeOK

\* A route of a parallel round is given up, the others are settled first.
LEMMA Collecting ==
    ASSUME PInv, at # "off", Parallel(phase),
           NEW l \in Route, \A k \in Route \ {l} : Aside(k), Collect(l)
    PROVE  PInv'
<1>1. TypeOK'
      BY DEF PInv, TypeOK, Collect, Settle, To, files, world, Locs, Jobs
<1>2. Stages'
      BY DEF PInv, TypeOK, Stages, Working, Aside, Parallel, Collect, Settle, To
<1>3. Open' /\ Counted' /\ Deferred'
      BY DEF PInv, TypeOK, Open, Counted, Deferred, Roster, Collect, Settle, To, files, world
<1>4. Spaced' /\ Over'
      BY DEF PInv, Spaced, Over, Parallel, Paced, Collect, Settle, To, files, world
<1>5. Founded'
      BY StillFounded DEF PInv, Collect, Settle, To, files, world
<1>6. QED  BY <1>1, <1>2, <1>3, <1>4, <1>5 DEF PInv

\* An error that is collected, or fails the run.
LEMMA Bailing ==
    ASSUME PInv, at \in {"due", "build", "call", "cleared"}, Bail
    PROVE  PInv'
<1>1. CASE Parallel(phase) /\ job[cur] # "missing"
  <2>1. cur \in Route /\ \A k \in Route \ {cur} : Aside(k)
        BY <1>1 DEF PInv, Stages, Working
  <2>2. QED  BY <1>1, <2>1, Collecting DEF Bail
<1>2. CASE ~(Parallel(phase) /\ job[cur] # "missing")
      BY <1>2, Ending DEF Bail
<1>3. QED  BY <1>1, <1>2

\* A parallel round is refused, or the thread begins to prepare its lanes.
LEMMA Beginning ==
    ASSUME PInv, NEW ph \in Phases, Begin(ph),
           ph = "R2" => packet # {},
           ph = "R3" => PhaseComplete("R1") /\ SecondRoundOver
    PROVE  PInv'
<1>1. CASE Parallel(ph) /\ \E l \in Missing(ph) : NextAttempt(ph, l) > MaxAttempts
      BY <1>1, Ending DEF Begin
<1>2. CASE ~(Parallel(ph) /\ \E l \in Missing(ph) : NextAttempt(ph, l) > MaxAttempts)
  <2>1. /\ at = "advance" /\ at' = "pick"
        /\ phase' = ph
        /\ job' = [l \in Route |-> IF l \in Missing(ph) THEN "missing" ELSE "settled"]
        /\ cur' = NoLane
        /\ try' = [l \in Route |-> 0]
        /\ UNCHANGED <<parallel, status, cancelRequested, files, world>>
        BY <1>2 DEF Begin, To
  <2>2. TypeOK'
        BY <2>1 DEF PInv, TypeOK, files, world, Locs, Jobs
  <2>3. Stages'
        BY <2>1 DEF Stages, Working, Prepared
  <2>4. Open' /\ Counted' /\ Deferred'
        BY <2>1 DEF PInv, Open, Counted, Deferred, Missing, files, world
  <2>5. Spaced' /\ Over'
        BY <2>1 DEF PInv, Spaced, Over, files, world
  <2>6. PhaseComplete("R1")' = PhaseComplete("R1") /\ Disputed' = Disputed
        BY <2>1 DEF PhaseComplete, Missing, Disputed, FirstRound, Roster, files
  <2>7. SecondRoundOver' = SecondRoundOver
        BY <2>1 DEF SecondRoundOver, PhaseComplete, Missing, Roster, files
  <2>8. Founded'
        BY <2>1, <2>6, <2>7 DEF PInv, Founded, files, world
  <2>9. QED  BY <2>2, <2>3, <2>4, <2>5, <2>8 DEF PInv
<1>3. QED  BY <1>1, <1>2

-----------------------------------------------------------------------------
(* The thread.                                                             *)

\* A session takes the run up.
LEMMA Resuming ==
    ASSUME PInv, Resume
    PROVE  PInv'
<1>1. TypeOK'
      BY DEF PInv, TypeOK, Locs, Jobs, Resume, To, files, session, world
<1>2. Stages'
      BY DEF PInv, TypeOK, Stages, Working, Prepared, Aside, Parallel, Paced, Resume,
             To, files, session, world
<1>3. Open'
      BY DEF PInv, TypeOK, Stages, Working, Open, Resume, To, files, session, world
<1>4. Counted'
      BY DEF PInv, TypeOK, Stages, Working, Counted, Resume, To, files, session, world
<1>5. Deferred'
      BY DEF PInv, TypeOK, Stages, Working, Deferred, Resume, To, files, session, world
<1>6. Spaced' /\ Over'
      BY DEF PInv, TypeOK, Stages, Working, Spaced, Over, Parallel, Paced, Resume, To,
             files, session, world
<1>7. Founded'
      BY StillFounded DEF PInv, Resume, To, files, session, world
<1>8. QED  BY <1>1, <1>2, <1>3, <1>4, <1>5, <1>6, <1>7 DEF PInv

\* What advance() does between the rounds.
LEMMA Advancing ==
    ASSUME PInv, SkipR2 \/ R2Packet \/ WritePacket
    PROVE  PInv'
<1>1. /\ at \in {"advance", "packet"} /\ at' \in {"advance", "packet"}
      /\ PhaseComplete("R1")
      /\ UNCHANGED <<parallel, status, cancelRequested, dirs, accepted, deadline,
                     pacing, result, phase, cur, job, try, world>>
      /\ skipped' \in BOOLEAN
      BY DEF SkipR2, R2Packet, WritePacket, To, files, session, PInv, TypeOK, Founded
<1>2. TypeOK'
      BY <1>1 DEF PInv, TypeOK, Locs, world
<1>3. Stages' /\ Open' /\ Counted' /\ Deferred' /\ Over'
      BY <1>1 DEF PInv, Stages, Working, Prepared, Aside, Open, Roster, Counted, Deferred,
                  Over, world
<1>4. Spaced'
      BY <1>1 DEF PInv, Spaced, Paced, world
<1>5. PhaseComplete("R1")' /\ Disputed' = Disputed
      BY <1>1 DEF PhaseComplete, Missing, Disputed, FirstRound, Roster
<1>6. /\ packet' \in {packet, Disputed} /\ (skipped => skipped')
      /\ skipped' # skipped => Disputed = {}
      BY DEF SkipR2, R2Packet, WritePacket, files
<1>7. packet # {} => packet' = packet
      BY <1>6 DEF PInv, Founded
<1>8. SecondRoundOver => SecondRoundOver'
  <2>1. PhaseComplete("R2")' = PhaseComplete("R2")
        BY <1>1 DEF PhaseComplete, Missing, Roster
  <2>2. QED  BY <1>6, <1>7, <2>1 DEF SecondRoundOver
<1>9. Founded'
      BY <1>1, <1>5, <1>6, <1>7, <1>8 DEF PInv, Founded, world
<1>10. QED  BY <1>2, <1>3, <1>4, <1>9 DEF PInv

\* The result ends the run.
LEMMA Deciding ==
    ASSUME PInv, Decide
    PROVE  PInv'
<1>1. /\ Drop("off")
      /\ status' = "Decided"
      /\ UNCHANGED <<parallel, cancelRequested, dirs, accepted, deadline, pacing, skipped,
                     packet, world>>
      BY DEF Decide
<1>2. Spaced'
      BY <1>1 DEF PInv, Spaced, Drop, world, Paced
<1>3. Over'
      BY <1>1 DEF Over, Drop
<1>4. QED  BY <1>1, <1>2, <1>3, Dropping DEF world, PInv, TypeOK

\* A lane is chosen that has an attempt left.
LEMMA Choosing ==
    ASSUME PInv, NEW l \in Route, Pick(l), ~(NextAttempt(phase, l) > MaxAttempts)
    PROVE  PInv'
<1>0. /\ at = "pick" /\ at' = "due"
      /\ job[l] = "missing" /\ cur' = l
      /\ try' = [try EXCEPT ![l] = dirs[phase][l] + 1]
      /\ dirs[phase][l] + 1 <= MaxAttempts
      /\ UNCHANGED <<parallel, status, cancelRequested, files, phase, job, got, failed,
                     stopped, world>>
  <2>1. dirs[phase][l] \in Nat
        BY DEF PInv, TypeOK
  <2>2. ~(NextAttempt(phase, l) > MaxAttempts)
        BY <2>1 DEF NextAttempt
  <2>3. QED  BY <2>1, <2>2 DEF Pick, To, NextAttempt
<1>1. TypeOK'
      BY <1>0 DEF PInv, TypeOK, Locs, files, world
<1>2. Stages'
      BY <1>0 DEF PInv, Stages, Working, Prepared, Parallel
<1>3. Open'
      BY <1>0 DEF PInv, Open, Roster, files
<1>4. Counted'
      BY <1>0 DEF PInv, TypeOK, Stages, Prepared, Counted, files, world
<1>5. Deferred'
      BY <1>0 DEF PInv, Deferred, files, world
<1>6. Spaced' /\ Over'
      BY <1>0 DEF PInv, Spaced, Over, files, world
<1>7. Founded'
      BY <1>0, StillFounded DEF PInv, files, world
<1>8. QED  BY <1>1, <1>2, <1>3, <1>4, <1>5, <1>6, <1>7 DEF PInv

\* All lanes are prepared, or all are done.
LEMMA PickingNoMore ==
    ASSUME PInv, PickNoMore
    PROVE  PInv'
<1>1. TypeOK'
      BY DEF PInv, TypeOK, Locs, Jobs, PickNoMore, To, files, session, world
<1>2. Stages'
      BY DEF PInv, TypeOK, Stages, Working, Prepared, Aside, Parallel, Paced,
             PickNoMore, To, files, session, world
<1>3. Open'
      BY DEF PInv, TypeOK, Stages, Working, Open, PickNoMore, To, files, session, world
<1>4. Counted'
      BY DEF PInv, TypeOK, Stages, Working, Counted, PickNoMore, To, files, session,
             world
<1>5. Deferred'
      BY DEF PInv, TypeOK, Stages, Working, Deferred, PickNoMore, To, files, session,
             world
<1>6. Spaced' /\ Over'
      BY DEF PInv, TypeOK, Stages, Working, Spaced, Over, Parallel, Paced, PickNoMore,
             To, files, session, world
<1>7. Founded'
      BY StillFounded DEF PInv, PickNoMore, To, files, session, world
<1>8. QED  BY <1>1, <1>2, <1>3, <1>4, <1>5, <1>6, <1>7 DEF PInv

\* A route has nothing to wait for ...
LEMMA Undue ==
    ASSUME PInv, NoDeadline
    PROVE  PInv'
<1>1. TypeOK'
      BY DEF PInv, TypeOK, Locs, Jobs, NoDeadline, To, files, session, world, AfterDue
<1>2. Stages'
      BY DEF PInv, TypeOK, Stages, Working, Prepared, Aside, Parallel, Paced,
             NoDeadline, To, files, session, world, AfterDue
<1>3. Open'
      BY DEF PInv, TypeOK, Stages, Working, Open, NoDeadline, To, files, session,
             world, AfterDue
<1>4. Counted'
      BY DEF PInv, TypeOK, Stages, Working, Counted, NoDeadline, To, files, session,
             world, AfterDue
<1>5. Deferred'
      BY DEF PInv, TypeOK, Stages, Working, Deferred, NoDeadline, To, files, session,
             world, AfterDue
<1>6. Spaced' /\ Over'
      BY DEF PInv, TypeOK, Stages, Working, Spaced, Over, Parallel, Paced, NoDeadline,
             To, files, session, world, AfterDue
<1>7. Founded'
      BY StillFounded DEF PInv, NoDeadline, To, files, session, world, AfterDue
<1>8. QED  BY <1>1, <1>2, <1>3, <1>4, <1>5, <1>6, <1>7 DEF PInv

\* ... or its due time has come.
LEMMA Due ==
    ASSUME PInv, DeadlinePassed, deadline[phase][cur] = try[cur]
    PROVE  PInv'
<1>1. TypeOK'
      BY DEF PInv, TypeOK, Locs, Jobs, DeadlinePassed, To, files, session, world,
             AfterDue
<1>2. Stages'
      BY DEF PInv, TypeOK, Stages, Working, Prepared, Aside, Parallel, Paced,
             DeadlinePassed, To, files, session, world, AfterDue
<1>3. Open'
      BY DEF PInv, TypeOK, Stages, Working, Open, DeadlinePassed, To, files, session,
             world, AfterDue
<1>4. Counted'
      BY DEF PInv, TypeOK, Stages, Working, Counted, DeadlinePassed, To, files,
             session, world, AfterDue
<1>5. Deferred'
      BY DEF PInv, TypeOK, Stages, Working, Deferred, DeadlinePassed, To, files,
             session, world, AfterDue
<1>6. Spaced' /\ Over'
      BY DEF PInv, TypeOK, Stages, Working, Spaced, Over, Parallel, Paced,
             DeadlinePassed, To, files, session, world, AfterDue
<1>7. Founded'
      BY StillFounded DEF PInv, DeadlinePassed, To, files, session, world, AfterDue
<1>8. QED  BY <1>1, <1>2, <1>3, <1>4, <1>5, <1>6, <1>7 DEF PInv

\* The next lane of a serial second round has kept its distance.
LEMMA PacingOver ==
    ASSUME PInv, PacingPassed
    PROVE  PInv'
<1>1. TypeOK'
      BY DEF PInv, TypeOK, Locs, Jobs, PacingPassed, To, files, session, world
<1>2. Stages'
      BY DEF PInv, TypeOK, Stages, Working, Prepared, Aside, Parallel, Paced,
             PacingPassed, To, files, session, world
<1>3. Open'
      BY DEF PInv, TypeOK, Stages, Working, Open, PacingPassed, To, files, session,
             world
<1>4. Counted'
      BY DEF PInv, TypeOK, Stages, Working, Counted, PacingPassed, To, files, session,
             world
<1>5. Deferred'
      BY DEF PInv, TypeOK, Stages, Working, Deferred, PacingPassed, To, files, session,
             world
<1>6. Spaced' /\ Over'
      BY DEF PInv, TypeOK, Stages, Working, Spaced, Over, Parallel, Paced,
             PacingPassed, To, files, session, world
<1>7. Founded'
      BY StillFounded DEF PInv, PacingPassed, To, files, session, world
<1>8. QED  BY <1>1, <1>2, <1>3, <1>4, <1>5, <1>6, <1>7 DEF PInv

\* The directory of the attempt is made.
LEMMA Building ==
    ASSUME PInv, Build
    PROVE  PInv'
<1>1. TypeOK'
  <2>1. cur \in Route
        BY DEF PInv, Stages, Working, Build
  <2>2. dirs' \in [Phases -> [Route -> Nat]]
        BY <2>1 DEF PInv, TypeOK, Build
  <2>3. job' \in [Route -> Jobs] /\ at' \in Locs
        BY <2>1 DEF PInv, TypeOK, Build, Jobs, Locs, To
  <2>4. QED  BY <2>2, <2>3 DEF PInv, TypeOK, Build, world
<1>2. Stages'
      BY DEF PInv, TypeOK, Stages, Working, Prepared, Aside, Parallel, Paced, Build,
             To, files, session, world
<1>3. Open'
      BY DEF PInv, TypeOK, Stages, Working, Open, Build, To, files, session, world
<1>4. Counted'
      BY DEF PInv, TypeOK, Stages, Working, Counted, Build, To, files, session, world
<1>5. Deferred'
      BY DEF PInv, TypeOK, Stages, Working, Deferred, Build, To, files, session, world
<1>6. Spaced' /\ Over'
      BY DEF PInv, TypeOK, Stages, Working, Spaced, Over, Parallel, Paced, Build, To,
             files, session, world
<1>7. Founded'
      BY StillFounded DEF PInv, Build, To, files, session, world
<1>8. QED  BY <1>1, <1>2, <1>3, <1>4, <1>5, <1>6, <1>7 DEF PInv

\* A lane is launched ...
LEMMA Launching ==
    ASSUME PInv, NEW l \in Route, Launch(l)
    PROVE  PInv'
<1>1. TypeOK'
      BY DEF PInv, TypeOK, Locs, Jobs, Launch, To, files, session, world
<1>2. Stages'
      BY DEF PInv, TypeOK, Stages, Working, Prepared, Aside, Parallel, Paced, Launch,
             To, files, session, world
<1>3. Open'
      BY DEF PInv, TypeOK, Stages, Working, Open, Launch, To, files, session, world
<1>4. Counted'
      BY DEF PInv, TypeOK, Stages, Working, Counted, Launch, To, files, session, world
<1>5. Deferred'
      BY DEF PInv, TypeOK, Stages, Working, Deferred, Launch, To, files, session, world
<1>6. Spaced' /\ Over'
      BY DEF PInv, TypeOK, Stages, Working, Spaced, Over, Parallel, Paced, Launch, To,
             files, session, world
<1>7. Founded'
      BY StillFounded DEF PInv, Launch, To, files, session, world
<1>8. QED  BY <1>1, <1>2, <1>3, <1>4, <1>5, <1>6, <1>7 DEF PInv

\* ... or no other one will be.
LEMMA LaunchingNoMore ==
    ASSUME PInv, LaunchCancelled \/ LaunchDone
    PROVE  PInv'
<1>1. TypeOK'
      BY DEF PInv, TypeOK, Locs, Jobs, LaunchCancelled, To, files, session, world,
             LaunchDone, CancelRun
<1>2. Stages'
      BY DEF PInv, TypeOK, Stages, Working, Prepared, Aside, Parallel, Paced,
             LaunchCancelled, To, files, session, world, LaunchDone, CancelRun
<1>3. Open'
  <2>1. UNCHANGED <<accepted, phase>>
        BY DEF LaunchCancelled, LaunchDone, files
  <2>2. \A l \in Route : job'[l] = job[l] \/ job'[l] = "settled"
        BY DEF LaunchCancelled, LaunchDone
  <2>3. QED  BY <2>1, <2>2 DEF PInv, Open, Roster
<1>4. Counted'
      BY DEF PInv, TypeOK, Stages, Working, Counted, LaunchCancelled, To, files,
             session, world, LaunchDone, CancelRun
<1>5. Deferred'
      BY DEF PInv, TypeOK, Stages, Working, Deferred, LaunchCancelled, To, files,
             session, world, LaunchDone, CancelRun
<1>6. Spaced' /\ Over'
      BY DEF PInv, TypeOK, Stages, Working, Spaced, Over, Parallel, Paced,
             LaunchCancelled, To, files, session, world, LaunchDone, CancelRun
<1>7. Founded'
      BY StillFounded DEF PInv, LaunchCancelled, To, files, session, world, LaunchDone,
                          CancelRun
<1>8. QED  BY <1>1, <1>2, <1>3, <1>4, <1>5, <1>6, <1>7 DEF PInv

\* Every lane is back.
LEMMA Joining ==
    ASSUME PInv, Join, at' = "settle"
    PROVE  PInv'
<1>1. TypeOK'
      BY DEF PInv, TypeOK, Locs, Jobs, Join, To, files, session, world, Joined, End,
             Drop
<1>2. Stages'
      BY DEF PInv, TypeOK, Stages, Working, Prepared, Aside, Parallel, Paced, Join, To,
             files, session, world, Joined, End, Drop
<1>3. Open'
      BY DEF PInv, TypeOK, Stages, Working, Open, Join, To, files, session, world,
             Joined, End, Drop
<1>4. Counted'
      BY DEF PInv, TypeOK, Stages, Working, Counted, Join, To, files, session, world,
             Joined, End, Drop
<1>5. Deferred'
      BY DEF PInv, TypeOK, Stages, Working, Deferred, Join, To, files, session, world,
             Joined, End, Drop
<1>6. Spaced' /\ Over'
      BY DEF PInv, TypeOK, Stages, Working, Spaced, Over, Parallel, Paced, Join, To,
             files, session, world, Joined, End, Drop
<1>7. Founded'
      BY StillFounded DEF PInv, Join, To, files, session, world, Joined, End, Drop
<1>8. QED  BY <1>1, <1>2, <1>3, <1>4, <1>5, <1>6, <1>7 DEF PInv

\* The thread's own call is back.
LEMMA Calling ==
    ASSUME PInv, CallReturned, got[cur] # <<"broken">>
    PROVE  PInv'
<1>1. TypeOK'
      BY DEF PInv, TypeOK, Locs, Jobs, CallReturned, To, files, session, world
<1>2. Stages'
      BY DEF PInv, TypeOK, Stages, Working, Prepared, Aside, Parallel, Paced,
             CallReturned, To, files, session, world
<1>3. Open'
      BY DEF PInv, TypeOK, Stages, Working, Open, CallReturned, To, files, session,
             world
<1>4. Counted'
      BY DEF PInv, TypeOK, Stages, Working, Counted, CallReturned, To, files, session,
             world
<1>5. Deferred'
      BY DEF PInv, TypeOK, Stages, Working, Deferred, CallReturned, To, files, session,
             world
<1>6. Spaced' /\ Over'
      BY DEF PInv, TypeOK, Stages, Working, Spaced, Over, Parallel, Paced,
             CallReturned, To, files, session, world
<1>7. Founded'
      BY StillFounded DEF PInv, CallReturned, To, files, session, world
<1>8. QED  BY <1>1, <1>2, <1>3, <1>4, <1>5, <1>6, <1>7 DEF PInv

\* A lane that is back is looked at.
LEMMA Clearing ==
    ASSUME PInv, NEW l \in Route, Clear(l)
    PROVE  PInv'
<1>0. /\ at = "settle" /\ at' = "cleared" /\ cur' = l /\ job[l] = "returned"
      /\ UNCHANGED <<parallel, status, cancelRequested, files, phase, job, try, world>>
      BY DEF Clear, Settling, To
<1>1. TypeOK'
      BY <1>0 DEF PInv, TypeOK, Locs, files, world
<1>2. Stages' /\ Open'
      BY <1>0 DEF PInv, TypeOK, Stages, Working, Prepared, Aside, Parallel, Open, Roster,
                  files
<1>3. Counted' /\ Deferred' /\ Spaced' /\ Over'
      BY <1>0 DEF PInv, Stages, Aside, Counted, Deferred, Spaced, Over, files, world
<1>4. Founded'
      BY <1>0, StillFounded DEF PInv, files, world
<1>5. QED  BY <1>1, <1>2, <1>3, <1>4 DEF PInv

\* Its answer is taken.
LEMMA Accepting ==
    ASSUME PInv, Accept
    PROVE  PInv'
<1> DEFINE l == cur
<1>0. PICK a \in Answers[phase] : accepted' = [accepted EXCEPT ![phase][l] = a]
      BY Zenon DEF Accept
<1>1. /\ l \in Route /\ at = "cleared" /\ at' = "settle"
      /\ job[l] = "returned" /\ job' = [job EXCEPT ![l] = "settled"] /\ cur' = NoLane
      /\ UNCHANGED <<parallel, status, cancelRequested, dirs, deadline, pacing, skipped,
                     packet, result, phase, try, world>>
      BY DEF Accept, Settle, To, PInv, Stages
<1>2. TypeOK'
  <2>1. /\ DOMAIN accepted' = Phases
        /\ \A ph \in Phases : accepted'[ph] \in [Route -> Given(ph)]
        BY <1>0, <1>1 DEF PInv, TypeOK, Given
  <2>2. job' \in [Route -> Jobs] /\ at' \in Locs
        BY <1>1 DEF PInv, TypeOK, Jobs, Locs
  <2>3. QED  BY <1>1, <2>1, <2>2 DEF PInv, TypeOK, world
<1>3. Stages'
      BY <1>1 DEF PInv, TypeOK, Stages, Working, Prepared, Aside, Parallel
<1>4. Open'
  <2>1. /\ \A k \in Route \ {l} : accepted'[phase][k] = accepted[phase][k]
        /\ \A k \in Route : job'[k] = IF k = l THEN "settled" ELSE job[k]
        BY <1>0, <1>1 DEF PInv, TypeOK
  <2>2. QED  BY <1>1, <2>1 DEF PInv, Open, Roster
<1>5. Counted' /\ Deferred'
      BY <1>1 DEF PInv, TypeOK, Counted, Deferred, world
<1>6. Spaced' /\ Over'
      BY <1>1 DEF PInv, Spaced, Over, world
<1>7. Founded'
  <2>1. l \in Roster(phase) /\ accepted[phase][l] = NoAnswer
        BY <1>1 DEF PInv, Open
  <2>2. UNCHANGED <<packet, skipped, phase, calls>> /\ at' # "packet"
        BY <1>1 DEF world
  <2>3. /\ \A ph \in Phases \ {phase} : accepted'[ph] = accepted[ph]
        /\ \A k \in Route \ {l} : accepted'[phase][k] = accepted[phase][k]
        BY <1>0 DEF PInv, TypeOK
  <2>4. CASE phase = "R1"
    <3>1. packet = {} /\ ~skipped
          BY <2>1, <2>4 DEF PInv, Founded, PhaseComplete, Missing, Roster
    <3>2. accepted'["R2"] = accepted["R2"]
          BY <2>3, <2>4
    <3>3. QED  BY <2>2, <2>4, <3>1, <3>2 DEF PInv, Founded, SecondRoundOver
  <2>5. CASE phase \in {"R2", "R3"}
    <3>1. PhaseComplete("R1")' = PhaseComplete("R1") /\ Disputed' = Disputed
          BY <2>3, <2>5 DEF PhaseComplete, Missing, Disputed, FirstRound, Roster
    <3>2. CASE phase = "R2"
      <4>1. packet # {} /\ ~skipped
            BY <3>2 DEF PInv, Founded
      <4>2. ~SecondRoundOver
            BY <2>1, <3>2, <4>1 DEF SecondRoundOver, PhaseComplete, Missing
      <4>3. QED  BY <2>2, <3>1, <3>2, <4>1, <4>2 DEF PInv, Founded
    <3>3. CASE phase = "R3"
      <4>1. accepted'["R2"] = accepted["R2"]
            BY <2>3, <3>3
      <4>2. SecondRoundOver' = SecondRoundOver
            BY <2>2, <4>1 DEF SecondRoundOver, PhaseComplete, Missing, Roster
      <4>3. QED  BY <2>2, <3>1, <4>1, <4>2 DEF PInv, Founded
    <3>4. QED  BY <2>5, <3>2, <3>3
  <2>6. QED  BY <2>4, <2>5 DEF PInv, TypeOK
<1>8. QED  BY <1>2, <1>3, <1>4, <1>5, <1>6, <1>7 DEF PInv

\* A lane is put off ...
LEMMA Scheduling ==
    ASSUME PInv, ScheduleRetry
    PROVE  PInv'
<1> DEFINE l == cur
<1>0. /\ at = "cleared" /\ at' = "scheduled"
      /\ l \in Route /\ job[l] = "returned" /\ job' = [job EXCEPT ![l] = "retry"]
      /\ try[l] \in Nat /\ try[l] < MaxAttempts /\ phase \in Phases
      /\ deadline' = [deadline EXCEPT ![phase] = [deadline[phase] EXCEPT ![l] = try[l] + 1]]
      /\ cool' = [cool EXCEPT ![phase] = [cool[phase] EXCEPT ![l] = TRUE]]
      /\ UNCHANGED <<parallel, status, cancelRequested, dirs, accepted, pacing, skipped,
                     packet, result, phase, cur, try, recent, calls, unpaced>>
      BY DEF PInv, TypeOK, Stages, ScheduleRetry, RetryAllowed, To
<1>1. TypeOK'
  <2>1. /\ deadline' \in [Phases -> [Route -> Nat]]
        /\ cool' \in [Phases -> [Route -> BOOLEAN]]
    <3>1. [deadline[phase] EXCEPT ![l] = try[l] + 1] \in [Route -> Nat]
          BY <1>0 DEF PInv, TypeOK
    <3>2. [cool[phase] EXCEPT ![l] = TRUE] \in [Route -> BOOLEAN]
          BY <1>0 DEF PInv, TypeOK
    <3>3. QED  BY <1>0, <3>1, <3>2 DEF PInv, TypeOK
  <2>2. job' \in [Route -> Jobs] /\ at' \in Locs
        BY <1>0 DEF PInv, TypeOK, Jobs, Locs
  <2>3. QED  BY <1>0, <2>1, <2>2 DEF PInv, TypeOK
<1>2. Stages'
      BY <1>0 DEF PInv, TypeOK, Stages, Working, Prepared, Aside, Parallel
<1>3. Open' /\ Counted'
      BY <1>0 DEF PInv, TypeOK, Open, Roster, Counted
<1>4. Deferred'
  <2>1. deadline'[phase][l] = try[l] + 1 /\ try[l] + 1 # 0
        BY <1>0 DEF PInv, TypeOK
  <2>2. \A ph \in Phases, k \in Route : ph # phase \/ k # l =>
            deadline'[ph][k] = deadline[ph][k] /\ cool'[ph][k] = cool[ph][k]
        BY <1>0 DEF PInv, TypeOK
  <2>3. \A k \in Route : job'[k] = IF k = l THEN "retry" ELSE job[k]
        BY <1>0 DEF PInv, TypeOK
  <2>4. QED  BY <1>0, <2>1, <2>2, <2>3 DEF PInv, Deferred
<1>5. Spaced' /\ Over'
      BY <1>0 DEF PInv, Spaced, Over
<1>6. Founded'
      BY <1>0, StillFounded DEF PInv
<1>7. QED  BY <1>1, <1>2, <1>3, <1>4, <1>5, <1>6 DEF PInv

\* ... and waits.
LEMMA Scheduled ==
    ASSUME PInv, RetryScheduled
    PROVE  PInv'
<1>1. TypeOK'
      BY DEF PInv, TypeOK, Stages, Working, Locs, RetryScheduled, To, world
<1>2. Stages'
      BY DEF PInv, TypeOK, Stages, Working, Prepared, Aside, Parallel, Paced,
             RetryScheduled, To, files, session, world
<1>3. Open'
      BY DEF PInv, TypeOK, Stages, Working, Open, RetryScheduled, To, files, session,
             world
<1>4. Counted'
      BY DEF PInv, TypeOK, Stages, Working, Counted, RetryScheduled, To, files,
             session, world
<1>5. Deferred'
      BY DEF PInv, TypeOK, Stages, Working, Deferred, RetryScheduled, To, files,
             session, world
<1>6. Spaced' /\ Over'
      BY DEF PInv, TypeOK, Stages, Working, Spaced, Over, Parallel, Paced,
             RetryScheduled, To, files, session, world
<1>7. Founded'
      BY StillFounded DEF PInv, RetryScheduled, To, files, session, world
<1>8. QED  BY <1>1, <1>2, <1>3, <1>4, <1>5, <1>6, <1>7 DEF PInv

\* Every lane of the round is settled.
LEMMA Settled ==
    ASSUME PInv, AllSettled, ~failed
    PROVE  PInv'
<1>1. TypeOK'
      BY DEF PInv, TypeOK, Locs, Jobs, AllSettled, To, files, session, world
<1>2. Stages'
      BY DEF PInv, TypeOK, Stages, Working, Prepared, Aside, Parallel, Paced,
             AllSettled, To, files, session, world
<1>3. Open'
      BY DEF PInv, TypeOK, Stages, Working, Open, AllSettled, To, files, session, world
<1>4. Counted'
      BY DEF PInv, TypeOK, Stages, Working, Counted, AllSettled, To, files, session,
             world
<1>5. Deferred'
      BY DEF PInv, TypeOK, Stages, Working, Deferred, AllSettled, To, files, session,
             world
<1>6. Spaced' /\ Over'
      BY DEF PInv, TypeOK, Stages, Working, Spaced, Over, Parallel, Paced, AllSettled,
             To, files, session, world
<1>7. Founded'
      BY StillFounded DEF PInv, AllSettled, To, files, session, world
<1>8. QED  BY <1>1, <1>2, <1>3, <1>4, <1>5, <1>6, <1>7 DEF PInv

\* A step of the thread, action by action.
LEMMA ThreadStep == PInv /\ Thread => PInv'
<1> SUFFICES ASSUME PInv, Thread PROVE PInv'
    OBVIOUS
<1>1. ASSUME BeginR1 \/ BeginR2 \/ BeginR3 PROVE PInv'
      BY <1>1, Beginning DEF BeginR1, BeginR2, BeginR3
<1>2. ASSUME AdvanceCancelled PROVE PInv'
      BY <1>2, Ending DEF AdvanceCancelled
<1>3. ASSUME DeadlinePassed PROVE PInv'
  <2>1. CASE deadline[phase][cur] # try[cur]
        BY <1>3, <2>1, Bailing DEF DeadlinePassed
  <2>2. CASE deadline[phase][cur] = try[cur]
        BY <1>3, <2>2, Due
  <2>3. QED  BY <2>1, <2>2
<1>4. ASSUME WaitCancelled PROVE PInv'
  <2>1. CASE Parallel(phase) /\ job[cur] # "missing"
    <3>1. at = "due"
          BY <1>4, <2>1 DEF WaitCancelled, Waiting, PInv, Stages, Paced, Parallel
    <3>2. cur \in Route /\ \A k \in Route \ {cur} : Aside(k)
          BY <2>1, <3>1 DEF PInv, Stages, Working
    <3>3. QED  BY <1>4, <2>1, <3>1, <3>2, Collecting DEF WaitCancelled
  <2>2. CASE ~(Parallel(phase) /\ job[cur] # "missing")
        BY <1>4, <2>2, Ending DEF WaitCancelled
  <2>3. QED  BY <2>1, <2>2
<1>5. ASSUME BuildFails PROVE PInv'
      BY <1>5, Bailing DEF BuildFails
<1>6. ASSUME Join PROVE PInv'
  <2>1. CASE stopped \/ \E l \in Route : got[l] = <<"broken">>
        BY <1>6, <2>1, Ending DEF Join
  <2>2. CASE ~(stopped \/ \E l \in Route : got[l] = <<"broken">>)
        BY <1>6, <2>2, Joining DEF Join, To
  <2>3. QED  BY <2>1, <2>2
<1>7. ASSUME CallReturned PROVE PInv'
  <2>1. CASE got[cur] = <<"broken">>
        BY <1>7, <2>1, Bailing DEF CallReturned
  <2>2. CASE got[cur] # <<"broken">>
        BY <1>7, <2>2, Calling
  <2>3. QED  BY <2>1, <2>2
<1>8. ASSUME AllSettled PROVE PInv'
  <2>1. CASE failed
        BY <1>8, <2>1, Ending DEF AllSettled
  <2>2. CASE ~failed
        BY <1>8, <2>2, Settled
  <2>3. QED  BY <2>1, <2>2
<1>9. ASSUME Gate PROVE PInv'
  <2>1. \/ End("Failed") \/ End("Cancelled")
        \/ /\ at = "gate" /\ Drop("advance")
           /\ UNCHANGED <<parallel, status, cancelRequested, files, world>>
        BY <1>9 DEF Gate
  <2>2. CASE Drop("advance") /\ at = "gate"
             /\ UNCHANGED <<parallel, status, cancelRequested, files, world>>
    <3>1. Spaced' /\ Over'
          BY <2>2 DEF PInv, Spaced, Over, Drop, files, world
    <3>2. QED  BY <2>2, <3>1, Dropping DEF PInv, TypeOK, files, world
  <2>3. QED  BY <2>1, <2>2, Ending
<1>10. ASSUME NEW l \in Route, Pick(l) PROVE PInv'
  <2>1. CASE NextAttempt(phase, l) > MaxAttempts
        BY <1>10, <2>1, Ending DEF Pick
  <2>2. CASE ~(NextAttempt(phase, l) > MaxAttempts)
        BY <1>10, <2>2, Choosing
  <2>3. QED  BY <2>1, <2>2
<1>11. ASSUME NEW l \in Route, Abandon(l) PROVE PInv'
  <2>1. CASE Parallel(phase)
    <3>1. \A k \in Route \ {l} : Aside(k)
          BY <1>11 DEF Abandon, Settling, PInv, Stages
    <3>2. QED  BY <1>11, <2>1, <3>1, Collecting DEF Abandon, Settling
  <2>2. CASE ~Parallel(phase)
        BY <1>11, <2>2, Ending DEF Abandon
  <2>3. QED  BY <2>1, <2>2
<1>12. ASSUME GiveUp PROVE PInv'
      BY <1>12, Bailing DEF GiveUp
<1>13. QED
      BY <1>1, <1>2, <1>3, <1>4, <1>5, <1>6, <1>7, <1>8, <1>9, <1>10, <1>11, <1>12,
         Clearing, Advancing, Deciding, PickingNoMore, Undue, PacingOver, Building, Launching,
         LaunchingNoMore, Accepting, Scheduling, Scheduled
         DEF Thread

-----------------------------------------------------------------------------
(* The lanes and the surroundings.                                         *)

\* A lane that is about to call, may not, or is back from its call.
LEMMA LaneMoves ==
    ASSUME PInv, NEW l \in Route, LaneRefused(l) \/ LaneStarts(l) \/ LaneReturns(l)
    PROVE  PInv'
<1>0. PICK j \in {"launching", "returned"} :
          /\ job[l] \in {"started", "launching", "calling"}
          /\ j = "launching" => job[l] = "started"
          /\ job' = [job EXCEPT ![l] = j]
          /\ UNCHANGED <<parallel, status, cancelRequested, files, at, phase, cur, try, world>>
      BY DEF LaneRefused, LaneStarts, LaneReturns
<1>1. TypeOK'
      BY <1>0 DEF PInv, TypeOK, Jobs, files, world
<1>2. Stages'
      BY <1>0 DEF PInv, TypeOK, Stages, Working, Prepared, Aside, Parallel, Paced
<1>3. Open' /\ Counted' /\ Deferred'
      BY <1>0 DEF PInv, TypeOK, Stages, Open, Roster, Counted, Deferred, files, world
<1>4. Spaced' /\ Over'
  <2>1. Over'
        BY <1>0 DEF PInv, Over, files
  <2>2. job'[l] = j
        BY <1>0 DEF PInv, TypeOK
  <2>3. at = "call" => cur = l
        BY <1>0 DEF PInv, Stages, Aside
  <2>4. Spaced'
        BY <1>0, <2>2, <2>3 DEF PInv, Spaced, Paced, files, world
  <2>5. QED  BY <2>1, <2>4
<1>5. Founded'
      BY <1>0, StillFounded DEF PInv, files, world
<1>6. QED  BY <1>1, <1>2, <1>3, <1>4, <1>5 DEF PInv

\* What starting a transport requires of the route and the rounds.
LEMMA StartingNow ==
    ASSUME PInv, NEW l \in Route, LaneCalls(l)
    PROVE  /\ l \in Roster(phase)
           /\ calls[phase][l] < dirs[phase][l]
           /\ ~cool[phase][l]
           /\ Paced(phase) => (recent => unpaced)
           /\ phase = "R2" => packet # {}
           /\ phase = "R3" => PhaseComplete("R1") /\ SecondRoundOver
<1>1. job[l] = "launching"
      BY DEF LaneCalls
<1>2. l \in Roster(phase)
      BY <1>1 DEF PInv, Open
<1>3. calls[phase][l] < dirs[phase][l]
      BY <1>1 DEF PInv, Counted
<1>4. ~cool[phase][l]
      BY <1>1 DEF PInv, TypeOK, Deferred
<1>5. Paced(phase) => (recent => unpaced)
  <2>1. Paced(phase) => at = "call" /\ cur = l
        BY <1>1 DEF PInv, TypeOK, Locs, Stages, Working, Prepared, Aside, Parallel,
                    Paced
  <2>2. QED  BY <1>1, <2>1 DEF PInv, Spaced
<1>6. QED  BY <1>2, <1>3, <1>4, <1>5 DEF PInv, Founded

\* A transport starts.
LEMMA Starting ==
    ASSUME PInv, NEW l \in Route, LaneCalls(l)
    PROVE  PInv'
<1>0. /\ job[l] = "launching"
      /\ job' = [job EXCEPT ![l] = "calling"]
      /\ calls' = [calls EXCEPT ![phase] = [calls[phase] EXCEPT ![l] = calls[phase][l] + 1]]
      /\ recent' = (recent \/ Paced(phase))
      /\ UNCHANGED <<parallel, status, cancelRequested, files, at, phase, cur, try,
                     cool, unpaced>>
      BY DEF LaneCalls, PInv, TypeOK
<1>1. /\ \A ph \in Phases, k \in Route : ph # phase \/ k # l => calls'[ph][k] = calls[ph][k]
      /\ calls'[phase][l] = calls[phase][l] + 1
      /\ calls' \in [Phases -> [Route -> Nat]]
  <2>1. [calls[phase] EXCEPT ![l] = calls[phase][l] + 1] \in [Route -> Nat]
        BY DEF PInv, TypeOK
  <2>2. QED  BY <1>0, <2>1 DEF PInv, TypeOK
<1>2. TypeOK'
      BY <1>0, <1>1 DEF PInv, TypeOK, Jobs, files, Paced
<1>3. Stages'
      BY <1>0 DEF PInv, TypeOK, Stages, Working, Prepared, Aside, Parallel, Paced
<1>4. Open' /\ Deferred'
      BY <1>0 DEF PInv, TypeOK, Open, Roster, Deferred, files
<1>5. Counted'
  <2>1. UNCHANGED <<dirs, at, phase, cur, try>>
        BY <1>0 DEF files
  <2>2. \A ph \in Phases, k \in Route : calls'[ph][k] <= dirs[ph][k]
        BY <1>1, StartingNow DEF PInv, TypeOK, Counted
  <2>3. \A k \in Route : job'[k] = IF k = l THEN "calling" ELSE job[k]
        BY <1>0 DEF PInv, TypeOK
  <2>4. \A k \in Route \ {l} : calls'[phase][k] = calls[phase][k]
        BY <1>1 DEF PInv, TypeOK
  <2>5. QED  BY <1>0, <2>1, <2>2, <2>3, <2>4 DEF PInv, Counted
<1>6. Spaced' /\ Over'
  <2>1. Over'
        BY <1>0 DEF PInv, Over, files
  <2>2. Paced(phase) => at = "call" /\ cur = l
        BY <1>0 DEF PInv, TypeOK, Locs, Stages, Working, Prepared, Aside, Parallel,
                    Paced
  <2>3. at = "call" => cur = l
        BY <1>0 DEF PInv, Stages, Aside
  <2>4. job'[l] = "calling" /\ at \notin {"off", "build"}
        BY <1>0 DEF PInv, TypeOK, Stages, Prepared, Aside, Working
  <2>5. Spaced'
        BY <1>0, <2>2, <2>3, <2>4 DEF PInv, Spaced, Paced, files
  <2>6. QED  BY <2>1, <2>5
<1>7. Founded'
  <2>1. UNCHANGED <<accepted, packet, skipped, phase, at>>
        BY <1>0 DEF files
  <2>2. PhaseComplete("R1")' = PhaseComplete("R1") /\ Disputed' = Disputed
        BY <2>1 DEF PhaseComplete, Missing, Disputed, FirstRound, Roster
  <2>3. SecondRoundOver' = SecondRoundOver
        BY <2>1 DEF SecondRoundOver, PhaseComplete, Missing, Roster
  <2>4. \A k \in Lane : calls'["R2"][k] > 0 => phase = "R2" \/ calls["R2"][k] > 0
        BY <1>1 DEF PInv, TypeOK
  <2>5. calls'["R3"][Counterpart] > 0 => phase = "R3" \/ calls["R3"][Counterpart] > 0
        BY <1>1 DEF PInv, TypeOK
  <2>6. QED  BY <2>1, <2>2, <2>3, <2>4, <2>5 DEF PInv, Founded
<1>8. QED  BY <1>2, <1>3, <1>4, <1>5, <1>6, <1>7 DEF PInv

\* Time passes.
LEMMA ClockStep == PInv /\ Clock => PInv'
<1> SUFFICES ASSUME PInv, Clock PROVE PInv'
    OBVIOUS
<1>1. ASSUME NEW ph \in Phases, NEW l \in Route, RetryComesDue(ph, l) PROVE PInv'
  <2>1. /\ cool' = [cool EXCEPT ![ph] = [cool[ph] EXCEPT ![l] = FALSE]]
        /\ UNCHANGED <<parallel, status, cancelRequested, files, session, recent, calls,
                       unpaced>>
        BY <1>1 DEF RetryComesDue, PInv, TypeOK
  <2>2. cool' \in [Phases -> [Route -> BOOLEAN]]
    <3>1. [cool[ph] EXCEPT ![l] = FALSE] \in [Route -> BOOLEAN]
          BY DEF PInv, TypeOK
    <3>2. QED  BY <2>1, <3>1 DEF PInv, TypeOK
  <2>3. \A r \in Phases, k \in Route : cool'[r][k] => cool[r][k]
        BY <2>1 DEF PInv, TypeOK
  <2>4. TypeOK'
        BY <2>1, <2>2 DEF PInv, TypeOK, files, session
  <2>5. Stages' /\ Open' /\ Counted' /\ Over'
        BY <2>1 DEF PInv, Stages, Working, Prepared, Aside, Parallel, Paced, Open,
                    Roster,
                    Counted, Over, files, session
  <2>6. Deferred' /\ Spaced'
        BY <2>1, <2>3 DEF PInv, Deferred, Spaced, Paced, files, session
  <2>7. Founded'
        BY <2>1, StillFounded DEF PInv, files, session
  <2>8. QED  BY <2>4, <2>5, <2>6, <2>7 DEF PInv
<1>2. ASSUME IntervalPasses \/ PacingComesDue PROVE PInv'
  <2>1. /\ UNCHANGED <<parallel, status, cancelRequested, dirs, accepted, deadline, skipped,
                       packet, result, session, cool, calls>>
        /\ \/ UNCHANGED pacing
           \/ pacing \in {"interval", "backoff"} /\ pacing' = "over"
        /\ recent' = FALSE
        /\ unpaced' \in BOOLEAN
        BY <1>2 DEF IntervalPasses, PacingComesDue, files, world, PInv, TypeOK
  <2>2. TypeOK'
        BY <2>1 DEF PInv, TypeOK, session
  <2>3. Stages' /\ Open' /\ Counted' /\ Deferred' /\ Over'
        BY <2>1 DEF PInv, Stages, Working, Prepared, Aside, Parallel, Paced, Open,
                    Roster,
                    Counted, Deferred, Over, session
  <2>4. Spaced'
        BY <2>1 DEF PInv, Spaced, Paced, session
  <2>5. Founded'
        BY <2>1, StillFounded DEF PInv, session
  <2>6. QED  BY <2>2, <2>3, <2>4, <2>5 DEF PInv
<1>3. QED  BY <1>1, <1>2 DEF Clock

\* A cancellation is requested, or ends the run; a session is killed.
LEMMA WorldStep == PInv /\ (RequestCancel \/ CancelEnds \/ Kill \/ UNCHANGED vars) => PInv'
<1> SUFFICES ASSUME PInv, RequestCancel \/ CancelEnds \/ Kill \/ UNCHANGED vars PROVE PInv'
    OBVIOUS
<1>1. ASSUME RequestCancel \/ CancelEnds \/ UNCHANGED vars PROVE PInv'
  <2>1. /\ UNCHANGED <<parallel, files, session, world>>
        /\ cancelRequested' \in BOOLEAN
        /\ status # "active" => status' # "active"
        BY <1>1 DEF RequestCancel, CancelEnds, vars, PInv, TypeOK
  <2>2. TypeOK'
        BY <2>1 DEF PInv, TypeOK, files, session, world
  <2>3. Stages' /\ Open' /\ Counted' /\ Deferred' /\ Over' /\ Spaced'
        BY <2>1 DEF PInv, Stages, Working, Prepared, Aside, Parallel, Paced, Open,
                    Roster,
                    Counted, Deferred, Over, Spaced, files, session, world
  <2>4. Founded'
        BY <2>1, StillFounded DEF PInv, files, session, world
  <2>5. QED  BY <2>2, <2>3, <2>4 DEF PInv
<1>2. ASSUME Kill PROVE PInv'
  <2>1. /\ Drop("off") /\ at # "off"
        /\ unpaced' = (recent /\ pacing = "none")
        /\ UNCHANGED <<parallel, status, cancelRequested, files, cool, recent, calls>>
        BY <1>2 DEF Kill
  <2>2. Spaced' /\ Over'
        BY <2>1 DEF PInv, TypeOK, Spaced, Over, Drop, files
  <2>3. unpaced' \in BOOLEAN
        BY <2>1 DEF PInv, TypeOK
  <2>4. QED  BY <2>1, <2>2, <2>3, Dropping DEF files, PInv, TypeOK
<1>3. QED  BY <1>1, <1>2

LEMMA Inductive == PInv /\ [Next]_vars => PInv'
<1> SUFFICES ASSUME PInv, [Next]_vars PROVE PInv'
    OBVIOUS
<1>1. ASSUME NEW l \in Route, LaneThread(l) PROVE PInv'
      BY <1>1, LaneMoves, Starting DEF LaneThread
<1>2. QED  BY <1>1, Resuming, ThreadStep, ClockStep, WorldStep DEF Next, Progress

\* The invariant everything else follows from.
LEMMA Invariant == Spec => []PInv
BY InitInv, Inductive, PTL DEF Spec

-----------------------------------------------------------------------------
(* The budget and the gate.                                                *)

\* A route is called at most max_attempts times in a round, however often its
\* session is killed: the attempts are counted by their directories (next_attempt,
\* run.rs:2458-2502).
THEOREM BudgetKept == Spec => []BudgetHolds
<1>1. PInv => BudgetHolds
  <2> SUFFICES ASSUME PInv, NEW ph \in Phases, NEW l \in Route
               PROVE  calls[ph][l] <= MaxAttempts
      BY DEF BudgetHolds
  <2>1. calls[ph][l] \in Nat /\ dirs[ph][l] \in Nat
        BY DEF PInv, TypeOK
  <2>2. calls[ph][l] <= dirs[ph][l] /\ dirs[ph][l] <= MaxAttempts
        BY DEF PInv, Counted
  <2>3. QED  BY <2>1, <2>2
<1>2. QED  BY <1>1, Invariant, PTL

\* A round is called only on all the answers of the one before it.
THEOREM GateKept == Spec => []GateHolds
<1>1. PInv => GateHolds
  <2> SUFFICES ASSUME PInv PROVE GateHolds
      OBVIOUS
  <2>1. ASSUME NEW l \in Lane, calls["R2"][l] > 0
        PROVE  PhaseComplete("R1") /\ Disputed # {} /\ packet = Disputed
        BY <2>1 DEF PInv, Founded
  <2>2. ASSUME calls["R3"][Counterpart] > 0
        PROVE  /\ PhaseComplete("R1")
               /\ IF Disputed = {} THEN skipped ELSE PhaseComplete("R2")
        BY <2>2 DEF PInv, Founded, SecondRoundOver
  <2>3. QED  BY <2>1, <2>2 DEF GateHolds
<1>2. QED  BY <1>1, Invariant, PTL

-----------------------------------------------------------------------------
(* The starts of transports.                                               *)

\* Only a lane that starts its transport adds to the calls.
LEMMA OnlyLanesCall ==
    ASSUME [Next]_vars
    PROVE  UNCHANGED calls \/ \E l \in Route : LaneCalls(l)
<1>1. ASSUME Resume \/ Clock \/ RequestCancel \/ CancelEnds \/ Kill \/ UNCHANGED vars
      PROVE  UNCHANGED calls
      BY <1>1 DEF Resume, Clock, RetryComesDue, IntervalPasses, PacingComesDue,
                  RequestCancel, CancelEnds, Kill, vars, world
<1>2. ASSUME NEW l \in Route, LaneRefused(l) \/ LaneStarts(l) \/ LaneReturns(l)
      PROVE  UNCHANGED calls
      BY <1>2 DEF LaneRefused, LaneStarts, LaneReturns, world
<1>3. ASSUME Thread
      PROVE  UNCHANGED calls
  <2>1. ASSUME BeginR1 \/ BeginR2 \/ BeginR3 \/ SkipR2 \/ R2Packet \/ WritePacket \/ Decide
                   \/ AdvanceCancelled \/ PickNoMore \/ NoDeadline \/ PacingPassed
                   \/ Build \/ LaunchCancelled \/ LaunchDone \/ RetryScheduled
        PROVE  UNCHANGED calls
        BY <2>1 DEF BeginR1, BeginR2, BeginR3, Begin, SkipR2, R2Packet, WritePacket,
                    Decide, AdvanceCancelled, PickNoMore, NoDeadline, PacingPassed, Build,
                    LaunchCancelled, LaunchDone, RetryScheduled, End, world
  <2>2. ASSUME DeadlinePassed \/ WaitCancelled \/ BuildFails \/ Join \/ CallReturned
                   \/ AllSettled \/ Accept \/ ScheduleRetry \/ GiveUp
        PROVE  UNCHANGED calls
        BY <2>2 DEF DeadlinePassed, WaitCancelled, BuildFails, Join, CallReturned,
                    AllSettled, Accept, ScheduleRetry, GiveUp, Bail, Collect, End, world
  <2>3. ASSUME NEW l \in Route, Pick(l) \/ Launch(l) \/ Abandon(l) \/ Clear(l)
        PROVE  UNCHANGED calls
        BY <2>3 DEF Pick, Launch, Abandon, Clear, Collect, End, world
  <2>4. ASSUME Gate
        PROVE  UNCHANGED calls
        BY <2>4 DEF Gate, End, world
  <2>5. QED  BY <1>3, <2>1, <2>2, <2>3, <2>4 DEF Thread
<1>4. QED  BY <1>1, <1>2, <1>3 DEF Next, Progress, LaneThread

\* No route is called before the due time of its retry, in whatever session
\* (retry-deadline.json; wait_for_retry_deadline, run.rs:483-531).
THEOREM CooldownIsKept == Spec => CooldownKept
<1>1. PInv /\ [Next]_vars
      => [\A ph \in Phases, l \in Route : calls'[ph][l] # calls[ph][l] => ~cool[ph][l]]_vars
  <2> SUFFICES ASSUME PInv, [Next]_vars, NEW ph \in Phases, NEW l \in Route,
                      calls'[ph][l] # calls[ph][l]
               PROVE  ~cool[ph][l]
      OBVIOUS
  <2>1. PICK k \in Route : LaneCalls(k)
        BY OnlyLanesCall
  <2>2. ph = phase /\ l = k
        BY <2>1 DEF LaneCalls, PInv, TypeOK
  <2>3. QED  BY <2>1, <2>2, StartingNow
<1>2. QED  BY <1>1, Invariant, PTL DEF Spec, CooldownKept

\* In a serial second round two transports keep the interval, unless a session
\* was killed between a start and its pacing (wait_for_r2_pacing, run.rs:599-645).
THEOREM PacingIsKept == Spec => PacedUnlessKilled
<1>1. PInv /\ [Next]_vars
      => [calls'["R2"] # calls["R2"] /\ ~parallel => ~recent \/ unpaced]_vars
  <2> SUFFICES ASSUME PInv, [Next]_vars, calls'["R2"] # calls["R2"], ~parallel
               PROVE  ~recent \/ unpaced
      OBVIOUS
  <2>1. PICK k \in Route : LaneCalls(k)
        BY OnlyLanesCall
  <2>2. phase = "R2"
        BY <2>1 DEF LaneCalls, PInv, TypeOK
  <2>3. QED  BY <2>1, <2>2, StartingNow DEF Paced
<1>2. QED  BY <1>1, Invariant, PTL DEF Spec, PacedUnlessKilled

-----------------------------------------------------------------------------
(* Launched lanes are joined first.                                        *)

NoneOut == \A l \in Route : job[l] \notin {"started", "launching", "calling"}

\* Lanes are out only while they are launched or joined, or the thread calls
\* itself.
LEMMA OutWhere ==
    ASSUME PInv, at \notin {"launch", "join", "call"}
    PROVE  NoneOut
BY DEF PInv, TypeOK, Locs, Stages, Working, Prepared, Aside, NoneOut

\* No answer is taken, and no run given up without a cancellation, while a lane
\* is out (the joins before the acceptance, run.rs:2642-2659).
THEOREM LanesAreJoined == Spec => LanesJoined
<1>1. PInv /\ [Next]_vars
      => [accepted' # accepted \/ (status' # status /\ ~cancelRequested)
          => \A l \in Route : job[l] \notin {"started", "launching", "calling"}]_vars
  <2> SUFFICES ASSUME PInv, [Next]_vars,
                      accepted' # accepted \/ (status' # status /\ ~cancelRequested)
               PROVE  NoneOut
      BY DEF NoneOut
  <2>1. ASSUME Resume \/ RequestCancel \/ CancelEnds \/ Kill \/ Clock PROVE NoneOut
        BY <2>1 DEF Resume, RequestCancel, CancelEnds, Kill, Clock, RetryComesDue,
                    IntervalPasses, PacingComesDue, files
  <2>2. ASSUME NEW l \in Route, LaneThread(l) PROVE NoneOut
        BY <2>2 DEF LaneThread, LaneRefused, LaneStarts, LaneCalls, LaneReturns, files
  <2>3. ASSUME Thread PROVE NoneOut
    <3>1. CASE at \notin {"launch", "join", "call"}
          BY <3>1, OutWhere
    <3>2. CASE at \in {"launch", "join", "call"}
      <4>1. LaunchCancelled \/ LaunchDone \/ Join \/ CallReturned
                \/ \E l \in Route : Launch(l)
        <5>1. ~(BeginR1 \/ SkipR2 \/ R2Packet \/ WritePacket \/ BeginR2 \/ BeginR3 \/ Decide
                \/ AdvanceCancelled \/ PickNoMore \/ NoDeadline \/ DeadlinePassed)
              BY <3>2 DEF BeginR1, BeginR2, BeginR3, Begin, SkipR2, R2Packet, WritePacket,
                          Decide, AdvanceCancelled, PickNoMore, NoDeadline, DeadlinePassed
        <5>2. ~(WaitCancelled \/ PacingPassed \/ Build \/ BuildFails \/ Accept
                \/ ScheduleRetry \/ RetryScheduled \/ GiveUp \/ AllSettled \/ Gate)
              BY <3>2 DEF WaitCancelled, Waiting, PacingPassed, Build, BuildFails, Accept,
                          ScheduleRetry, RetryScheduled, GiveUp, AllSettled, Gate
        <5>3. \A l \in Route : ~(Pick(l) \/ Abandon(l) \/ Clear(l))
              BY <3>2 DEF Pick, Abandon, Clear, Settling
        <5>4. QED  BY <2>3, <5>1, <5>2, <5>3 DEF Thread
      <4>2. CASE LaunchCancelled \/ LaunchDone \/ \E l \in Route : Launch(l)
            BY <4>2 DEF LaunchCancelled, LaunchDone, Launch, files
      <4>3. CASE Join
            BY <4>3 DEF Join, Joined, NoneOut
      <4>4. CASE CallReturned
            BY <4>4 DEF CallReturned, PInv, Stages, Aside, NoneOut
      <4>5. QED  BY <4>1, <4>2, <4>3, <4>4
    <3>3. QED  BY <3>1, <3>2
  <2>4. ASSUME UNCHANGED vars PROVE NoneOut
        BY <2>4 DEF vars, files
  <2>5. QED  BY <2>1, <2>2, <2>3, <2>4 DEF Next, Progress
<1>2. QED  BY <1>1, Invariant, PTL DEF Spec, LanesJoined

-----------------------------------------------------------------------------
(* Risks survive the merge.                                                *)

Conforms(a) == \A id \in DOMAIN a.residuals : a.residuals[id] \in Residual

\* The variants of a residual two arbiters report.
Said(p, c, id) == {a.residuals[id] : a \in {b \in {p, c} : id \in DOMAIN b.residuals}}

\* A high-risk residual of any answer is in the merged verdict, and closed there
\* only as the arbiters who report it agree (merge_verdicts, run.rs:4378-4471).
LEMMA MergeKeeps ==
    ASSUME NEW p, NEW c, NEW outs, Conforms(p), Conforms(c), \A a \in outs : Conforms(a),
           NEW id \in HighRiskIds(outs),
           NEW m, m = Merge(p, c, outs)
    PROVE  /\ id \in DOMAIN m.residuals
           /\ m.residuals[id].closed
                  => Said(p, c, id) # {} /\ \A r \in Said(p, c, id) : r.closed
<1> DEFINE P == p.residuals
           C == c.residuals
           kept == Omitted(P, C, outs)
           all == [i \in DOMAIN P \cup DOMAIN C \cup kept |->
                      IF i \in kept
                      THEN Conservative(CHOOSE r \in HighRisk(outs, i) : TRUE)
                      ELSE Judged(P, C, i)]
<1>1. m.residuals = all
      BY DEF Merge
<1>2. id \in DOMAIN P \cup DOMAIN C \cup kept
      BY DEF Omitted
<1>3. \A r \in Residual : Conservative(r).closed = FALSE
      BY DEF Residual, Conservative
<1>4. CASE id \in kept
  <2>1. (CHOOSE r \in HighRisk(outs, id) : TRUE) \in Residual
        BY DEF HighRiskIds, HighRisk, Conforms
  <2>2. all[id] = Conservative(CHOOSE r \in HighRisk(outs, id) : TRUE)
        BY <1>2, <1>4
  <2>3. QED  BY <1>1, <1>2, <1>3, <2>1, <2>2
<1>5. CASE id \notin kept
  <2>1. all[id] = Judged(P, C, id) /\ id \in DOMAIN P \cup DOMAIN C
        BY <1>2, <1>5
  <2>2. CASE id \notin DOMAIN C
    <3>1. Said(p, c, id) = {P[id]} /\ Judged(P, C, id) = P[id]
          BY <2>1, <2>2 DEF Said, Judged
    <3>2. QED  BY <1>1, <1>2, <2>1, <3>1
  <2>3. CASE id \in DOMAIN C /\ id \notin DOMAIN P
    <3>1. Said(p, c, id) = {C[id]} /\ Judged(P, C, id) = C[id]
          BY <2>3 DEF Said, Judged
    <3>2. QED  BY <1>1, <1>2, <2>1, <3>1
  <2>4. CASE id \in DOMAIN C /\ id \in DOMAIN P
    <3>1. Said(p, c, id) = {P[id], C[id]}
          BY <2>4 DEF Said
    <3>2. CASE P[id] = C[id]
          BY <1>1, <1>2, <2>1, <2>4, <3>1, <3>2 DEF Judged
    <3>3. CASE P[id] # C[id]
      <4>1. Judged(P, C, id) = Conservative(P[id]) /\ P[id] \in Residual
            BY <2>4, <3>3 DEF Judged, Conforms
      <4>2. QED  BY <1>1, <1>2, <1>3, <2>1, <4>1
    <3>4. QED  BY <3>2, <3>3
  <2>5. QED  BY <2>2, <2>3, <2>4
<1>6. QED  BY <1>4, <1>5

\* The result is written in one step, and nothing is answered after it.
LEMMA ResultStays ==
    ASSUME PInv, [Next]_vars, ~Decide
    PROVE  /\ UNCHANGED result
           /\ result # NoAnswer => UNCHANGED accepted
<1>1. ASSUME Resume \/ Clock \/ RequestCancel \/ CancelEnds \/ Kill \/ UNCHANGED vars
      PROVE  UNCHANGED <<accepted, result>>
      BY <1>1 DEF Resume, Clock, RetryComesDue, IntervalPasses, PacingComesDue,
                  RequestCancel, CancelEnds, Kill, vars, files
<1>2. ASSUME NEW l \in Route, LaneThread(l)
      PROVE  UNCHANGED <<accepted, result>>
      BY <1>2 DEF LaneThread, LaneRefused, LaneStarts, LaneCalls, LaneReturns, files
<1>3. ASSUME Thread
      PROVE  UNCHANGED result /\ at # "off"
  <2>1. ASSUME BeginR1 \/ BeginR2 \/ BeginR3 \/ SkipR2 \/ R2Packet \/ WritePacket
                   \/ AdvanceCancelled \/ PickNoMore \/ NoDeadline \/ PacingPassed
                   \/ Build \/ LaunchCancelled \/ LaunchDone \/ RetryScheduled
        PROVE  UNCHANGED result /\ at # "off"
        BY <2>1 DEF BeginR1, BeginR2, BeginR3, Begin, SkipR2, R2Packet, WritePacket,
                    AdvanceCancelled, PickNoMore, NoDeadline, PacingPassed, Build,
                    LaunchCancelled, LaunchDone, RetryScheduled, End, files
  <2>2. ASSUME DeadlinePassed \/ WaitCancelled \/ BuildFails \/ Join \/ CallReturned
                   \/ AllSettled \/ Accept \/ ScheduleRetry \/ GiveUp
        PROVE  UNCHANGED result /\ at # "off"
        BY <2>2 DEF DeadlinePassed, WaitCancelled, Waiting, BuildFails, Join,
                    CallReturned, AllSettled, Accept, ScheduleRetry, GiveUp, Bail, Collect,
                    End, files
  <2>3. ASSUME NEW l \in Route, Pick(l) \/ Launch(l) \/ Abandon(l) \/ Clear(l)
        PROVE  UNCHANGED result /\ at # "off"
        BY <2>3 DEF Pick, Launch, Abandon, Clear, Settling, Collect, End, files
  <2>4. ASSUME Gate
        PROVE  UNCHANGED result /\ at # "off"
        BY <2>4 DEF Gate, End, files
  <2>5. QED  BY <1>3, <2>1, <2>2, <2>3, <2>4 DEF Thread
<1>4. QED  BY <1>1, <1>2, <1>3 DEF Next, Progress, PInv, Over

\* The promise, of a result and the answers it was merged from.
Survives(res, acc) ==
    res # NoAnswer
    => \A ph \in {"R1", "R2"}, l \in Lane :
           acc[ph][l] # NoAnswer
           => \A id \in HighRiskIds({acc[ph][l]}) :
                  /\ id \in DOMAIN res.merged.residuals
                  /\ res.merged.residuals[id].closed
                         => /\ Said(res.primary, acc["R3"][Counterpart], id) # {}
                            /\ \A r \in Said(res.primary, acc["R3"][Counterpart], id) : r.closed

\* No high-risk residual of a lane disappears because both arbiters omit it, or
\* is closed against one of them.
THEOREM RisksAreKept == Spec => []RisksSurvive
<1>1. Init => RisksSurvive
      BY DEF Init, RisksSurvive
<1>2. (RisksSurvive <=> Survives(result, accepted))
      /\ (RisksSurvive' <=> Survives(result', accepted'))
      BY DEF RisksSurvive, Survives, Said
<1>3. PInv /\ RisksSurvive /\ [Next]_vars => RisksSurvive'
  <2> SUFFICES ASSUME PInv, RisksSurvive, [Next]_vars PROVE RisksSurvive'
      OBVIOUS
  <2>1. CASE Decide
    <3>1. PICK primary \in Answers["R3"] :
              result' = [merged |-> Merge(primary, accepted["R3"][Counterpart], Earlier),
                         primary |-> primary]
          BY <2>1 DEF Decide
    <3>2. /\ PhaseComplete("R1") /\ SecondRoundOver /\ PhaseComplete("R3")
          /\ accepted' = accepted
          BY <2>1 DEF Decide
    <3>3. /\ accepted["R3"][Counterpart] \in Answers["R3"]
          /\ \A l \in Lane : accepted["R1"][l] \in Answers["R1"]
          /\ \A l \in Lane : ~skipped => accepted["R2"][l] \in Answers["R2"]
          BY <3>2 DEF PhaseComplete, SecondRoundOver, Missing, Roster, PInv, TypeOK,
                      Given
    <3>4. /\ Conforms(primary) /\ Conforms(accepted["R3"][Counterpart])
          /\ \A a \in Earlier : Conforms(a)
          BY <3>3, AnswersAssumption DEF Earlier, Conforms
    <3>5. ASSUME NEW ph \in {"R1", "R2"}, NEW l \in Lane, accepted[ph][l] # NoAnswer
          PROVE  accepted[ph][l] \in Earlier
      <4>1. ph = "R2" => ~skipped
            BY <3>5 DEF PInv, Founded
      <4>2. QED  BY <4>1 DEF Earlier
    <3>6. ASSUME NEW ph \in {"R1", "R2"}, NEW l \in Lane, accepted[ph][l] # NoAnswer,
                 NEW id \in HighRiskIds({accepted[ph][l]})
          PROVE  id \in HighRiskIds(Earlier)
          BY <3>5, <3>6 DEF HighRiskIds, HighRisk
    <3>7. ASSUME NEW ph \in {"R1", "R2"}, NEW l \in Lane, accepted[ph][l] # NoAnswer,
                 NEW id \in HighRiskIds({accepted[ph][l]})
          PROVE  LET m == Merge(primary, accepted["R3"][Counterpart], Earlier)
                     s == Said(primary, accepted["R3"][Counterpart], id)
                 IN  /\ id \in DOMAIN m.residuals
                     /\ m.residuals[id].closed => s # {} /\ \A r \in s : r.closed
          BY <3>4, <3>6, <3>7, MergeKeeps
    <3>8. /\ result'.merged = Merge(primary, accepted["R3"][Counterpart], Earlier)
          /\ result'.primary = primary
          BY <3>1
    <3>9. Survives(result', accepted)
          BY <3>7, <3>8 DEF Survives
    <3>10. QED  BY <3>2, <3>9, <1>2
  <2>2. CASE ~Decide
    <3>1. result' = result /\ (result # NoAnswer => accepted' = accepted)
          BY <2>2, ResultStays
    <3>2. CASE result = NoAnswer
          BY <3>1, <3>2 DEF RisksSurvive
    <3>3. CASE result # NoAnswer
      <4>1. Survives(result', accepted')
            BY <1>2, <3>1, <3>3
      <4>2. QED  BY <1>2, <4>1
    <3>4. QED  BY <3>2, <3>3
  <2>3. QED  BY <2>1, <2>2
<1>4. QED  BY <1>1, <1>3, Invariant, PTL DEF Spec

-----------------------------------------------------------------------------
(* What the parsers promise of every output, however long.                 *)

Below == {ss \in Nat \X Nat : ss[1] < ss[2]}

\* The least-number principle, for a set.
LEMMA HasLeast ==
    ASSUME NEW S \in SUBSET Nat, S # {}
    PROVE  \E x \in S : \A y \in S : x <= y
<1>1. IsWellFoundedOn(Below, Nat)
      BY NatLessThanWellFounded DEF OpToRel, Below
<1>2. PICK x \in S : \A y \in S : ~(<<y, x>> \in Below)
      BY <1>1, WFMin
<1>3. ASSUME NEW y \in S PROVE x <= y
  <2>1. x \in Nat /\ y \in Nat /\ <<y, x>> \in Nat \X Nat
        OBVIOUS
  <2>2. ~(y < x)
        BY <1>2, <2>1 DEF Below
  <2>3. QED  BY <2>1, <2>2
<1>4. QED  BY <1>3

\* Of the places found in a text one is the last.
LEMMA HasLast ==
    ASSUME NEW n \in Nat, NEW places \in SUBSET (1..n), places # {}
    PROVE  LastOf(places) # {}
<1> DEFINE S == {b \in Nat : \A i \in places : i <= b}
<1>1. PICK b \in S : \A c \in S : b <= c
  <2>1. n \in S
        OBVIOUS
  <2>2. S \in SUBSET Nat /\ S # {}
        BY <2>1
  <2>3. QED  BY <2>2, HasLeast
<1>2. b \in places
  <2>1. SUFFICES ASSUME b \notin places PROVE FALSE
        OBVIOUS
  <2>2. \A i \in places : i \in Nat /\ 1 <= i /\ i <= b - 1
        BY <2>1
  <2>3. b - 1 \in S
    <3>1. PICK i \in places : TRUE
          OBVIOUS
    <3>2. b - 1 \in Nat
          BY <2>2, <3>1
    <3>3. QED  BY <2>2, <3>2
  <2>4. QED  BY <1>1, <2>3
<1>3. QED  BY <1>2 DEF LastOf

\* What is cut off ends an output.
LEMMA TextIs ==
    ASSUME NEW n \in Int, NEW t \in Text(n)
    PROVE  /\ t \in Seq(Piece) /\ Len(t) \in Nat
           /\ \A i \in 1..Len(t) : t[i].is \in Unclosed => i = Len(t)
<1>1. t \in UNION {[1..m -> Piece] : m \in 0..n}
      BY DEF Text, BoundedSeq, SeqOf
<1>2. PICK m \in 0..n : t \in [1..m -> Piece]
      BY <1>1
<1>3. m \in Nat /\ t \in Seq(Piece)
      BY <1>2
<1>4. QED  BY <1>3 DEF Text

\* Where the parts of a concatenation are.
Joins(e, t, c) ==
    /\ c \in Seq(Piece)
    /\ Len(e) \in Nat /\ Len(t) \in Nat
    /\ Len(c) = Len(e) + Len(t)
    /\ \A i \in 1..Len(e) : i \in 1..Len(c) /\ c[i] = e[i]
    /\ \A i \in 1..Len(t) : Len(e) + i \in 1..Len(c) /\ c[Len(e) + i] = t[i]
    /\ \A i \in 1..Len(c) : i \in 1..Len(e) \/ \E k \in 1..Len(t) : i = Len(e) + k

LEMMA Appended ==
    ASSUME NEW e \in Seq(Piece), NEW t \in Seq(Piece)
    PROVE  Joins(e, t, e \o t)
<1> DEFINE c == e \o t
<1>1. Len(e) \in Nat /\ Len(t) \in Nat
      OBVIOUS
<1>2. c \in Seq(Piece) /\ Len(c) = Len(e) + Len(t)
      OBVIOUS
<1>3. ASSUME NEW i \in 1..Len(e) PROVE i \in 1..Len(c) /\ c[i] = e[i]
      BY <1>1, <1>2
<1>4. ASSUME NEW i \in 1..Len(t) PROVE Len(e) + i \in 1..Len(c) /\ c[Len(e) + i] = t[i]
      BY <1>1, <1>2
<1>5. ASSUME NEW i \in 1..Len(c), i \notin 1..Len(e)
      PROVE  \E k \in 1..Len(t) : i = Len(e) + k
  <2>1. \A m, n \in Nat : \A j \in 1..(m + n) :
            j \notin 1..m => j - m \in 1..n /\ j = m + (j - m)
        OBVIOUS
  <2>2. i - Len(e) \in 1..Len(t) /\ i = Len(e) + (i - Len(e))
        BY <1>1, <1>2, <1>5, <2>1
  <2>3. QED  BY <2>2
<1>6. QED  BY <1>1, <1>2, <1>3, <1>4, <1>5 DEF Joins

\* An output is cut off at its end, if at all.
LEMMA OutputIs ==
    ASSUME NEW s \in Outputs
    PROVE  /\ s.earlier \in Seq(Piece) /\ s.text \in Seq(Piece)
           /\ \A i \in 1..Len(s.earlier) : s.earlier[i].is \notin Unclosed
           /\ \A i \in 1..Len(s.text) : s.text[i].is \in Unclosed => i = Len(s.text)
<1>1. CASE s.earlier = <<>> /\ s.text \in Text(MaxPieces)
      BY <1>1, TextIs, CarrierAssumption
<1>2. CASE /\ s.earlier \in Text(MaxPieces - 1) /\ Places(s.earlier, Unclosed) = {}
           /\ s.text \in Text(MaxPieces - 1)
      BY <1>2, TextIs, CarrierAssumption DEF Places
<1>3. QED  BY <1>1, <1>2 DEF Outputs

\* ... and so is what it contains.
LEMMA ContentIs ==
    ASSUME NEW s \in Outputs
    PROVE  /\ Joins(s.earlier, s.text, Content(s))
           /\ \A i \in 1..Len(Content(s)) :
                  Content(s)[i].is \in Unclosed => i = Len(Content(s))
<1> DEFINE e == s.earlier
           t == s.text
           c == Content(s)
<1>1. /\ e \in Seq(Piece) /\ t \in Seq(Piece)
      /\ \A i \in 1..Len(e) : e[i].is \notin Unclosed
      /\ \A i \in 1..Len(t) : t[i].is \in Unclosed => i = Len(t)
      BY OutputIs
<1>2. Joins(e, t, c)
      BY <1>1, Appended DEF Content
<1>3. ASSUME NEW i \in 1..Len(c), c[i].is \in Unclosed
      PROVE  i = Len(c)
  <2>1. PICK k \in 1..Len(t) : i = Len(e) + k
        BY <1>1, <1>2, <1>3 DEF Joins
  <2>2. c[i] = t[k]
        BY <1>2, <2>1 DEF Joins
  <2>3. k = Len(t)
        BY <1>1, <1>3, <2>2
  <2>4. QED  BY <1>2, <2>1, <2>3 DEF Joins
<1>4. QED  BY <1>2, <1>3

\* Of a stream no older draft is accepted when an object follows that its parser
\* recognises, finished or not (extract_json_from_events,
\* parse_last_complete_candidate).
THEOREM DraftsDoNotDecide == LastCandidateDecides
<1> SUFFICES ASSUME NEW s \in Outputs, s.carrier \in {"codewhale", "events"},
                    NEW i \in Accepted(s),
                    NEW j \in Places(Content(s), Recognised(s))
             PROVE  j <= i
    BY DEF LastCandidateDecides
<1> DEFINE e == s.earlier
           t == s.text
           c == Content(s)
<1>1. CASE s.carrier = "codewhale"
  <2>1. i \in FromCodeWhale(c)
        BY <1>1 DEF Accepted
  <2>2. j \in Places(c, Keyed) \/ j \in Places(c, {"prefix"})
        BY <1>1 DEF Places, Recognised
  <2>3. QED  BY <2>1, <2>2 DEF FromCodeWhale, LastOf
<1>2. CASE s.carrier = "events"
  <2>1. i \in FromEvents(s)
        BY <1>2 DEF Accepted
  <2>2. Joins(e, t, c) /\ j \in 1..Len(c) /\ c[j].is \in LaneShaped \cup {"prefix"}
        BY <1>2, ContentIs DEF Places, Recognised
  <2>3. /\ Len(e) \in Nat /\ Len(t) \in Nat
        /\ \A k \in 1..Len(e) : c[k] = e[k]
        /\ \A k \in 1..Len(t) : c[Len(e) + k] = t[k]
        /\ j \in 1..Len(e) \/ \E k \in 1..Len(t) : j = Len(e) + k
        BY <2>2 DEF Joins
  <2>4. ASSUME NEW u \in {e, t}, NEW k \in Places(u, LaneShaped \cup {"prefix"})
        PROVE  /\ Candidate(u) # {}
               /\ \A m \in Candidate(u) : m \in 1..Len(u) /\ k <= m
    <3>1. Candidate(u) = LastOf(Places(u, LaneShaped \cup {"prefix"}))
          BY DEF Candidate
    <3>2. Places(u, LaneShaped \cup {"prefix"}) \in SUBSET (1..Len(u))
          BY DEF Places
    <3>3. QED  BY <2>3, <3>1, <3>2, HasLast DEF LastOf
  <2>5. CASE \E k \in 1..Len(t) : j = Len(e) + k
    <3>1. PICK k \in 1..Len(t) : j = Len(e) + k
          BY <2>5
    <3>2. k \in Places(t, LaneShaped \cup {"prefix"})
          BY <2>2, <2>3, <3>1 DEF Places
    <3>3. PICK m \in AcceptedCandidate(t) : i = Len(e) + m
          BY <2>1, <2>4, <3>2 DEF FromEvents
    <3>4. m \in 1..Len(t) /\ k <= m
          BY <2>4, <3>2, <3>3 DEF AcceptedCandidate
    <3>5. QED  BY <2>3, <3>1, <3>3, <3>4
  <2>6. CASE j \in 1..Len(e)
    <3>1. j \in Places(e, LaneShaped \cup {"prefix"})
          BY <2>2, <2>3, <2>6 DEF Places
    <3>2. CASE Candidate(t) = {}
          BY <2>1, <2>4, <3>1, <3>2 DEF FromEvents, AcceptedCandidate
    <3>3. CASE Candidate(t) # {}
      <4>1. PICK m \in AcceptedCandidate(t) : i = Len(e) + m
            BY <2>1, <3>3 DEF FromEvents
      <4>2. m \in 1..Len(t)
            BY <4>1 DEF AcceptedCandidate, Candidate, LastOf, FirstOf, Places
      <4>3. QED  BY <2>3, <2>6, <4>1, <4>2
    <3>4. QED  BY <3>2, <3>3
  <2>7. QED  BY <2>3, <2>5, <2>6
<1>3. QED  BY <1>1, <1>2

\* What is accepted of a stream is an answer.
LEMMA AcceptedIs ==
    ASSUME NEW s \in Outputs, s.carrier \in {"codewhale", "events"}, NEW a \in Accepted(s)
    PROVE  a \in Places(Content(s), Readable)
<1> DEFINE e == s.earlier
           t == s.text
           c == Content(s)
<1>1. CASE s.carrier = "codewhale"
  <2>1. a \in FromCodeWhale(c)
        BY <1>1 DEF Accepted
  <2>2. QED  BY <2>1 DEF FromCodeWhale, Places, Readable
<1>2. CASE s.carrier = "events"
  <2>1. a \in FromEvents(s)
        BY <1>2 DEF Accepted
  <2>2. /\ \A k \in 1..Len(e) : k \in 1..Len(c) /\ c[k] = e[k]
        /\ \A k \in 1..Len(t) : Len(e) + k \in 1..Len(c) /\ c[Len(e) + k] = t[k]
        BY ContentIs DEF Joins
  <2>3. ASSUME NEW u, NEW k \in AcceptedCandidate(u)
        PROVE  k \in 1..Len(u) /\ u[k].is \in Readable
        BY DEF AcceptedCandidate, Candidate, LastOf, FirstOf, Places, Readable
  <2>4. CASE a \in AcceptedCandidate(e)
        BY <2>2, <2>3, <2>4 DEF Places
  <2>5. CASE \E k \in AcceptedCandidate(t) : a = Len(e) + k
        BY <2>2, <2>3, <2>5 DEF Places
  <2>6. QED  BY <2>1, <2>4, <2>5 DEF FromEvents
<1>3. QED  BY <1>1, <1>2

\* An object that was cut off and has a key decides whether the output is usable
\* (has_unusable_final_candidate).
LEMMA CutDecides ==
    ASSUME NEW c \in Seq(Piece),
           Len(c) \in Places(c, Cuts \cup EarlyCuts \cup {"prefix"}),
           \A i \in 1..Len(c) : c[i].is \in Unclosed => i = Len(c)
    PROVE  UnusableFinal(c)
<1> DEFINE n == Len(c)
           K == Cuts \cup EarlyCuts
<1>1. /\ n \in Nat /\ n \in 1..n
      /\ c[n].is \in K \cup {"prefix"}
      BY DEF Places
<1>2. ASSUME NEW kinds, c[n].is \in kinds
      PROVE  LastOf(Places(c, kinds)) = {n}
      BY <1>1, <1>2 DEF LastOf, Places
<1>3. Unresolved(c) = {n}
  <2>1. CASE c[n].is \in K
    <3>1. LastOf(Places(c, Keyed)) = {n}
          BY <1>2, <2>1 DEF Keyed
    <3>2. LastOf(Places(c, Keyed)) \cap Places(c, K) = {n}
          BY <1>1, <2>1, <3>1 DEF Places
    <3>3. QED  BY <3>2 DEF Unresolved
  <2>2. CASE c[n].is = "prefix"
    <3>1. Places(c, K) = {}
          BY <1>1, <2>2 DEF Places, Unclosed, Cuts, EarlyCuts
    <3>2. LastOf(Places(c, {"prefix"})) = {n}
          BY <1>2, <2>2
    <3>3. QED  BY <3>1, <3>2 DEF Unresolved
  <2>3. QED  BY <1>1, <2>1, <2>2
<1>4. DecidingFence(c) = {}
      BY <1>1, <1>3 DEF DecidingFence, LastOf, Fences
<1>5. QED  BY <1>3, <1>4 DEF UnusableFinal

\* A stream that ends in a recognised object that is no answer is not accepted;
\* when that was cut off, it is found out and tried again, whatever stands before
\* it (has_unusable_final_candidate, parse_last_complete_candidate).
THEOREM CutsAreNoticed == TruncationIsNoticed
<1> SUFFICES ASSUME NEW s \in Outputs, LastIs(s) # "fit"
             PROVE  Accepted(s) = {} /\ (LastIs(s) = "cut" /\ s.ended => Unusable(s))
    BY DEF TruncationIsNoticed
<1> DEFINE c == Content(s)
           found == Places(c, Recognised(s) \cup {"unquoted"})
           no == {"wrong", "garbled", "example"}
<1>1. /\ s.carrier \in {"codewhale", "events"}
      /\ \E i \in LastOf(found) : c[i].is \in Unclosed \cup no
      BY DEF LastIs
<1>2. PICK i \in LastOf(found) : c[i].is \in Unclosed \cup no
      BY <1>1
<1>3. /\ i \in Places(c, Recognised(s)) /\ c[i].is \notin Readable
      /\ \A k \in found : k <= i
      BY <1>2 DEF LastOf, Places, Unclosed, Cuts, EarlyCuts, Stubs, Readable
<1>4. Accepted(s) = {}
  <2>1. SUFFICES ASSUME NEW a \in Accepted(s) PROVE FALSE
        OBVIOUS
  <2>2. a \in Places(c, Readable)
        BY <1>1, AcceptedIs
  <2>3. a \in found
        BY <2>2 DEF Places, Readable, Recognised, Keyed, LaneShaped
  <2>4. a <= i /\ i <= a
        BY <1>1, <1>3, <2>3, DraftsDoNotDecide DEF LastCandidateDecides
  <2>5. a = i
        BY <1>3, <2>2, <2>4 DEF Places
  <2>6. QED  BY <1>3, <2>2, <2>5 DEF Places
<1>5. ASSUME LastIs(s) = "cut", s.ended
      PROVE  Unusable(s)
  <2>1. PICK k \in LastOf(found) : c[k].is \in Unclosed
        BY <1>5 DEF LastIs
  <2>2. k = Len(c) /\ c \in Seq(Piece)
        BY <2>1, ContentIs DEF Joins, LastOf, Places
  <2>3. Len(c) \in Places(c, Cuts \cup EarlyCuts \cup {"prefix"})
        BY <2>1, <2>2 DEF LastOf, Places, Unclosed, Cuts, EarlyCuts, Stubs, Recognised,
                          Keyed, LaneShaped
  <2>4. UnusableFinal(c)
        BY <2>2, <2>3, ContentIs, CutDecides
  <2>5. QED  BY <1>1, <1>5, <2>4 DEF Unusable
<1>6. QED  BY <1>4, <1>5

-----------------------------------------------------------------------------
(* What the thread does about it.                                          *)

\* An attempt with something to hold against it is back, has not come to an
\* answer, and may be tried again if it was cut off.
Unanswered ==
    /\ last = [l \in Route |-> last[l]]
    /\ got = [l \in Route |-> got[l]]
    /\ \A l \in Route :
           last[l] # "fit" => /\ job[l] = "returned"
                              /\ \A a : got[l] # <<"answer", a>>
                              /\ last[l] = "cut" => got[l] = <<"retry">>

LEMMA ReadingIs ==
    ASSUME NEW arbiter \in BOOLEAN, NEW d \in Readings[arbiter], d.last # "fit"
    PROVE  ~d.parses /\ ~d.chat /\ (d.last = "cut" /\ d.ended => d.unusable)
<1>1. PICK s \in Outputs :
          d = [parses |-> Holds(arbiter, s), unusable |-> Unusable(s), ended |-> s.ended,
               last |-> IF arbiter THEN "fit" ELSE LastIs(s), chat |-> s.carrier = "chat"]
      BY DEF Readings
<1>2. ~arbiter /\ d.last = LastIs(s) /\ LastIs(s) # "fit"
      BY <1>1
<1>3. s.carrier \in {"codewhale", "events"}
      BY <1>2 DEF LastIs
<1>4. Accepted(s) = {} /\ (LastIs(s) = "cut" /\ s.ended => Unusable(s))
      BY <1>2, CutsAreNoticed DEF TruncationIsNoticed
<1>5. (d.parses <=> Holds(arbiter, s)) /\ (d.unusable <=> Unusable(s))
      /\ (d.chat <=> s.carrier = "chat") /\ (d.ended <=> s.ended)
      BY <1>1
<1>6. QED  BY <1>2, <1>3, <1>4, <1>5 DEF Holds

\* What a lane comes back with.
LEMMA OutcomeIs ==
    ASSUME NEW ph \in Phases, NEW o \in Outcomes[ph], o.last # "fit"
    PROVE  /\ \A a : o.got # <<"answer", a>>
           /\ o.last = "cut" => o.got = <<"retry">>
<1>1. PICK r \in Captures[ph = "R3"] : o \in [got : CameTo(ph, r), last : {Against(r)}]
      BY DEF Outcomes
<1>2. o.got \in CameTo(ph, r) /\ o.last = Against(r) /\ Against(r) # "fit"
      BY <1>1
<1>3. r.out \in Readings[ph = "R3"]
      BY <1>1 DEF Captures
<1>4. Heard(r) /\ r.out.last # "fit"
      BY <1>2 DEF Against, Valid
<1>5. ~r.out.parses /\ ~r.out.chat /\ (r.out.last = "cut" /\ r.out.ended => r.out.unusable)
      BY <1>3, <1>4, ReadingIs
<1>6. ~Valid(r) /\ ~r.cancelled
      BY <1>4, <1>5 DEF Valid, Heard
<1>7. /\ Against(r) = "cut" /\ r.cleaned /\ r.out.last = "cut"
      /\ r.timedOut \/ (r.exitZero /\ r.out.ended)
      BY <1>2, <1>6 DEF Against
<1>8. ~RateLimited(r)
      BY <1>5, <1>7 DEF RateLimited
<1>9. Transient(r)
      BY <1>4, <1>5, <1>7, <1>8 DEF Transient
<1>10. o.got = <<"retry">>
  <2>1. CameTo(ph, r) = {<<"retry">>}
        BY <1>6, <1>8, <1>9 DEF CameTo
  <2>2. QED  BY <1>2, <2>1
<1>11. QED  BY <1>10

\* What is held against an attempt stays with it until it is looked at.
Unmoved(l) ==
    \/ last'[l] = "fit"
    \/ /\ last'[l] = last[l] /\ got'[l] = got[l]
       /\ job[l] = "returned" => job'[l] = "returned"

LEMMA ThreadUnmoved ==
    ASSUME PInv, Unanswered, Thread
    PROVE  /\ last' = [l \in Route |-> last'[l]]
           /\ got' = [l \in Route |-> got'[l]]
           /\ \A l \in Route : Unmoved(l)
<1> DEFINE Goal == /\ last' = [l \in Route |-> last'[l]]
                   /\ got' = [l \in Route |-> got'[l]]
                   /\ \A l \in Route : Unmoved(l)
<1>1. ASSUME NEW loc, Drop(loc) PROVE Goal
      BY <1>1 DEF Drop, Unmoved
<1>2. ASSUME NEW l, Settle(l) PROVE Goal
  <2>1. last' = [last EXCEPT ![l] = "fit"] /\ got' = [got EXCEPT ![l] = <<>>]
        /\ job' = [job EXCEPT ![l] = "settled"]
        BY <1>2 DEF Settle
  <2>2. \A k \in Route : last'[k] = IF k = l THEN "fit" ELSE last[k]
        BY <2>1 DEF Unanswered
  <2>3. \A k \in Route \ {l} : got'[k] = got[k] /\ job'[k] = job[k]
        BY <2>1 DEF Unanswered, PInv, TypeOK
  <2>4. last' = [k \in Route |-> last'[k]] /\ got' = [k \in Route |-> got'[k]]
        BY <2>1 DEF Unanswered
  <2>5. QED  BY <2>2, <2>3, <2>4 DEF Unmoved
<1>3. ASSUME UNCHANGED <<last, got>>, \A l \in Route : job[l] = "returned" => job'[l] = "returned"
      PROVE  Goal
      BY <1>3 DEF Unmoved, Unanswered
<1>4. ASSUME End("Failed") \/ End("Cancelled") PROVE Goal
      BY <1>1, <1>4 DEF End
<1>5. ASSUME Bail PROVE Goal
      BY <1>2, <1>4, <1>5 DEF Bail, Collect
<1>6. CASE BeginR1 \/ BeginR2 \/ BeginR3 \/ Decide \/ AdvanceCancelled \/ Gate
  <2>1. \/ End("Failed") \/ End("Cancelled") \/ \E loc : Drop(loc)
        \/ /\ last' = [l \in Route |-> "fit"]
           /\ got' = [l \in Route |-> <<>>]
        BY <1>6 DEF BeginR1, BeginR2, BeginR3, Begin, Decide, AdvanceCancelled, Gate
  <2>2. QED  BY <1>1, <1>4, <2>1 DEF Unmoved
<1>7. CASE SkipR2 \/ R2Packet \/ WritePacket \/ PickNoMore \/ NoDeadline \/ PacingPassed
           \/ LaunchDone \/ RetryScheduled
      BY <1>3, <1>7 DEF SkipR2, R2Packet, WritePacket, PickNoMore, NoDeadline, PacingPassed,
                        LaunchDone, RetryScheduled, session
<1>8. CASE Build \/ LaunchCancelled
  <2>1. UNCHANGED <<last, got>>
        BY <1>8 DEF Build, LaunchCancelled
  <2>2. \A l \in Route : job[l] = "returned" => job'[l] = "returned"
        BY <1>8 DEF Build, LaunchCancelled, PInv, TypeOK, Stages
  <2>3. QED  BY <1>3, <2>1, <2>2
<1>9. CASE DeadlinePassed \/ CallReturned \/ BuildFails \/ GiveUp
  <2>1. Bail \/ UNCHANGED <<last, got, job>>
        BY <1>9 DEF DeadlinePassed, CallReturned, BuildFails, GiveUp
  <2>2. QED  BY <1>3, <1>5, <2>1
<1>10. CASE WaitCancelled \/ Join \/ AllSettled
  <2>1. End("Failed") \/ End("Cancelled") \/ Collect(cur) \/ UNCHANGED <<last, got, job>>
        BY <1>10 DEF WaitCancelled, Join, AllSettled
  <2>2. QED  BY <1>2, <1>3, <1>4, <2>1 DEF Collect
<1>11. CASE Accept
      BY <1>2, <1>11 DEF Accept
<1>12. CASE ScheduleRetry
  <2>1. /\ last' = [last EXCEPT ![cur] = "fit"] /\ got' = [got EXCEPT ![cur] = <<>>]
        /\ job' = [job EXCEPT ![cur] = "retry"]
        BY <1>12 DEF ScheduleRetry
  <2>2. \A k \in Route : last'[k] = IF k = cur THEN "fit" ELSE last[k]
        BY <2>1 DEF Unanswered
  <2>3. \A k \in Route \ {cur} : got'[k] = got[k] /\ job'[k] = job[k]
        BY <2>1 DEF Unanswered, PInv, TypeOK
  <2>4. last' = [k \in Route |-> last'[k]] /\ got' = [k \in Route |-> got'[k]]
        BY <2>1 DEF Unanswered
  <2>5. QED  BY <2>2, <2>3, <2>4 DEF Unmoved
<1>13. ASSUME NEW l \in Route, Pick(l) \/ Launch(l) PROVE Goal
  <2>1. End("Failed") \/ UNCHANGED <<last, got>>
        BY <1>13 DEF Pick, Launch
  <2>2. End("Failed") \/ \A k \in Route : job[k] = "returned" => job'[k] = "returned"
        BY <1>13 DEF Pick, Launch, PInv, TypeOK
  <2>3. QED  BY <1>3, <1>4, <2>1, <2>2
<1>14. ASSUME NEW l \in Route, Abandon(l) \/ Clear(l) PROVE Goal
  <2>1. Collect(l) \/ End("Failed") \/ UNCHANGED <<last, got, job>>
        BY <1>14 DEF Abandon, Clear
  <2>2. QED  BY <1>2, <1>3, <1>4, <2>1 DEF Collect
<1>15. QED
      BY <1>6, <1>7, <1>8, <1>9, <1>10, <1>11, <1>12, <1>13, <1>14 DEF Thread

LEMMA StillUnanswered == PInv /\ Unanswered /\ [Next]_vars => Unanswered'
<1> SUFFICES ASSUME PInv, Unanswered, [Next]_vars PROVE Unanswered'
    OBVIOUS
<1>1. ASSUME /\ last' = [l \in Route |-> last'[l]]
             /\ got' = [l \in Route |-> got'[l]]
             /\ \A l \in Route : Unmoved(l)
      PROVE  Unanswered'
      BY <1>1 DEF Unanswered, Unmoved
<1>2. CASE Thread
      BY <1>1, <1>2, ThreadUnmoved
<1>3. CASE Resume \/ Clock \/ RequestCancel \/ CancelEnds \/ UNCHANGED vars
  <2>1. UNCHANGED <<last, got, job>>
        BY <1>3 DEF Resume, Clock, RetryComesDue, IntervalPasses, PacingComesDue,
                    RequestCancel, CancelEnds, vars, session
  <2>2. QED  BY <2>1 DEF Unanswered
<1>4. CASE Kill
      BY <1>4 DEF Kill, Drop, Unanswered
<1>5. ASSUME NEW l \in Route, LaneRefused(l) \/ LaneStarts(l) \/ LaneCalls(l)
      PROVE  Unanswered'
  <2>1. last[l] = "fit" /\ last' = last
        BY <1>5 DEF LaneRefused, LaneStarts, LaneCalls, Unanswered
  <2>2. got' = [k \in Route |-> got'[k]]
        /\ \A k \in Route \ {l} : got'[k] = got[k] /\ job'[k] = job[k]
        BY <1>5 DEF LaneRefused, LaneStarts, LaneCalls, Unanswered, PInv, TypeOK
  <2>3. QED  BY <2>1, <2>2 DEF Unanswered
<1>6. ASSUME NEW l \in Route, LaneReturns(l)
      PROVE  Unanswered'
  <2>1. PICK o \in Outcomes[phase] :
            got' = [got EXCEPT ![l] = o.got] /\ last' = [last EXCEPT ![l] = o.last]
        BY <1>6 DEF LaneReturns
  <2>2. /\ got' = [k \in Route |-> got'[k]] /\ last' = [k \in Route |-> last'[k]]
        /\ \A k \in Route \ {l} : got'[k] = got[k] /\ last'[k] = last[k] /\ job'[k] = job[k]
        /\ got'[l] = o.got /\ last'[l] = o.last /\ job'[l] = "returned"
        BY <1>6, <2>1 DEF LaneReturns, Unanswered, PInv, TypeOK
  <2>3. o.last # "fit" => (\A a : o.got # <<"answer", a>>)
                          /\ (o.last = "cut" => o.got = <<"retry">>)
        BY OutcomeIs DEF PInv, TypeOK
  <2>4. ASSUME NEW k \in Route, last'[k] # "fit"
        PROVE  /\ job'[k] = "returned"
               /\ \A a : got'[k] # <<"answer", a>>
               /\ last'[k] = "cut" => got'[k] = <<"retry">>
    <3>1. CASE k = l
          BY <2>2, <2>3, <2>4, <3>1
    <3>2. CASE k # l
          BY <2>2, <2>4, <3>2 DEF Unanswered
    <3>3. QED  BY <3>1, <3>2
  <2>5. QED  BY <2>2, <2>4 DEF Unanswered
<1>7. QED  BY <1>2, <1>3, <1>4, <1>5, <1>6 DEF Next, Progress, LaneThread

\* So a lane whose stream ended in something else does not go on with an older
\* draft, and one that was cut off is put off for another attempt
\* (accept_or_retry_lane over what the parsers found).
THEOREM FinalDecides == Spec => FinalCandidateDecides
<1>1. Init => Unanswered
      BY DEF Init, Unanswered
<1>2. PInv /\ Unanswered /\ [Next]_vars
      => [at = "cleared" /\ last[cur] # "fit"
          => /\ accepted' = accepted
             /\ last[cur] = "cut" /\ try[cur] < MaxAttempts
                    => \/ at' \in {"cleared", "scheduled"}
                       \/ at' = "off" /\ status' = status]_vars
  <2> SUFFICES ASSUME PInv, Unanswered, [Next]_vars, at = "cleared", last[cur] # "fit"
               PROVE  /\ accepted' = accepted
                      /\ last[cur] = "cut" /\ try[cur] < MaxAttempts
                             => \/ at' \in {"cleared", "scheduled"}
                                \/ at' = "off" /\ status' = status
      OBVIOUS
  <2>1. /\ \A a : got[cur] # <<"answer", a>>
        /\ last[cur] = "cut" => got[cur] = <<"retry">>
        BY DEF PInv, Stages, Unanswered
  <2>2. CASE Clock \/ RequestCancel \/ CancelEnds \/ UNCHANGED vars
        BY <2>2 DEF Clock, RetryComesDue, IntervalPasses, PacingComesDue, RequestCancel,
                    CancelEnds, vars, session, files
  <2>3. CASE Resume \/ Kill
        BY <2>3 DEF Resume, Kill, Drop, files
  <2>4. ASSUME NEW l \in Route, LaneThread(l)
        PROVE  UNCHANGED <<accepted, at>>
        BY <2>4 DEF LaneThread, LaneRefused, LaneStarts, LaneCalls, LaneReturns, files
  <2>5. CASE Thread
    <3>1. Accept \/ ScheduleRetry \/ GiveUp
      <4>1. ~(BeginR1 \/ SkipR2 \/ R2Packet \/ WritePacket \/ BeginR2 \/ BeginR3 \/ Decide
              \/ AdvanceCancelled \/ PickNoMore \/ NoDeadline \/ DeadlinePassed)
            BY DEF BeginR1, BeginR2, BeginR3, Begin, SkipR2, R2Packet, WritePacket, Decide,
                   AdvanceCancelled, PickNoMore, NoDeadline, DeadlinePassed
      <4>2. ~(WaitCancelled \/ PacingPassed \/ Build \/ BuildFails \/ LaunchCancelled
              \/ LaunchDone \/ Join \/ CallReturned \/ RetryScheduled \/ AllSettled \/ Gate)
            BY DEF WaitCancelled, Waiting, PacingPassed, Build, BuildFails, LaunchCancelled,
                   LaunchDone, Join, CallReturned, RetryScheduled, AllSettled, Gate
      <4>3. \A l \in Route : ~(Pick(l) \/ Launch(l) \/ Abandon(l) \/ Clear(l))
            BY DEF Pick, Launch, Abandon, Clear, Settling
      <4>4. QED  BY <2>5, <4>1, <4>2, <4>3 DEF Thread
    <3>2. ~Accept
          BY <2>1 DEF Accept
    <3>3. CASE ScheduleRetry
          BY <3>3 DEF ScheduleRetry, To
    <3>4. CASE GiveUp
      <4>1. accepted' = accepted
            BY <3>4 DEF GiveUp, Bail, Collect, End, files
      <4>2. ~(last[cur] = "cut" /\ try[cur] < MaxAttempts)
            BY <2>1, <3>4 DEF GiveUp, RetryAllowed
      <4>3. QED  BY <4>1, <4>2
    <3>5. QED  BY <3>1, <3>2, <3>3, <3>4
  <2>6. QED  BY <2>2, <2>3, <2>4, <2>5 DEF Next, Progress
<1>3. QED
      BY <1>1, <1>2, StillUnanswered, Invariant, PTL DEF Spec, FinalCandidateDecides
-----------------------------------------------------------------------------
(* A run is a deliberation.                                                *)

Keeps == [Deliberation!Next]_(Deliberation!vars)

\* A session that is still there though its run is over was cancelled, and an
\* attempt that came to an answer was called.
Going ==
    /\ status \in {"active", "Cancelled", "Failed", "Decided"}
    /\ got = [l \in Route |-> got[l]]
    /\ at # "off" => status = "active" \/ (status = "Cancelled" /\ cancelRequested)
    /\ \A l \in Route :
          job[l] = "calling" \/ (job[l] = "returned" /\ \E a : got[l] = <<"answer", a>>)
              => calls[phase][l] > 0

\* Both say alike which rounds are complete and what is in dispute.
LEMMA SameRounds ==
    /\ Deliberation!Rounds = Phases
    /\ \A ph \in Phases : Deliberation!Roster(ph) = Roster(ph)
    /\ Deliberation!Answered("R1") <=> PhaseComplete("R1")
    /\ Deliberation!Answered("R3") <=> PhaseComplete("R3")
    /\ Deliberation!Dispute = Disputed
    /\ Deliberation!Settled <=> SecondRoundOver
    /\ Deliberation!Said = Earlier
<1>1. Deliberation!Rounds = Phases
      BY DEF Deliberation!Rounds
<1>2. \A ph : Deliberation!Roster(ph) = Roster(ph)
      BY DEF Deliberation!Roster, Roster
<1>3. ASSUME NEW ph PROVE Deliberation!Answered(ph) <=> PhaseComplete(ph)
      BY <1>2 DEF Deliberation!Answered, PhaseComplete, Missing
<1>4. Deliberation!Dispute = Disputed
      BY DEF Deliberation!Dispute, Disputed, FirstRound
<1>5. Deliberation!Settled <=> SecondRoundOver
      BY <1>3 DEF Deliberation!Settled, SecondRoundOver
<1>6. Deliberation!Said = Earlier
      BY DEF Deliberation!Said, Earlier
<1>7. QED  BY <1>1, <1>2, <1>3, <1>4, <1>5, <1>6

\* A step that decides on nothing.
NothingNew ==
    /\ at' \in {"cleared", "packet"} => UNCHANGED <<at, phase, cur, got>>
    /\ \A l \in Route : job'[l] = "launching" => job[l] = "launching" /\ phase' = phase

LEMMA Forgetting ==
    ASSUME NothingNew
    PROVE  Deliberation!Forget
<1>1. AboutToCall' \subseteq AboutToCall
      BY DEF NothingNew, AboutToCall
<1>2. AboutToAnswer' \subseteq AboutToAnswer
  <2>1. CASE at' = "cleared"
        BY <2>1 DEF NothingNew, AboutToAnswer
  <2>2. CASE at' # "cleared"
        BY <2>2 DEF AboutToAnswer
  <2>3. QED  BY <2>1, <2>2
<1>3. at' = "packet" => at = "packet"
      BY DEF NothingNew
<1>4. QED  BY <1>1, <1>2, <1>3 DEF Deliberation!Forget

\* Steps that concern nobody outside.
LEMMA Inward ==
    ASSUME UNCHANGED <<status, cancelRequested, calls, accepted, skipped, packet, result>>,
           NothingNew
    PROVE  Keeps
<1>1. Deliberation!Drop
      BY Forgetting DEF Deliberation!Drop, Deliberation!done
<1>2. QED  BY <1>1 DEF Keeps, Deliberation!Next

\* Where no lane is out and no answer or packet is under way, nothing is decided
\* on.
LEMMA NothingWhere ==
    ASSUME at \notin {"cleared", "packet"}, \A l \in Route : job[l] # "launching"
    PROVE  /\ AboutToCall = {}
           /\ AboutToAnswer = {}
           /\ Deliberation!NothingDecided
<1>1. AboutToCall = {}
      BY DEF AboutToCall
<1>2. AboutToAnswer = {}
      BY DEF AboutToAnswer
<1>3. QED  BY <1>1, <1>2 DEF Deliberation!NothingDecided

\* fail_run and cancel_run end a run that goes on, once.
LEMMA EndKeeps ==
    ASSUME Going, at # "off",
           status' \in {status, IF cancelRequested THEN "Cancelled" ELSE "Failed"},
           UNCHANGED <<cancelRequested, calls, accepted, skipped, packet, result>>,
           cancelRequested \in BOOLEAN,
           NothingNew,
           cancelRequested \/ status' = status \/ Deliberation!NothingDecided
    PROVE  Keeps /\ status' \in {"active", "Cancelled", "Failed"}
<1>1. CASE status' = status
      BY <1>1, Inward DEF Going
<1>2. CASE status' # status
  <2>1. status = "active"
        BY <1>2 DEF Going
  <2>2. CASE cancelRequested
    <3>1. Deliberation!Cancel
          BY <1>2, <2>1, <2>2, Forgetting DEF Deliberation!Cancel, Deliberation!done
    <3>2. QED  BY <1>2, <2>2, <3>1 DEF Keeps, Deliberation!Next
  <2>3. CASE ~cancelRequested
    <3>1. /\ AboutToCall = {} /\ AboutToAnswer = {} /\ at # "packet"
          BY <1>2, <2>3 DEF Deliberation!NothingDecided
    <3>2. /\ AboutToCall' = {} /\ AboutToAnswer' = {} /\ at' # "packet"
          BY <3>1, Forgetting DEF Deliberation!Forget
    <3>3. Deliberation!Fail
          BY <1>2, <2>1, <2>3, <3>1, <3>2
          DEF Deliberation!Fail, Deliberation!GoesOn, Deliberation!NothingDecided,
              Deliberation!done, Deliberation!decided
    <3>4. QED  BY <1>2, <2>3, <3>3 DEF Keeps, Deliberation!Next
  <2>4. QED  BY <2>2, <2>3
<1>3. QED  BY <1>1, <1>2

\* A session that leaves takes its routes with it.
LEMMA GoneKeeps ==
    ASSUME NEW loc \in {"off", "advance"}, Drop(loc),
           status' \in {"active", "Cancelled", "Failed", "Decided"},
           loc = "off" \/ (status' = status /\ cancelRequested' = cancelRequested
                           /\ at # "off" /\ Going)
    PROVE  Going' /\ NothingNew
BY DEF Drop, Going, NothingNew

\* A route of a round that is not done with.
LEMMA RouteIsOwed ==
    ASSUME PInv, NEW l \in Route, job[l] \notin {"idle", "settled"}
    PROVE  l \in Roster(phase) /\ Deliberation!Owed(phase, l)
BY SameRounds DEF PInv, TypeOK, Open, Deliberation!Owed

\* A session ends its run, when nothing is under way or it is cancelled.
LEMMA EndingKeeps ==
    ASSUME PInv, Going, at # "off",
           NEW s \in {"Failed", "Cancelled"}, s = "Cancelled" => cancelRequested, End(s),
           cancelRequested \/ Deliberation!NothingDecided
    PROVE  Keeps /\ Going'
<1>1. /\ Drop("off")
      /\ status' = IF cancelRequested THEN "Cancelled" ELSE s
      /\ UNCHANGED <<cancelRequested, calls, accepted, skipped, packet, result>>
      BY DEF End, files, world
<1>2. status' = IF cancelRequested THEN "Cancelled" ELSE "Failed"
      BY <1>1
<1>3. status' \in {"active", "Cancelled", "Failed", "Decided"}
      BY <1>2
<1>4. Going' /\ NothingNew
      BY <1>1, <1>3, GoneKeeps
<1>5. QED  BY <1>1, <1>2, <1>4, EndKeeps DEF PInv, TypeOK

\* What is collected of a lane that is given up stays inside.
LEMMA CollectKeeps ==
    ASSUME PInv, Going, at # "off", NEW l, Collect(l), CancelRun \/ UNCHANGED status
    PROVE  Keeps /\ Going'
<1>1. /\ status' \in {status, IF cancelRequested THEN "Cancelled" ELSE "Failed"}
      /\ cancelRequested \/ status' = status
      /\ UNCHANGED <<cancelRequested, calls, accepted, skipped, packet, result, phase>>
      /\ at' = "settle"
      BY DEF CancelRun, Collect, To, files, world, PInv, TypeOK
<1>2. /\ job' = [job EXCEPT ![l] = "settled"] /\ got' = [got EXCEPT ![l] = <<>>]
      BY DEF Collect, Settle
<1>3. \A k \in Route : job'[k] = "settled" \/ (job'[k] = job[k] /\ got'[k] = got[k])
      BY <1>2 DEF PInv, TypeOK, Going
<1>4. got' = [k \in Route |-> got'[k]]
      BY <1>2 DEF Going
<1>5. NothingNew
      BY <1>1, <1>3 DEF NothingNew
<1>6. Keeps /\ status' \in {"active", "Cancelled", "Failed"}
      BY <1>1, <1>5, EndKeeps DEF PInv, TypeOK
<1>7. status' = "active" \/ (status' = "Cancelled" /\ cancelRequested)
      BY <1>1 DEF Going
<1>8. \A k \in Route :
          job'[k] = "calling" \/ (job'[k] = "returned" /\ \E a : got'[k] = <<"answer", a>>)
              => calls'[phase'][k] > 0
      BY <1>1, <1>3 DEF Going
<1>9. QED  BY <1>1, <1>4, <1>6, <1>7, <1>8 DEF Going

\* Steps of the thread that only move it, and what it knows of its routes.
LEMMA MoveKeeps ==
    ASSUME Going, at # "off" \/ status = "active",
           UNCHANGED <<status, cancelRequested, calls, accepted, skipped, packet, result>>,
           at' \notin {"cleared", "packet"},
           \/ UNCHANGED <<phase, got>> /\ \A l \in Route :
                  job'[l] # job[l] => job'[l] \in {"ready", "started", "settled", "retry"}
           \/ /\ got' = [l \in Route |-> <<>>]
              /\ \A l \in Route : job'[l] \in {"missing", "settled"}
    PROVE  Keeps /\ Going'
<1>1. NothingNew
      BY DEF NothingNew
<1>2. Keeps
      BY <1>1, Inward
<1>3. Going'
      BY DEF Going
<1>4. QED  BY <1>2, <1>3

\* advance() between the rounds.
LEMMA AdvanceKeeps ==
    ASSUME PInv, Going,
           BeginR1 \/ SkipR2 \/ R2Packet \/ WritePacket \/ BeginR2 \/ BeginR3 \/ Decide
               \/ AdvanceCancelled
    PROVE  Keeps /\ Going'
<1>0. \A l \in Route : job[l] = "idle"
      BY DEF BeginR1, SkipR2, R2Packet, WritePacket, BeginR2, BeginR3, Begin, Decide,
             AdvanceCancelled, PInv, Stages
<1>1. at = "advance" => /\ AboutToCall = {} /\ AboutToAnswer = {}
                        /\ Deliberation!NothingDecided
      BY <1>0, NothingWhere
<1>2. ASSUME NEW ph \in Phases, Begin(ph) PROVE Keeps /\ Going'
  <2>1. CASE End("Failed")
        BY <1>1, <1>2, <2>1, EndingKeeps DEF Begin
  <2>2. CASE ~End("Failed")
    <3>1. /\ at # "off" /\ at' = "pick"
          /\ UNCHANGED <<status, cancelRequested, calls, accepted, skipped, packet, result>>
          /\ got' = [l \in Route |-> <<>>]
          /\ \A l \in Route : job'[l] \in {"missing", "settled"}
          BY <1>2, <2>2 DEF Begin, To, files, world
    <3>2. QED  BY <3>1, MoveKeeps
  <2>3. QED  BY <2>1, <2>2
<1>3. at = "advance" /\ ~cancelRequested => Deliberation!GoesOn
      BY DEF Going, Deliberation!GoesOn
<1>4. CASE SkipR2
  <2>1. Deliberation!Undecided /\ Deliberation!Dispute = {}
        BY <1>4, SameRounds DEF SkipR2, Deliberation!Undecided, PInv, Founded
  <2>2. status \in {"active", "Cancelled"}
        BY <1>4 DEF SkipR2, Going
  <2>3. /\ at = "advance" /\ skipped' = TRUE
        /\ UNCHANGED <<status, cancelRequested, calls, accepted, packet, result, at, phase,
                       cur, job, got>>
        BY <1>4 DEF SkipR2, session, world
  <2>4. UNCHANGED <<AboutToCall, AboutToAnswer>>
        BY <2>3 DEF AboutToCall, AboutToAnswer
  <2>5. Deliberation!Skip
        BY <2>1, <2>2, <2>3, <2>4 DEF Deliberation!Skip, Deliberation!decided
  <2>6. QED  BY <2>3, <2>5 DEF Keeps, Deliberation!Next, Going
<1>5. CASE R2Packet
  <2>1. /\ at = "advance" /\ ~cancelRequested /\ at' = "packet"
        /\ UNCHANGED <<status, cancelRequested, calls, accepted, skipped, packet, result,
                       phase, cur, job, got>>
        BY <1>5 DEF R2Packet, To, files, world
  <2>2. Deliberation!Undecided /\ Deliberation!Dispute # {}
        BY <1>5, SameRounds DEF R2Packet, Deliberation!Undecided
  <2>3. UNCHANGED <<AboutToCall, AboutToAnswer>>
        BY <2>1 DEF AboutToCall, AboutToAnswer
  <2>4. Deliberation!ToQuote
        BY <1>3, <2>1, <2>2, <2>3 DEF Deliberation!ToQuote, Deliberation!done
  <2>5. QED  BY <2>1, <2>4 DEF Keeps, Deliberation!Next, Going
<1>6. CASE WritePacket
  <2>1. /\ at = "packet" /\ at' = "advance" /\ packet' = Disputed
        /\ UNCHANGED <<status, cancelRequested, calls, accepted, skipped, result,
                       phase, cur, job, got>>
        BY <1>6 DEF WritePacket, To, world
  <2>2. UNCHANGED <<AboutToCall, AboutToAnswer>>
        BY <2>1 DEF AboutToCall, AboutToAnswer
  <2>3. Deliberation!Quote
        BY <2>1, <2>2, SameRounds DEF Deliberation!Quote
  <2>4. QED  BY <2>1, <2>3 DEF Keeps, Deliberation!Next, Going
<1>7. CASE Decide
  <2>1. /\ result = NoAnswer /\ at = "advance" /\ ~cancelRequested
        /\ PhaseComplete("R1") /\ SecondRoundOver /\ PhaseComplete("R3")
        BY <1>7 DEF Decide, PInv, Over
  <2>2. /\ Drop("off") /\ at' = "off" /\ \A l \in Route : job'[l] = "idle"
        BY <1>7 DEF Decide, Drop
  <2>3. AboutToCall' = {} /\ AboutToAnswer' = {}
        BY <2>2 DEF AboutToCall, AboutToAnswer
  <2>4. UNCHANGED <<AboutToCall, AboutToAnswer, at = "packet">>
        BY <1>1, <2>1, <2>2, <2>3
  <2>5. Deliberation!Decide
        BY <1>1, <1>3, <1>7, <2>1, <2>4, SameRounds
        DEF Decide, Deliberation!Decide, Deliberation!decided, world
  <2>6. QED  BY <1>7, <2>2, <2>5, GoneKeeps DEF Decide, Keeps, Deliberation!Next
<1>8. CASE AdvanceCancelled
      BY <1>8, EndingKeeps DEF AdvanceCancelled
<1>9. QED  BY <1>2, <1>4, <1>5, <1>6, <1>7, <1>8 DEF BeginR1, BeginR2, BeginR3

\* An error is collected or ends the run.
LEMMA BailKeeps ==
    ASSUME PInv, Going, at # "off", Bail, cancelRequested \/ Deliberation!NothingDecided
    PROVE  Keeps /\ Going'
BY EndingKeeps, CollectKeeps DEF Bail

\* The answer of a lane that is back is decided on: the lane was called and owes
\* one, and no cancellation is noticed.
LEMMA ClearKeeps ==
    ASSUME PInv, Going, NEW l \in Route, Clear(l)
    PROVE  Keeps /\ Going'
<1>1. /\ at = "settle" /\ job[l] = "returned" /\ ~cancelRequested
      /\ at' = "cleared" /\ cur' = l
      /\ UNCHANGED <<status, cancelRequested, calls, accepted, skipped, packet, result,
                     phase, job, got>>
      BY DEF Clear, Settling, Noticed, To, files, world
<1>2. /\ AboutToCall = {} /\ AboutToAnswer = {} /\ Deliberation!NothingDecided
      BY <1>1, OutWhere, NothingWhere DEF NoneOut
<1>3. AboutToCall' = {}
      BY <1>1, <1>2 DEF AboutToCall
<1>4. CASE \E a \in Answers[phase] : got[l] = <<"answer", a>>
  <2>1. AboutToAnswer' = {<<phase, l>>}
        BY <1>1, <1>4 DEF AboutToAnswer
  <2>2. Deliberation!GoesOn /\ calls[phase][l] > 0
        BY <1>1, <1>4 DEF Going, Deliberation!GoesOn
  <2>3. l \in Roster(phase) /\ Deliberation!Owed(phase, l) /\ phase \in Phases
        BY <1>1, RouteIsOwed DEF PInv, TypeOK
  <2>4. Deliberation!ToAnswer(phase, l)
        BY <1>1, <1>2, <1>3, <2>1, <2>2, <2>3 DEF Deliberation!ToAnswer, Deliberation!done
  <2>5. QED  BY <1>1, <2>3, <2>4, SameRounds DEF Keeps, Deliberation!Next, Going
<1>5. CASE ~\E a \in Answers[phase] : got[l] = <<"answer", a>>
  <2>1. AboutToAnswer' = {}
        BY <1>1, <1>5 DEF AboutToAnswer
  <2>2. Deliberation!Drop
        BY <1>1, <1>3, <2>1 DEF Deliberation!Drop, Deliberation!Forget, Deliberation!done
  <2>3. QED  BY <1>1, <2>2 DEF Keeps, Deliberation!Next, Going
<1>6. QED  BY <1>4, <1>5

\* The answer that was decided on is taken, whatever has come in between.
LEMMA AcceptKeeps ==
    ASSUME PInv, Going, Accept
    PROVE  Keeps /\ Going'
<1>1. PICK a \in Answers[phase] :
          /\ got[cur] = <<"answer", a>>
          /\ accepted' = [accepted EXCEPT ![phase][cur] = a]
      BY Zenon DEF Accept
<1>2. /\ at = "cleared" /\ at' = "settle"
      /\ UNCHANGED <<status, cancelRequested, calls, skipped, packet, result, phase>>
      /\ job' = [job EXCEPT ![cur] = "settled"] /\ got' = [got EXCEPT ![cur] = <<>>]
      BY DEF Accept, Settle, To, world
<1>3. /\ cur \in Route /\ job[cur] = "returned" /\ phase \in Phases
      /\ \A l \in Route : job[l] # "launching" /\ job'[l] # "launching"
      BY <1>2, OutWhere DEF PInv, TypeOK, Stages, NoneOut
<1>4. /\ AboutToCall = {} /\ AboutToCall' = {}
      /\ AboutToAnswer = {<<phase, cur>>} /\ AboutToAnswer' = {}
      BY <1>1, <1>2, <1>3 DEF AboutToCall, AboutToAnswer
<1>5. Deliberation!Answer(phase, cur)
      BY <1>1, <1>2, <1>4 DEF Deliberation!Answer
<1>6. cur \in Roster(phase)
      BY <1>3, RouteIsOwed
<1>7. Keeps
      BY <1>3, <1>5, <1>6, SameRounds DEF Keeps, Deliberation!Next
<1>8. \A l \in Route : job'[l] = "settled" \/ (job'[l] = job[l] /\ got'[l] = got[l])
      BY <1>2 DEF PInv, TypeOK, Going
<1>9. got' = [l \in Route |-> got'[l]]
      BY <1>2 DEF Going
<1>10. Going'
      BY <1>2, <1>8, <1>9 DEF Going
<1>11. QED  BY <1>7, <1>10

\* Every step of the thread.
LEMMA ThreadKeeps ==
    ASSUME PInv, Going, Thread
    PROVE  Keeps /\ Going'
<1>0. ASSUME at \notin {"launch", "join", "call", "cleared", "packet"}
      PROVE  Deliberation!NothingDecided
      BY <1>0, OutWhere, NothingWhere DEF NoneOut
<1>1. CASE BeginR1 \/ SkipR2 \/ R2Packet \/ WritePacket \/ BeginR2 \/ BeginR3 \/ Decide
           \/ AdvanceCancelled
      BY <1>1, AdvanceKeeps
<1>2. CASE \/ PickNoMore \/ NoDeadline \/ PacingPassed \/ Build \/ LaunchDone
           \/ \E l \in Route : Launch(l)
  <2>1. /\ at # "off" /\ at' \notin {"cleared", "packet"}
        /\ UNCHANGED <<status, cancelRequested, calls, accepted, skipped, packet, result,
                       phase, got>>
        BY <1>2
        DEF PickNoMore, NoDeadline, AfterDue, PacingPassed, Build, LaunchDone, Launch, To,
            files, world
  <2>2. \A l \in Route : job'[l] # job[l] => job'[l] \in {"ready", "started"}
        BY <1>2
        DEF PickNoMore, NoDeadline, PacingPassed, Build, LaunchDone, Launch, PInv, TypeOK
  <2>3. QED  BY <2>1, <2>2, MoveKeeps
<1>3. CASE RetryScheduled
      BY <1>3, MoveKeeps DEF RetryScheduled, To, world
<1>4. CASE ScheduleRetry
  <2>1. /\ at = "cleared" /\ at' = "scheduled"
        /\ UNCHANGED <<status, cancelRequested, calls, accepted, skipped, packet, result,
                       phase>>
        /\ job' = [job EXCEPT ![cur] = "retry"]
        /\ got' = [got EXCEPT ![cur] = <<>>]
        BY <1>4 DEF ScheduleRetry, To
  <2>2. \A k \in Route : job'[k] = "retry" \/ (job'[k] = job[k] /\ got'[k] = got[k])
        BY <2>1 DEF PInv, TypeOK, Going
  <2>3. got' = [k \in Route |-> got'[k]]
        BY <2>1 DEF Going
  <2>4. NothingNew
        BY <2>1, <2>2 DEF NothingNew
  <2>5. QED  BY <2>1, <2>2, <2>3, <2>4, Inward DEF Going
<1>5. CASE BuildFails
      BY <1>0, <1>5, BailKeeps DEF BuildFails
<1>6. CASE DeadlinePassed \/ CallReturned
  <2>1. CASE Bail
    <3>1. CASE DeadlinePassed
          BY <1>0, <2>1, <3>1, BailKeeps DEF DeadlinePassed
    <3>2. CASE CallReturned
      <4>1. at = "call" /\ \A l \in Route : job[l] # "launching"
            BY <3>2 DEF CallReturned, PInv, Stages, Aside
      <4>2. QED  BY <2>1, <4>1, NothingWhere, BailKeeps
    <3>3. QED  BY <1>6, <3>1, <3>2
  <2>2. CASE ~Bail
    <3>1. /\ at # "off" /\ at' \notin {"cleared", "packet"}
          /\ UNCHANGED <<status, cancelRequested, calls, accepted, skipped, packet, result,
                         phase, got, job>>
          BY <1>6, <2>2 DEF DeadlinePassed, AfterDue, CallReturned, To, world
    <3>2. QED  BY <3>1, MoveKeeps
  <2>3. QED  BY <2>1, <2>2
<1>7. CASE WaitCancelled
      BY <1>7, EndingKeeps, CollectKeeps DEF WaitCancelled, Waiting
<1>8. CASE LaunchCancelled
  <2>1. /\ at # "off" /\ at' = "join"
        /\ cancelRequested /\ status' \in {"Cancelled"}
        /\ UNCHANGED <<cancelRequested, calls, accepted, skipped, packet, result, phase, got>>
        /\ \A l \in Route : job'[l] \in {job[l], "settled"}
        BY <1>8 DEF LaunchCancelled, CancelRun, To, files, world
  <2>2. NothingNew
        BY <2>1 DEF NothingNew
  <2>3. Keeps
        BY <2>1, <2>2, EndKeeps DEF PInv, TypeOK
  <2>4. QED  BY <2>1, <2>3 DEF Going
<1>9. CASE Join
  <2>1. at = "join" /\ \A l \in Route : job[l] # "launching"
        BY <1>9 DEF Join, Joined
  <2>2. CASE End("Failed")
        BY <2>1, <2>2, NothingWhere, EndingKeeps
  <2>3. CASE ~End("Failed")
        BY <1>9, <2>1, <2>3, MoveKeeps DEF Join, To, files, world
  <2>4. QED  BY <2>2, <2>3
<1>10. CASE AllSettled \/ Gate
  <2>1. at \in {"settle", "gate"} /\ Deliberation!NothingDecided
        BY <1>0, <1>10 DEF AllSettled, Gate
  <2>2. CASE End("Failed")
        BY <2>1, <2>2, EndingKeeps
  <2>3. CASE cancelRequested /\ End("Cancelled")
        BY <2>1, <2>3, EndingKeeps
  <2>4. CASE ~End("Failed") /\ ~(cancelRequested /\ End("Cancelled"))
    <3>1. UNCHANGED <<status, cancelRequested, calls, accepted, skipped, packet, result>>
          BY <1>10, <2>4 DEF AllSettled, Gate, files, world
    <3>2. \/ UNCHANGED <<phase, got, job>> /\ at' \in {"gate", "pick"}
          \/ Drop("advance")
          BY <1>10, <2>4 DEF AllSettled, Gate, To
    <3>3. CASE Drop("advance")
      <4>1. status \in {"active", "Cancelled", "Failed", "Decided"}
            BY DEF Going
      <4>2. QED  BY <2>1, <3>1, <3>3, <4>1, Inward, GoneKeeps
    <3>4. QED  BY <2>1, <3>1, <3>2, <3>3, MoveKeeps
  <2>5. QED  BY <2>2, <2>3, <2>4
<1>11. ASSUME NEW l \in Route, Pick(l) PROVE Keeps /\ Going'
  <2>1. CASE End("Failed")
        BY <1>0, <1>11, <2>1, EndingKeeps DEF Pick
  <2>2. CASE ~End("Failed")
        BY <1>11, <2>2, MoveKeeps DEF Pick, To, files, world
  <2>3. QED  BY <2>1, <2>2
<1>12. ASSUME NEW l \in Route, Abandon(l) PROVE Keeps /\ Going'
      BY <1>0, <1>12, EndingKeeps, CollectKeeps DEF Abandon, Settling
<1>13. ASSUME NEW l \in Route, Clear(l) PROVE Keeps /\ Going'
      BY <1>13, ClearKeeps
<1>14. CASE GiveUp
      \* What is given up is no answer.
  <2>1. at = "cleared" /\ got[cur] \in {<<"final">>, <<"retry">>} /\ Bail
        BY <1>14 DEF GiveUp
  <2>2. AboutToAnswer = {}
        BY <2>1 DEF AboutToAnswer
  <2>3. AboutToCall = {}
        BY <2>1, OutWhere DEF NoneOut, AboutToCall
  <2>4. Deliberation!NothingDecided
        BY <2>1, <2>2, <2>3 DEF Deliberation!NothingDecided
  <2>5. QED  BY <2>1, <2>4, BailKeeps
<1>15. QED
      BY <1>1, <1>2, <1>3, <1>4, <1>5, <1>6, <1>7, <1>8, <1>9, <1>10, <1>11, <1>12, <1>13,
         <1>14, AcceptKeeps DEF Thread

\* A call is decided on for an answer that is owed, in a round that is due.
LEMMA StartKeeps ==
    ASSUME PInv, Going, NEW l \in Route, LaneStarts(l)
    PROVE  Keeps /\ Going'
<1>1. /\ job[l] = "started" /\ ~cancelRequested
      /\ job' = [job EXCEPT ![l] = "launching"]
      /\ UNCHANGED <<status, cancelRequested, calls, accepted, skipped, packet, result, at,
                     phase, cur, got>>
      BY DEF LaneStarts, files, world
<1>2. l \in Roster(phase) /\ Deliberation!Owed(phase, l) /\ phase \in Phases
      BY <1>1, RouteIsOwed DEF PInv, TypeOK
<1>3. at \notin {"off", "cleared", "packet"}
      BY <1>1, OutWhere DEF NoneOut
<1>4. Deliberation!GoesOn
      BY <1>1, <1>3 DEF Going, Deliberation!GoesOn
<1>5. Deliberation!Due(phase)
      BY <1>2, SameRounds DEF Deliberation!Due, PInv, Founded
<1>6. calls[phase][l] < MaxAttempts
      BY <1>1, <1>2 DEF PInv, TypeOK, Counted
<1>7. \A k \in Route : job'[k] = IF k = l THEN "launching" ELSE job[k]
      BY <1>1 DEF PInv, TypeOK
<1>8. AboutToCall' = AboutToCall \cup {<<phase, l>>}
      BY <1>1, <1>7 DEF AboutToCall
<1>9. AboutToAnswer' = AboutToAnswer
      BY <1>1, <1>3 DEF AboutToAnswer
<1>10. Deliberation!ToCall(phase, l)
      BY <1>1, <1>2, <1>3, <1>4, <1>5, <1>6, <1>8, <1>9
      DEF Deliberation!ToCall, Deliberation!done
<1>11. Keeps
      BY <1>2, <1>10, SameRounds DEF Keeps, Deliberation!Next
<1>12. Going'
      BY <1>1, <1>7 DEF Going
<1>13. QED  BY <1>11, <1>12

\* It is made, of a child process only while no cancellation is noticed.
LEMMA CallKeeps ==
    ASSUME PInv, Going, NEW l \in Route, LaneCalls(l)
    PROVE  Keeps /\ Going'
<1>1. /\ job[l] = "launching" /\ (l \in Supervised => ~cancelRequested)
      /\ job' = [job EXCEPT ![l] = "calling"]
      /\ calls' = [calls EXCEPT ![phase][l] = @ + 1]
      /\ UNCHANGED <<status, cancelRequested, accepted, skipped, packet, result, at, phase,
                     cur, got>>
      BY DEF LaneCalls, files
<1>2. l \in Roster(phase) /\ phase \in Phases
      BY <1>1, RouteIsOwed DEF PInv, TypeOK
<1>3. at \notin {"off", "cleared", "packet"}
      BY <1>1, OutWhere DEF NoneOut
<1>4. \A k \in Route : job'[k] = IF k = l THEN "calling" ELSE job[k]
      BY <1>1 DEF PInv, TypeOK
<1>5. <<phase, l>> \in AboutToCall /\ AboutToCall' = AboutToCall \ {<<phase, l>>}
      BY <1>1, <1>4 DEF AboutToCall
<1>6. AboutToAnswer' = AboutToAnswer
      BY <1>1, <1>3 DEF AboutToAnswer
<1>7. Deliberation!Call(phase, l)
      BY <1>1, <1>3, <1>5, <1>6 DEF Deliberation!Call
<1>8. Keeps
      BY <1>2, <1>7, SameRounds DEF Keeps, Deliberation!Next
<1>9. \A k \in Route : calls'[phase][k] >= calls[phase][k] /\ calls[phase][k] \in Nat
                       /\ calls'[phase][l] > 0
      BY <1>1, <1>2 DEF PInv, TypeOK
<1>10. Going'
      BY <1>1, <1>4, <1>9 DEF Going
<1>11. QED  BY <1>8, <1>10

\* A step of a lane's thread, of time, of whoever cancels, and a kill.
LEMMA OtherKeeps ==
    ASSUME PInv, Going,
           \/ Resume \/ \E l \in Route : LaneThread(l)
           \/ Clock \/ RequestCancel \/ CancelEnds \/ Kill \/ UNCHANGED vars
    PROVE  Keeps /\ Going'
<1>1. ASSUME NEW l \in Route, LaneRefused(l) \/ LaneReturns(l) PROVE Keeps /\ Going'
  <2>0. PICK o : got' = [got EXCEPT ![l] = o] /\ job' = [job EXCEPT ![l] = "returned"]
        BY <1>1 DEF LaneRefused, LaneReturns
  <2>1. /\ UNCHANGED <<status, cancelRequested, calls, accepted, skipped, packet, result,
                       at, phase>>
        /\ \A k \in Route \ {l} : job'[k] = job[k] /\ got'[k] = got[k]
        /\ job'[l] = "returned"
        /\ got' = [k \in Route |-> got'[k]]
        BY <1>1, <2>0 DEF LaneRefused, LaneReturns, files, world, PInv, TypeOK, Going
  <2>2. ASSUME NEW a, got'[l] = <<"answer", a>>
        PROVE  calls[phase][l] > 0
    <3>1. CASE LaneRefused(l)
          \* A refusal is no answer.
      <4>1. got' = [got EXCEPT ![l] = <<"cancelled">>]
            BY <3>1 DEF LaneRefused
      <4>2. got'[l] = <<"cancelled">>
            BY <4>1 DEF Going
      <4>3. QED  BY <2>2, <4>2
    <3>2. CASE LaneReturns(l)
          \* Nor is an attempt that was not started.
      <4>1. PICK x \in Outcomes[phase] :
                got' = [got EXCEPT ![l] = x.got]
                /\ (job[l] = "launching" => x.got = <<"broken">>)
            BY <3>2 DEF LaneReturns
      <4>2. x.got = <<"answer", a>>
            BY <2>2, <4>1 DEF Going
      <4>3. job[l] = "calling"
            BY <3>2, <4>1, <4>2 DEF LaneReturns
      <4>4. QED  BY <4>3 DEF Going
    <3>3. QED  BY <1>1, <3>1, <3>2
  <2>3. job[l] \in {"started", "launching", "calling"}
        BY <1>1 DEF LaneRefused, LaneReturns
  <2>4. at' \notin {"cleared", "packet"}
        BY <2>1, <2>3, OutWhere DEF NoneOut
  <2>5. NothingNew
        BY <2>1, <2>4 DEF NothingNew
  <2>6. QED  BY <2>1, <2>2, <2>5, Inward DEF Going
<1>2. CASE Resume
      BY <1>2, MoveKeeps DEF Resume, To, files, world
<1>3. CASE Clock \/ UNCHANGED vars
  <2>1. UNCHANGED <<status, cancelRequested, calls, accepted, skipped, packet, result, at,
                    phase, cur, job, got>>
        BY <1>3 DEF Clock, RetryComesDue, IntervalPasses, PacingComesDue, vars, files,
                    session, world
  <2>2. NothingNew
        BY <2>1 DEF NothingNew
  <2>3. QED  BY <2>1, <2>2, Inward DEF Going
<1>4. ASSUME RequestCancel \/ CancelEnds
      PROVE  UNCHANGED <<calls, accepted, skipped, packet, result, at, phase, cur, job, got>>
      BY <1>4 DEF RequestCancel, CancelEnds, files, session, world
<1>5. CASE RequestCancel
  <2>1. UNCHANGED <<AboutToCall, AboutToAnswer, at>>
        BY <1>4, <1>5 DEF AboutToCall, AboutToAnswer
  <2>2. Deliberation!RequestCancellation
        BY <1>4, <1>5, <2>1
        DEF RequestCancel, Deliberation!RequestCancellation, Deliberation!done,
            Deliberation!decided
  <2>3. QED  BY <1>4, <1>5, <2>2 DEF RequestCancel, Keeps, Deliberation!Next, Going
<1>6. CASE CancelEnds
  <2>1. NothingNew
        BY <1>4, <1>6 DEF NothingNew
  <2>2. Deliberation!Cancel
        BY <1>4, <1>6, <2>1, Forgetting DEF CancelEnds, Deliberation!Cancel, Deliberation!done
  <2>3. QED  BY <1>4, <1>6, <2>2 DEF CancelEnds, Keeps, Deliberation!Next, Going
<1>7. CASE Kill
  <2>1. Drop("off") /\ status \in {"active", "Cancelled", "Failed", "Decided"}
        BY <1>7 DEF Kill, Going
  <2>2. UNCHANGED <<status, cancelRequested, calls, accepted, skipped, packet, result>>
        BY <1>7 DEF Kill, files
  <2>3. QED  BY <2>1, <2>2, Inward, GoneKeeps
<1>8. QED
      BY <1>1, <1>2, <1>3, <1>5, <1>6, <1>7, StartKeeps, CallKeeps DEF LaneThread

\* However its sessions are interleaved with kills, retries, waits and a
\* cancellation, a run is a deliberation: calls within the budget and in the order
\* of the rounds, answers that stand, no result after a cancellation and nothing
\* after a failure.  A cancellation is followed by nothing else that had not been
\* decided on before it, except for the note that the second round is unnecessary
\* (advance, accept_or_retry_lane, run_attempt).
THEOREM RunDeliberates == Spec => DeliberationSpec
<1>1. Init => Deliberation!Init /\ Going
  <2>1. Init => AboutToCall = {} /\ AboutToAnswer = {}
        BY DEF Init, AboutToCall, AboutToAnswer
  <2>2. QED
        BY <2>1 DEF Init, PerRoute, Deliberation!Init, Deliberation!PerRoute,
                    Deliberation!Rounds, Going
<1>2. PInv /\ Going /\ [Next]_vars => [Deliberation!Next]_(Deliberation!vars) /\ Going'
      BY ThreadKeeps, OtherKeeps DEF Next, Progress, Keeps
<1>3. QED
      BY <1>1, <1>2, Invariant, PTL DEF Spec, DeliberationSpec, Deliberation!Spec
=============================================================================
