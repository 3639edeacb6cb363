---------------------------- MODULE Deliberation ----------------------------
(***************************************************************************)
(* What a run promises those who pay for its calls and those who read its  *)
(* answers: no sessions, attempts, waits, kills or files, only what is     *)
(* asked, answered and merged, one thing at a time.                        *)
(*                                                                         *)
(* Lanes are asked a bounded number of times in a round, and only for      *)
(* answers that are still owed; an answer stands once it is given; a round *)
(* begins on all answers of the one before it, the second on the dispute   *)
(* among the first; nothing follows a failure or a result.                 *)
(*                                                                         *)
(* Whether a run goes on is asked before a thing is decided on, and not    *)
(* again before it is done.  So a cancellation is followed by nothing but  *)
(* what was decided on before it: a call of each route that was about to   *)
(* make one, one answer, one packet; and by the note that the second round *)
(* is unnecessary.  No result follows it.                                  *)
(***************************************************************************)
EXTENDS Naturals

CONSTANTS
    Lane,               \* who answers in R1 and R2
    Counterpart,        \* who answers in R3
    Answers,            \* the valid answers there are in each round
    NoAnswer,
    MaxCalls,           \* calls of one route in one round
    Supervised,         \* routes that are asked once more when they call
    Disputes(_),        \* the lanes whose first answers are contested
    Merged(_, _, _)     \* the verdict of both arbiters over the earlier rounds

VARIABLES
    status,             \* "active", or how the run ended
    cancelRequested,
    calls,              \* by round and route
    accepted,           \* by round and route
    skipped,            \* the second round was found unnecessary
    packet,             \* the lanes the second round is about
    result,
    \* what is decided on, and not done yet
    toCall,             \* calls, by round and route
    toAnswer,           \* the answer that is taken
    quoting             \* the packet is made

done == <<calls, accepted, skipped, packet, result>>
decided == <<toCall, toAnswer, quoting>>
vars == <<status, cancelRequested, done, decided>>

Rounds == {"R1", "R2", "R3"}
Roster(ph) == IF ph = "R3" THEN {Counterpart} ELSE Lane

PerRoute(x) == [ph \in Rounds |-> [l \in Lane \cup {Counterpart} |-> x]]

Init ==
    /\ status = "active"
    /\ cancelRequested = FALSE
    /\ calls = PerRoute(0)
    /\ accepted = PerRoute(NoAnswer)
    /\ skipped = FALSE
    /\ packet = {}
    /\ result = NoAnswer
    /\ toCall = {}
    /\ toAnswer = {}
    /\ quoting = FALSE

Answered(ph) == \A l \in Roster(ph) : accepted[ph][l] # NoAnswer

Dispute == Disputes([l \in Lane |-> accepted["R1"][l]])

\* The second round is unnecessary, or over.
Settled == skipped \/ (packet # {} /\ Answered("R2"))

\* The rounds before this one are over.
Due(ph) ==
    /\ ph # "R1" => Answered("R1")
    /\ ph = "R2" => packet # {}
    /\ ph = "R3" => Settled

GoesOn == status = "active" /\ ~cancelRequested

Owed(ph, l) == l \in Roster(ph) /\ accepted[ph][l] = NoAnswer

NothingDecided == toCall = {} /\ toAnswer = {} /\ ~quoting

\* A route is to be called ...
ToCall(ph, l) ==
    /\ GoesOn
    /\ Due(ph)
    /\ Owed(ph, l)
    /\ calls[ph][l] < MaxCalls
    /\ toCall' = toCall \cup {<<ph, l>>}
    /\ UNCHANGED <<status, cancelRequested, done, toAnswer, quoting>>

\* ... and is.
Call(ph, l) ==
    /\ <<ph, l>> \in toCall
    /\ l \in Supervised => ~cancelRequested
    /\ toCall' = toCall \ {<<ph, l>>}
    /\ calls' = [calls EXCEPT ![ph][l] = @ + 1]
    /\ UNCHANGED <<status, cancelRequested, accepted, skipped, packet, result, toAnswer,
                   quoting>>

\* The answer of a route that was called is to be taken ...
ToAnswer(ph, l) ==
    /\ GoesOn
    /\ Owed(ph, l)
    /\ calls[ph][l] > 0
    /\ <<ph, l>> \notin toCall
    /\ toAnswer = {}
    /\ toAnswer' = {<<ph, l>>}
    /\ UNCHANGED <<status, cancelRequested, done, toCall, quoting>>

\* ... and is, once.
Answer(ph, l) ==
    /\ <<ph, l>> \in toAnswer
    /\ toAnswer' = {}
    /\ \E a \in Answers[ph] : accepted' = [accepted EXCEPT ![ph][l] = a]
    /\ UNCHANGED <<status, cancelRequested, calls, skipped, packet, result, toCall, quoting>>

Undecided == Answered("R1") /\ ~skipped /\ packet = {}

\* Whether the run goes on is not asked.
Skip ==
    /\ status \in {"active", "Cancelled"}
    /\ Undecided
    /\ Dispute = {}
    /\ skipped' = TRUE
    /\ UNCHANGED <<status, cancelRequested, calls, accepted, packet, result, decided>>

ToQuote ==
    /\ GoesOn
    /\ Undecided
    /\ Dispute # {}
    /\ quoting' = TRUE
    /\ UNCHANGED <<status, cancelRequested, done, toCall, toAnswer>>

Quote ==
    /\ quoting
    /\ quoting' = FALSE
    /\ packet' = Dispute
    /\ UNCHANGED <<status, cancelRequested, calls, accepted, skipped, result, toCall,
                   toAnswer>>

\* What was decided on may come to nothing.
Forget ==
    /\ toCall' \subseteq toCall
    /\ toAnswer' \subseteq toAnswer
    /\ quoting' \in {quoting, FALSE}

Drop ==
    /\ Forget
    /\ UNCHANGED <<status, cancelRequested, done>>

\* What was said in the rounds that took place.
Said ==
    {accepted["R1"][l] : l \in Lane}
    \cup (IF skipped THEN {} ELSE {accepted["R2"][l] : l \in Lane})

Decide ==
    /\ GoesOn /\ NothingDecided
    /\ result = NoAnswer
    /\ Answered("R1") /\ Settled /\ Answered("R3")
    /\ \E primary \in Answers["R3"] :
           result' = [merged |-> Merged(primary, accepted["R3"][Counterpart], Said),
                      primary |-> primary]
    /\ status' = "Decided"
    /\ UNCHANGED <<cancelRequested, calls, accepted, skipped, packet, decided>>

Fail ==
    /\ GoesOn /\ NothingDecided
    /\ status' = "Failed"
    /\ UNCHANGED <<cancelRequested, done, decided>>

RequestCancellation ==
    /\ status = "active"
    /\ cancelRequested' = TRUE
    /\ UNCHANGED <<status, done, decided>>

Cancel ==
    /\ status = "active"
    /\ cancelRequested
    /\ status' = "Cancelled"
    /\ Forget
    /\ UNCHANGED <<cancelRequested, done>>

Next ==
    \/ \E ph \in Rounds : \E l \in Roster(ph) :
           ToCall(ph, l) \/ Call(ph, l) \/ ToAnswer(ph, l) \/ Answer(ph, l)
    \/ Skip \/ ToQuote \/ Quote \/ Drop
    \/ Decide \/ Fail
    \/ RequestCancellation \/ Cancel

Spec == Init /\ [][Next]_vars
=============================================================================
