----------------------------- MODULE LaneAnswer -----------------------------
(***************************************************************************)
(* Which part of an attempt's output is the lane's answer, and whether an  *)
(* output without one is worth another attempt (src/adapters.rs).  What a  *)
(* provider writes is a text of pieces: prose, objects, objects it did not *)
(* finish, each of them bare or in a Markdown fence.  Characters are left  *)
(* out: a piece is what the parsers make of it.                            *)
(***************************************************************************)
EXTENDS Naturals, Sequences, SequencesExt

CONSTANTS
    Carrier,     \* the output kinds there are routes for
    MaxPieces    \* bound: pieces of a text

ASSUME CarrierAssumption ==
    /\ Carrier \subseteq {"direct", "envelope", "codewhale", "chat", "events"}
    /\ MaxPieces \in Nat

-----------------------------------------------------------------------------
(* Pieces, by what is found out of them.                                   *)

\* An "answer" satisfies the contract after the coercion of its shape; the
\* keys of an "unquoted" one have to be repaired before.
Readable == {"answer", "unquoted"}

\* Objects with keys of an answer that were cut off, some of them after an inner
\* object: enough keys are there to tell the shape of an answer, or not.
Cuts == {"cut", "nested cut"}
EarlyCuts == {"early cut", "nested early cut"}

\* Objects with keys of an answer.  A "wrong" one violates the schema, a
\* "garbled" one is not JSON, an "example" only mentions a key.
Keyed == {"answer", "wrong", "garbled", "example"} \cup Cuts \cup EarlyCuts

\* What lane_output_mask_is_shaped holds for.
LaneShaped == {"answer", "wrong", "garbled"} \cup Cuts

\* Objects cut off in their first key, which is the one of the version
\* ("prefix") or another one ("stub"), or before it.
Stubs == {"prefix", "stub", "brace"}

Unclosed == Cuts \cup EarlyCuts \cup Stubs

\* A "note" has braces and is no JSON.
Braced == Keyed \cup Stubs \cup {"unquoted", "note"}

WithClosingBrace == Braced \ (Stubs \cup {"cut", "early cut"})

Json == {"answer", "wrong", "example"}

Piece ==
    [is : Braced \cup {"prose"}, fenced : BOOLEAN] \ {[is |-> "prose", fenced |-> TRUE]}

\* What is cut off ends its text.
Text(n) ==
    {t \in BoundedSeq(Piece, n) : \A i \in 1..Len(t) : t[i].is \in Unclosed => i = Len(t)}

-----------------------------------------------------------------------------
(* Places in a text: one at most, none if nothing is found.                *)

Places(t, kinds) == {i \in 1..Len(t) : t[i].is \in kinds}
Fences(t) == {i \in 1..Len(t) : t[i].fenced}

FirstOf(places) == {i \in places : \A j \in places : i <= j}
LastOf(places) == {i \in places : \A j \in places : j <= i}

-----------------------------------------------------------------------------
(* Extraction: the place of the accepted answer.                           *)

\* The payload is the answer and nothing else.
Whole(t) == {i \in Places(t, Readable) \ Fences(t) : Len(t) = 1}

\* From the first opening to the last closing brace.
ObjectBlock(t) ==
    FirstOf(Places(t, Braced)) \cap LastOf(Places(t, WithClosingBrace))
    \cap Places(t, Readable)

\* The last closed fence whose content is valid, whatever follows it.
FencedBlock(t) == LastOf(Places(t, Readable) \cap Fences(t))

FromText(t) == IF ObjectBlock(t) # {} THEN ObjectBlock(t) ELSE FencedBlock(t)

\* The chunks of a CodeWhale stream are one text.  Its last object with a key
\* has to be the answer, and no fence and no stub of a key may follow it.
FromCodeWhale(t) ==
    {i \in LastOf(Places(t, Keyed)) \cap Places(t, {"answer"}) :
        \A j \in Fences(t) \cup Places(t, {"prefix"}) : j <= i}

\* Mutated: the last object that is valid.
LastReadable(t) == LastOf(Places(t, Readable))

\* The last candidate of a text event: an object cut off before it has the shape
\* of an answer is none, unless it was cut off in the key of the version.  Unquoted
\* keys are looked for when there is no other one.
Candidate(t) ==
    LET shaped == Places(t, LaneShaped \cup {"prefix"})
    IN  IF shaped # {} THEN LastOf(shaped) ELSE FirstOf(Places(t, {"unquoted"}))

\* Repaired keys leave nothing behind them in the event.
AcceptedCandidate(t) ==
    {i \in Candidate(t) :
        \/ t[i].is = "answer"
        \/ t[i].is = "unquoted" /\ i = Len(t) /\ i \notin Fences(t)}

\* An output is a text; of a stream of events, what an earlier event says and
\* what the last one says.  The last event with a candidate decides.
Content(s) == s.earlier \o s.text

FromEvents(s) ==
    IF Candidate(s.text) = {} THEN AcceptedCandidate(s.earlier)
    ELSE {Len(s.earlier) + i : i \in AcceptedCandidate(s.text)}

Accepted(s) ==
    CASE s.carrier \in {"direct", "envelope"} -> Whole(Content(s))
      [] s.carrier = "chat" -> FromText(Content(s))
      [] s.carrier = "codewhale" -> FromCodeWhale(Content(s))
      [] s.carrier = "events" -> FromEvents(s)

\* The same for a verdict of an arbiter, where the last object that is valid is
\* taken: a draft may be.
VerdictFromEvents(s) ==
    IF ObjectBlock(s.text) = {} THEN ObjectBlock(s.earlier)
    ELSE {Len(s.earlier) + i : i \in ObjectBlock(s.text)}

AcceptedVerdict(s) ==
    CASE s.carrier \in {"direct", "envelope"} -> Whole(Content(s))
      [] s.carrier \in {"chat", "codewhale"} -> FromText(Content(s))
      [] s.carrier = "events" -> VerdictFromEvents(s)

-----------------------------------------------------------------------------
(* An output without an answer.                                            *)

\* An object nobody finished: the last one with a key, or the stub of a key.
Unresolved(t) ==
    LET cut == LastOf(Places(t, Keyed)) \cap Places(t, Cuts \cup EarlyCuts)
    IN  IF cut # {} THEN cut ELSE LastOf(Places(t, {"prefix"}))

\* Mutated: a fence decides wherever it stands.
LastFence(t) == LastOf(Fences(t))

\* A fence decides unless the unfinished object begins after it.
DecidingFence(t) == {f \in LastOf(Fences(t)) : \A i \in Unresolved(t) : f > i}

UnusableFinal(t) ==
    IF DecidingFence(t) # {} THEN \E f \in DecidingFence(t) : t[f].is \notin Json
    ELSE \/ Unresolved(t) # {}
         \/ LastOf(Places(t, Keyed)) \cap Places(t, {"garbled"}) # {}
         \/ Places(t, Keyed) = {} /\ Places(t, {"brace", "stub"}) # {}

\* Something a CodeWhale stream may have meant as its answer.
HasCandidate(t) == Fences(t) \cup Places(t, Keyed \cup {"prefix", "stub"}) # {}

\* A stream the provider ended in order without a usable final part.
Unusable(s) ==
    LET t == Content(s)
    IN  CASE s.carrier \in {"direct", "chat"} -> FALSE
          [] s.carrier = "envelope" -> Places(t, Braced) = {} \/ UnusableFinal(t)
          [] s.carrier = "codewhale" -> s.ended /\ (~HasCandidate(t) \/ UnusableFinal(t))
          [] s.carrier = "events" ->
                 s.ended /\ (Places(t, Braced) = {} \/ UnusableFinal(t))

-----------------------------------------------------------------------------
(* The outputs there may be: one text, or two events of which the first is *)
(* not cut off.                                                            *)
Outputs ==
    [carrier : Carrier \ {"events"}, earlier : {<<>>}, text : Text(MaxPieces),
     ended : BOOLEAN]
    \cup [carrier : Carrier \cap {"events"},
          earlier : {t \in Text(MaxPieces - 1) : Places(t, Unclosed) = {}},
          text : Text(MaxPieces - 1),
          ended : BOOLEAN]

-----------------------------------------------------------------------------
(* What the parsers promise of every output.                               *)

\* What the parser of a stream knows as an object that may be meant as the answer,
\* finished or not.  Of a text event that is less than of a CodeWhale stream: an
\* object cut off early is overlooked there.
Recognised(s) ==
    IF s.carrier = "codewhale" THEN Keyed \cup {"prefix"} ELSE LaneShaped \cup {"prefix"}

\* Of a stream, an older draft is not accepted when a recognised object comes
\* after it, finished or not, valid or not.
LastCandidateDecides ==
    \A s \in Outputs :
        s.carrier \in {"codewhale", "events"}
        => \A i \in Accepted(s), j \in Places(Content(s), Recognised(s)) : j <= i

\* What the last recognised object of a stream is: nothing to hold against an
\* answer ("fit"), no answer ("unfit"), or an answer that was cut off ("cut").
LastIs(s) ==
    LET places == LastOf(Places(Content(s), Recognised(s) \cup {"unquoted"}))
        Is(kinds) ==
            s.carrier \in {"codewhale", "events"}
            /\ \E i \in places : Content(s)[i].is \in kinds
    IN  CASE Is(Unclosed) -> "cut"
          [] Is({"wrong", "garbled", "example"}) -> "unfit"
          [] OTHER -> "fit"

\* Such a stream is not accepted, and one that ended in order and was cut off is
\* found out, whatever stands before the end and with a fence around it or not.
TruncationIsNoticed ==
    \A s \in Outputs :
        /\ LastIs(s) # "fit" => Accepted(s) = {}
        /\ LastIs(s) = "cut" /\ s.ended => Unusable(s)
=============================================================================
