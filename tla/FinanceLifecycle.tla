-------------------------- MODULE FinanceLifecycle --------------------------
(***************************************************************************)
(* A finance review on disk (src/finance.rs): finance-init publishes its   *)
(* state directory, finance-advance takes it from one status to the next   *)
(* through a journal (pending-transition.json), and schools and arbiters,  *)
(* whoever runs them, leave their outputs in it.  Commands of any number   *)
(* of processes exclude each other by a lock file; one may be killed       *)
(* between any two of its durable writes.                                  *)
(*                                                                         *)
(* A digest stands for what it is taken of: a manifest's checkpoint, the   *)
(* digest of the last line of a hash chain, is the chain; an output's      *)
(* packet digest is the packet.  The inputs and the R1 packets made of     *)
(* them never change, so they are in no binding here; a file that does not *)
(* parse is like one that is not there.                                    *)
(***************************************************************************)
EXTENDS FinanceFold, Sequences, FiniteSets

CONSTANTS
    Proc,          \* processes that run commands
    Arbiter,       \* the restricted arbiters
    Inputs,        \* the pinned inputs there may be
    Answers,       \* the answers each school may give
    MaxKills,      \* bound: commands killed
    MaxRewrites,   \* bound: outputs rewritten
    Nothing,       \* no file, no value
    NoProc

ASSUME LifecycleAssumption ==
    /\ Inputs \subseteq Input
    /\ Answers \in [School -> SUBSET Answer]
    /\ NoProc \notin Proc
    /\ MaxKills \in Nat
    /\ MaxRewrites \in Nat

VARIABLES
    in,         \* the pinned input, input/
    manifest,   \* manifest.json: its facts and its event checkpoint
    ledger,     \* events.jsonl, its complete lines
    torn,       \* a partial line follows them
    pending,    \* pending-transition.json
    packets,    \* packets/r2
    r1out,      \* outputs/r1
    r2out,      \* outputs/r2: an answer and the packet it answers
    verdict,    \* outputs/arbiters
    terminal,   \* the terminal bundle in the state directory
    bundle,     \* the bundle finance-finalize was asked for elsewhere
    lock,       \* who holds the lifecycle lock
    at,         \* where a command stands
    got,        \* the outputs it has read
    goal,       \* the facts it takes the review to
    journal,    \* the transition it makes or completes
    kills,
    rewrites

state == <<in, manifest, ledger, torn, pending, packets, terminal>>
outputs == <<r1out, r2out, verdict>>
commands == <<lock, at, got, goal, journal>>
vars == <<state, outputs, bundle, commands, kills, rewrites>>

\* What a manifest says besides its checkpoint, and an event of its artifacts.
Facts(s, r1, r2, result) == [status |-> s, r1 |-> r1, r2 |-> r2, result |-> result]

Created == Facts("R1Running", Nothing, Nothing, Nothing)

Status == IF manifest = Nothing THEN Nothing ELSE manifest.facts.status

\* What the files hold when they are there, of outputs the complete sets.
R1Set == [School -> Answer]
Packet == [recipient : School, sources : R1Set]
R2Set == [School -> [answer : Answer, packet : Packet]]
Verdict == [r1 : R1Set, r2 : R2Set]
FinalBundle == [r1 : R1Set, r2 : R2Set, verdict : [Arbiter -> Verdict], result : Results]
Statuses == {"R1Running", "R2Running", "Merging", "Completed"}
Fact ==
    [status : Statuses,
     r1 : R1Set \cup {Nothing}, r2 : R2Set \cup {Nothing}, result : Results \cup {Nothing}]
Manifest == [facts : Fact, checkpoint : Seq(Fact)]
Transition == [old : Manifest, target : Manifest]

ASSUME NothingAssumption ==
    Nothing \notin Packet \cup Manifest \cup Transition \cup FinalBundle \cup Statuses

Init ==
    /\ in = Nothing
    /\ manifest = Nothing
    /\ ledger = <<>>
    /\ torn = FALSE
    /\ pending = Nothing
    /\ packets = [s \in School |-> Nothing]
    /\ r1out = [s \in School |-> Nothing]
    /\ r2out = [s \in School |-> Nothing]
    /\ verdict = [w \in Arbiter |-> Nothing]
    /\ terminal = Nothing
    /\ bundle = Nothing
    /\ lock = NoProc
    /\ at = [p \in Proc |-> "idle"]
    /\ got = [p \in Proc |-> Nothing]
    /\ goal = [p \in Proc |-> Nothing]
    /\ journal = [p \in Proc |-> Nothing]
    /\ kills = 0
    /\ rewrites = 0

-----------------------------------------------------------------------------
(* What belongs together.                                                  *)

\* Every slot is filled, one output of each school.
Complete(files) == \A k \in DOMAIN files : files[k] # Nothing

Said(files) == [s \in School |-> files[s].answer]

\* A packet is its recipient's, and of one set of R1 outputs.
R2Packet(s, r1) == [recipient |-> s, sources |-> r1]

R2Packets(r1) == [s \in School |-> R2Packet(s, r1)]

AnswersPacket(out, packet) == out.packet = packet

Admitted(answers) == \A s \in School : Cites(in, answers[s])

\* A verdict names its input, both sets and the admitted evidence.
Binds(v, r1, r2) == v = [r1 |-> r1, r2 |-> r2]

AcceptableR1(r1) == Complete(r1) /\ Admitted(r1)

AcceptableR2(r1, r2, v) ==
    /\ Complete(r2) /\ Complete(v)
    /\ Admitted(Said(r2))
    /\ \A w \in Arbiter : Binds(v[w], r1, r2)

\* Mutated: an R2 output is not compared with its packet.
ConsistentUnbound(r1, r2, v) ==
    /\ AcceptableR1(r1)
    /\ AcceptableR2(r1, r2, v)
    /\ Folds(r1, Said(r2))

\* Outputs finalize_bundle makes a bundle of: the R2 packets are made again of
\* the R1 set, each R2 output has to answer its own, and the fold must succeed.
Consistent(r1, r2, v) ==
    /\ AcceptableR1(r1)
    /\ AcceptableR2(r1, r2, v)
    /\ \A s \in School : AnswersPacket(r2[s], R2Packet(s, r1))
    /\ Folds(r1, Said(r2))

Bundle(r1, r2, v) ==
    [r1 |-> r1, r2 |-> r2, verdict |-> v, result |-> Result(in, r1, Said(r2))]

\* finance-verify: a bundle is made again of what is in it.
Verified(b) ==
    Consistent(b.r1, b.r2, b.verdict) /\ b = Bundle(b.r1, b.r2, b.verdict)

-----------------------------------------------------------------------------
(* The checks of a state directory.                                        *)

LegalTransition(old, new) ==
    <<old, new>> \in {<<"R1Running", "R2Running">>, <<"R2Running", "Merging">>,
                      <<"Merging", "Completed">>}

\* The artifacts facts bind are on disk: in the terminal bundle once there is
\* one to bind (validate_state_artifacts).
Artifacts(f) ==
    CASE f.status = "R1Running" -> TRUE
      [] f.status = "R2Running" -> r1out = f.r1 /\ packets = R2Packets(f.r1)
      [] OTHER -> /\ terminal # Nothing
                  /\ terminal.r1 = f.r1
                  /\ terminal.r2 = f.r2
                  /\ f.result \in {Nothing, terminal.result}

\* The status tells which artifacts are bound.
Counts(f) ==
    /\ f.r1 = Nothing <=> f.status = "R1Running"
    /\ f.r2 = Nothing <=> f.status \in {"R1Running", "R2Running"}
    /\ f.result = Nothing <=> f.status # "Completed"

\* The bound R1 outputs are acceptable still, and so are the R2 packets made of
\* them, in the state directory or in its bundle.
R1Rebuilt(f) ==
    f.status # "R1Running" => AcceptableR1(f.r1)

PacketsRebuilt(f) ==
    f.status = "R2Running" => packets = R2Packets(f.r1)

R2Rebuilt(f) ==
    f.status = "Merging" =>
        /\ AcceptableR2(terminal.r1, terminal.r2, terminal.verdict)
        /\ \A s \in School : AnswersPacket(terminal.r2[s], R2Packet(s, terminal.r1))

TerminalRebuilt(f) ==
    f.status = "Completed" => f.result = Result(in, f.r1, Said(f.r2))

\* An event is appended for every manifest, and what it says is the tail of the
\* chain the manifest's checkpoint is a digest of.
Follows(m, f) == [facts |-> f, checkpoint |-> Append(m.checkpoint, f)]

\* A ledger with a partial line is not read at all.
WholeLines == ~torn

CheckpointHolds(m) == WholeLines /\ ledger = m.checkpoint

\* The events that lead to facts: a ledger is determined by its manifest.
Chain(f) ==
    LET r2 == Facts("R2Running", f.r1, Nothing, Nothing)
        merging == Facts("Merging", f.r1, f.r2, Nothing)
    IN  CASE f.status = "R1Running" -> <<f>>
          [] f.status = "R2Running" -> <<Created, f>>
          [] f.status = "Merging" -> <<Created, r2, f>>
          [] f.status = "Completed" -> <<Created, r2, merging, f>>

LedgerExpected(m) == ledger = Chain(m.facts) /\ CheckpointHolds(m)

GraphValid ==
    /\ Counts(manifest.facts)
    /\ Artifacts(manifest.facts)
    /\ R1Rebuilt(manifest.facts)
    /\ PacketsRebuilt(manifest.facts)
    /\ R2Rebuilt(manifest.facts)
    /\ TerminalRebuilt(manifest.facts)
    /\ LedgerExpected(manifest)

-----------------------------------------------------------------------------
(* Commands.                                                               *)

At(p, loc) == at[p] = loc

To(p, loc) == at' = [at EXCEPT ![p] = loc]

\* The command returns and drops the lock, with an error or without.
End(p) ==
    /\ lock' = NoProc
    /\ To(p, "idle")
    /\ got' = [got EXCEPT ![p] = Nothing]
    /\ goal' = [goal EXCEPT ![p] = Nothing]
    /\ journal' = [journal EXCEPT ![p] = Nothing]

\* dormant_init works in a directory of its own and renames it: a kill before
\* leaves nothing anybody looks at.
Create(p) ==
    /\ at[p] = "idle"
    /\ lock = NoProc
    /\ manifest = Nothing
    /\ in' \in Inputs
    /\ manifest' = [facts |-> Created, checkpoint |-> <<Created>>]
    /\ ledger' = <<Created>>
    /\ UNCHANGED <<torn, pending, packets, terminal, outputs, bundle, commands,
                   kills, rewrites>>

\* finance-advance, and finance-init for a state that exists.
Begin(p) ==
    /\ at[p] = "idle"
    /\ lock = NoProc
    /\ manifest # Nothing
    /\ lock' = p
    /\ To(p, "reconcile")
    /\ UNCHANGED <<state, outputs, bundle, got, goal, journal, kills, rewrites>>

\* The event of the journal leads from the old manifest to the target.
EventFits ==
    /\ pending.target = Follows(pending.old, pending.target.facts)
    /\ LegalTransition(pending.old.facts.status, pending.target.facts.status)

\* The comparisons of validate_pending and reconcile_pending.
Reconcilable ==
    /\ EventFits
    /\ Artifacts(pending.target.facts)
    /\ manifest \in {pending.old, pending.target}
    /\ WholeLines
    /\ ledger \in {pending.old.checkpoint, pending.target.checkpoint}
    /\ manifest = pending.target => ledger = pending.target.checkpoint
    /\ manifest = pending.old => Artifacts(pending.old.facts)

\* Mutated: a transition whose event is there is taken for done.
ReplayFromLedger ==
    IF ledger = pending.target.checkpoint THEN "clear" ELSE "append"

\* Where the journal is taken up.
ReplayFrom ==
    IF manifest = pending.target THEN "clear"
    ELSE IF ledger = pending.target.checkpoint THEN "install" ELSE "append"

Reconcile(p) ==
    /\ At(p, "reconcile")
    /\ IF pending = Nothing
       THEN To(p, "examine") /\ UNCHANGED <<lock, got, goal, journal>>
       ELSE IF Reconcilable
            THEN /\ To(p, ReplayFrom)
                 /\ journal' = [journal EXCEPT ![p] = pending]
                 /\ UNCHANGED <<lock, got, goal>>
            ELSE End(p)
    /\ UNCHANGED <<state, outputs, bundle, kills, rewrites>>

\* finance-init of a state that exists returns, with an error if its source
\* differs from what was pinned or the graph is not valid.
InitReturns(p) ==
    /\ At(p, "examine")
    /\ End(p)
    /\ UNCHANGED <<state, outputs, bundle, kills, rewrites>>

\* finance-advance goes on from r1_running and r2_running only.
Examine(p) ==
    /\ At(p, "examine")
    /\ IF GraphValid /\ Status \in {"R1Running", "R2Running"}
       THEN To(p, Status) /\ UNCHANGED <<lock, got, goal, journal>>
       ELSE End(p)
    /\ UNCHANGED <<state, outputs, bundle, kills, rewrites>>

CollectR1(p) ==
    /\ At(p, "R1Running")
    /\ IF AcceptableR1(r1out)
       THEN /\ got' = [got EXCEPT ![p] = r1out]
            /\ To(p, "packets")
            /\ UNCHANGED <<lock, goal, journal>>
       ELSE End(p)
    /\ UNCHANGED <<state, outputs, bundle, kills, rewrites>>

\* write_idempotent, for one packet after the other.
WritePacket(p, s) ==
    /\ At(p, "packets")
    /\ packets[s] = Nothing
    /\ packets' = [packets EXCEPT ![s] = R2Packet(s, got[p])]
    /\ UNCHANGED <<in, manifest, ledger, torn, pending, terminal, outputs, bundle,
                   commands, kills, rewrites>>

PacketsDiffer(p) ==
    /\ At(p, "packets")
    /\ \E s \in School : packets[s] \notin {Nothing, R2Packet(s, got[p])}
    /\ End(p)
    /\ UNCHANGED <<state, outputs, bundle, kills, rewrites>>

PacketsWritten(p) ==
    /\ At(p, "packets")
    /\ packets = R2Packets(got[p])
    /\ goal' = [goal EXCEPT ![p] = Facts("R2Running", got[p], Nothing, Nothing)]
    /\ To(p, "check")
    /\ UNCHANGED <<state, outputs, bundle, lock, got, journal, kills, rewrites>>

CheckR2(p) ==
    /\ At(p, "R2Running")
    /\ IF Complete(r2out) /\ \A s \in School : AnswersPacket(r2out[s], packets[s])
       THEN To(p, "mirrorR1") /\ UNCHANGED <<lock, got, goal, journal>>
       ELSE End(p)
    /\ UNCHANGED <<state, outputs, bundle, kills, rewrites>>

\* The outputs are copied to a directory of the command's own.
MirrorR1(p) ==
    /\ At(p, "mirrorR1")
    /\ got' = [got EXCEPT ![p] = r1out]
    /\ To(p, "mirrorR2")
    /\ UNCHANGED <<state, outputs, bundle, lock, goal, journal, kills, rewrites>>

MirrorR2(p) ==
    /\ At(p, "mirrorR2")
    /\ got' = [got EXCEPT ![p] = [r1 |-> @, r2 |-> r2out, verdict |-> verdict]]
    /\ To(p, "finalize")
    /\ UNCHANGED <<state, outputs, bundle, lock, goal, journal, kills, rewrites>>

\* finalize_bundle accepts the copy.  Its input has no evidence directory, so
\* it accepts none with an evidence item.
MirrorAccepted(m) ==
    /\ in.listed = {}
    /\ Consistent(m.r1, m.r2, m.verdict)

\* Mutated: there must not be one yet.
FreshBundle(b) == terminal = Nothing

\* An earlier bundle has to be the same.
SameBundle(b) == terminal \in {Nothing, b}

Finalize(p) ==
    /\ At(p, "finalize")
    /\ LET m == got[p]
           b == Bundle(m.r1, m.r2, m.verdict)
       IN  IF MirrorAccepted(m) /\ SameBundle(b) /\ Verified(b)
           THEN /\ terminal' = b
                /\ goal' = [goal EXCEPT ![p] = Facts("Merging", b.r1, b.r2, Nothing)]
                /\ To(p, "check")
                /\ UNCHANGED <<lock, got, journal>>
           ELSE End(p) /\ UNCHANGED terminal
    /\ UNCHANGED <<in, manifest, ledger, torn, pending, packets, outputs, bundle,
                   kills, rewrites>>

-----------------------------------------------------------------------------
(* transition_with_pending.                                                *)

\* Everything old and new is compared with the disk first.
Check(p) ==
    /\ At(p, "check")
    /\ IF /\ pending = Nothing
          /\ Artifacts(manifest.facts)
          /\ CheckpointHolds(manifest)
          /\ LegalTransition(Status, goal[p].status)
          /\ Artifacts(goal[p])
       THEN To(p, "journal") /\ UNCHANGED <<lock, got, goal, journal>>
       ELSE End(p)
    /\ UNCHANGED <<state, outputs, bundle, kills, rewrites>>

Journal(p) ==
    /\ At(p, "journal")
    /\ pending' = [old |-> manifest, target |-> Follows(manifest, goal[p])]
    /\ journal' = [journal EXCEPT ![p] = pending']
    /\ To(p, "append")
    /\ UNCHANGED <<in, manifest, ledger, torn, packets, terminal, outputs, bundle,
                   lock, got, goal, kills, rewrites>>

AppendEvent(p) ==
    /\ At(p, "append")
    /\ ledger' = Append(ledger, journal[p].target.facts)
    /\ To(p, "install")
    /\ UNCHANGED <<in, manifest, torn, pending, packets, terminal, outputs, bundle,
                   lock, got, goal, journal, kills, rewrites>>

Install(p) ==
    /\ At(p, "install")
    /\ manifest' = journal[p].target
    /\ To(p, "clear")
    /\ UNCHANGED <<in, ledger, torn, pending, packets, terminal, outputs, bundle,
                   lock, got, goal, journal, kills, rewrites>>

\* A reconciled command goes on, one that merges completes the review in a
\* second transition, and the others return.
Clear(p) ==
    /\ At(p, "clear")
    /\ pending' = Nothing
    /\ IF goal[p] = Nothing
       THEN /\ To(p, "examine")
            /\ journal' = [journal EXCEPT ![p] = Nothing]
            /\ UNCHANGED <<lock, got, goal>>
       ELSE IF goal[p].status = "Merging"
            THEN /\ goal' = [goal EXCEPT ![p] =
                                Facts("Completed", @.r1, @.r2, terminal.result)]
                 /\ To(p, "check")
                 /\ UNCHANGED <<lock, got, journal>>
            ELSE End(p)
    /\ UNCHANGED <<in, manifest, ledger, torn, packets, terminal, outputs, bundle,
                   kills, rewrites>>

\* A kill, or an error of a write, which ends the command as well; an append
\* may leave a part of its line.
Kill(p) ==
    /\ at[p] # "idle"
    /\ kills < MaxKills
    /\ kills' = kills + 1
    /\ End(p)
    /\ torn' \in (IF at[p] = "append" THEN BOOLEAN ELSE {torn})
    /\ UNCHANGED <<in, manifest, ledger, pending, packets, terminal, outputs, bundle,
                   rewrites>>

-----------------------------------------------------------------------------
(* Schools and arbiters.  They may rewrite what they left.                 *)

Deliver(file) ==
    /\ manifest # Nothing
    /\ file = Nothing \/ rewrites < MaxRewrites
    /\ rewrites' = IF file = Nothing THEN rewrites ELSE rewrites + 1

DeliverR1(s) ==
    /\ Deliver(r1out[s])
    /\ \E a \in Answers[s] : r1out' = [r1out EXCEPT ![s] = a]
    /\ UNCHANGED <<state, r2out, verdict, bundle, commands, kills>>

DeliverR2(s) ==
    /\ packets[s] # Nothing
    /\ Deliver(r2out[s])
    /\ \E a \in Answers[s] :
           r2out' = [r2out EXCEPT ![s] = [answer |-> a, packet |-> packets[s]]]
    /\ UNCHANGED <<state, r1out, verdict, bundle, commands, kills>>

DeliverVerdict(w) ==
    /\ Complete(r1out) /\ Complete(r2out)
    /\ Deliver(verdict[w])
    /\ verdict' = [verdict EXCEPT ![w] = [r1 |-> r1out, r2 |-> r2out]]
    /\ UNCHANGED <<state, r1out, r2out, bundle, commands, kills>>

\* finance-finalize, of a directory with these outputs and the inputs, evidence
\* included.  It takes no lock; its bundle is published by a rename as well.
FinalizeElsewhere ==
    /\ Consistent(r1out, r2out, verdict)
    /\ bundle = Nothing
    /\ bundle' = Bundle(r1out, r2out, verdict)
    /\ UNCHANGED <<state, outputs, commands, kills, rewrites>>

-----------------------------------------------------------------------------
Command(p) ==
    \/ Reconcile(p) \/ Examine(p) \/ CollectR1(p)
    \/ PacketsDiffer(p) \/ PacketsWritten(p)
    \/ CheckR2(p) \/ MirrorR1(p) \/ MirrorR2(p) \/ Finalize(p)
    \/ Check(p) \/ Journal(p) \/ AppendEvent(p) \/ Install(p) \/ Clear(p)
    \/ \E s \in School : WritePacket(p, s)

Next ==
    \/ \E p \in Proc : Create(p) \/ Begin(p) \/ Command(p) \/ InitReturns(p) \/ Kill(p)
    \/ \E s \in School : DeliverR1(s) \/ DeliverR2(s)
    \/ \E w \in Arbiter : DeliverVerdict(w)
    \/ FinalizeElsewhere

Spec == Init /\ [][Next]_vars

\* A command that was started runs on, and somebody keeps asking for an
\* advance.  Nobody has to deliver anything.
Fairness ==
    /\ WF_vars(\E p \in Proc : Create(p) \/ Begin(p))
    /\ WF_vars(\E p \in Proc : Command(p))
    /\ SF_vars(\E p \in Proc : Examine(p))

FairSpec == Spec /\ Fairness

-----------------------------------------------------------------------------
(* What the lifecycle promises.                                            *)

\* Whenever no transition is pending, the manifest's checkpoint is the tail of
\* the ledger and no partial line follows it, wherever commands were killed
\* (transition_with_pending, reconcile_pending).
JournalHolds ==
    pending = Nothing /\ manifest # Nothing => ~torn /\ ledger = manifest.checkpoint

\* One R1 set is accepted, then one R2 set, and the result is the fold of these
\* two, although outputs are rewritten under the commands (dormant_advance).
Review == INSTANCE FinanceReview WITH
    Outputs <- {r \in [School -> Answer] : \A s \in School : r[s] \in Answers[s]},
    status <- Status,
    r1 <- IF manifest = Nothing THEN Nothing ELSE manifest.facts.r1,
    r2 <- IF Status \in {"Merging", "Completed"} THEN Said(manifest.facts.r2) ELSE Nothing,
    result <- IF manifest = Nothing THEN Nothing ELSE manifest.facts.result

ReviewSpec == Review!Spec

\* A bundle never clears a school that objected in either phase and whose
\* objection accepted evidence does not close, nor publishes in spite of it, of
\* an open material residual or of an invalidation (conservative_fold, publication_posture).
BlockersKept ==
    \A b \in {terminal, bundle} \ {Nothing} :
        \A s \in Applicable : \A a \in {b.r1[s], b.r2[s].answer} :
            /\ a.says # "clear" /\ (a.closes = {} \/ ~(a.closes \subseteq in.accepted))
               => b.result.folded[s] # "clear" /\ ~Published(b.result)
            /\ a.open \/ a.invalidates => ~Published(b.result)

\* Everything a review asks for is there and belongs together.
Delivered ==
    /\ manifest # Nothing
    /\ Consistent(r1out, r2out, verdict)
    /\ packets = R2Packets(r1out)
    /\ terminal \in {Nothing, Bundle(r1out, r2out, verdict)}

\* A review without evidence to which everything was delivered is completed by
\* repeating finance-advance, whatever was killed before, unless a kill left a
\* partial line or the status merging behind (dormant_advance).
RetryCompletes ==
    <>[](Delivered /\ in.listed = {})
    => \/ <>(Status = "Completed")
       \/ <>[](kills > 0 /\ (torn \/ Status = "Merging"))

\* finance-advance creates the R2 packets and then accepts the complete R2 and
\* two arbiter artifacts before terminal publication
\* (specs/FINANCE-PROTOCOL.md:72-76).
AdvanceCompletes == <>[]Delivered => <>(Status = "Completed")
=============================================================================
