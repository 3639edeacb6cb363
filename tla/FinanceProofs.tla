---------------------------- MODULE FinanceProofs ----------------------------
(***************************************************************************)
(* What a finance review promises, for any schools, rules, inputs,         *)
(* answers, processes, kills and rewritten outputs.                        *)
(*                                                                         *)
(* The argument.  Commands exclude each other by the lifecycle lock, so    *)
(* that what a command compared with the disk is so until it writes.  Of   *)
(* what the files hold, three things never change once they are there: the *)
(* pinned inputs, the R2 packets and the terminal bundle.  The facts of a  *)
(* manifest are made of these (GoodFacts), and so a transition that was    *)
(* written to the journal stays the right one, whoever completes it.  That *)
(* a bundle is made of the R1 set the manifest accepted, though outputs    *)
(* were rewritten in between, follows from the packets: an R2 output       *)
(* carries the packet it answers, and a packet the R1 set it was made of.  *)
(***************************************************************************)
EXTENDS FinanceLifecycle, TLAPS

USE FoldAssumption, LifecycleAssumption, NothingAssumption

-----------------------------------------------------------------------------
(* The fold.                                                               *)

LEMMA RanksAreNumbers == \A d \in Dispositions : Rank(d) \in 0 .. 5
  BY DEF Rank, Dispositions

\* Of one or two blockers there is a gravest.
LEMMA GravestExists ==
    ASSUME NEW a \in Answer, NEW b \in Answer,
           NEW blockers \in SUBSET {a, b}, blockers # {}
    PROVE  \E g \in blockers : \A c \in blockers : Rank(c.says) <= Rank(g.says)
<1>1. Rank(a.says) \in Nat /\ Rank(b.says) \in Nat
  BY RanksAreNumbers DEF Answer
<1>2. CASE a \in blockers /\ (b \in blockers => Rank(b.says) <= Rank(a.says))
  BY <1>1, <1>2
<1>3. CASE b \in blockers /\ (a \in blockers => Rank(a.says) <= Rank(b.says))
  BY <1>1, <1>3
<1> QED
  BY <1>1, <1>2, <1>3

\* The fold of a school: a disposition; a blocker if one is unresolved.
LEMMA FoldedDisposition ==
    ASSUME NEW i, NEW s \in School, NEW a \in Answer, NEW b \in Answer
    PROVE  /\ Folded(i, s, a, b) \in Dispositions
           /\ s \in Applicable /\ Unresolved(i, a, b) # {} => Folded(i, s, a, b) # "clear"
<1> DEFINE blockers == Unresolved(i, a, b)
<1>1. blockers \in SUBSET {a, b} /\ \A c \in blockers : c.says \in Dispositions /\ c.says # "clear"
  BY DEF Unresolved, Blocking, Answer
<1>2. CASE s \notin Applicable \/ blockers = {}
  BY <1>2 DEF Folded, Dispositions
<1>3. CASE s \in Applicable /\ blockers # {}
  <2> DEFINE g == CHOOSE g \in blockers : \A c \in blockers : Rank(c.says) <= Rank(g.says)
  <2>1. g \in blockers
    BY <1>1, <1>3, GravestExists
  <2>2. Folded(i, s, a, b) = g.says
    BY <1>3 DEF Folded
  <2> QED
    BY <1>1, <2>1, <2>2
<1> QED
  BY <1>2, <1>3

LEMMA ResultIsTyped ==
    ASSUME NEW i \in Input, NEW q \in R1Set, NEW r \in R1Set
    PROVE  Result(i, q, r) \in Results
<1>1. \A s \in School : Folded(i, s, q[s], r[s]) \in Dispositions
  BY FoldedDisposition DEF R1Set
<1>2. \A s \in Applicable : Rule[s].mode \in {"mandatory", "conditional"}
  BY DEF Applicable, Rules
<1>3. i.primary \subseteq Reason
  BY DEF Input, Reason
<1>4. Reasons(i, q, r) \subseteq Reason
  BY <1>2, <1>3 DEF Reasons, Reason
<1> QED
  BY <1>1, <1>4 DEF Result, Results

-----------------------------------------------------------------------------
(* The invariant.  What depends on files is stated of their values, for it *)
(* is shown to outlive the steps that change them.                         *)

\* A set of outputs is one of the outputs a phase may have.
Outs == {r \in R1Set : \A s \in School : r[s] \in Answers[s]}

Outs2 == {r \in R2Set : \A s \in School : r[s].answer \in Answers[s]}

R1Files ==
    {r \in [School -> Answer \cup {Nothing}] :
        \A s \in School : r[s] \in Answers[s] \cup {Nothing}}

\* What is left as R2 outputs answers the packets that are there.
R2Files(pk) ==
    {r \in [School -> [answer : Answer, packet : Packet] \cup {Nothing}] :
        \A s \in School :
            r[s] # Nothing => r[s].answer \in Answers[s] /\ r[s].packet = pk[s]}

VerdictFiles == [Arbiter -> Verdict \cup {Nothing}]

Admits(i, answers) == \A s \in School : Cites(i, answers[s])

\* A bundle that finalize_bundle makes under the input i.
Made(b, i) ==
    /\ b.r1 \in Outs /\ b.r2 \in Outs2
    /\ Admits(i, b.r1) /\ Admits(i, Said(b.r2))
    /\ Folds(b.r1, Said(b.r2))
    /\ b.result = Result(i, b.r1, Said(b.r2))

\* Facts made of what never changes: the input i, the packets pk, the bundle t.
GoodFacts(f, i, pk, t) ==
    /\ f \in Fact
    /\ \/ f = Created
       \/ /\ f = Facts("R2Running", f.r1, Nothing, Nothing)
          /\ f.r1 \in Outs /\ Admits(i, f.r1)
          /\ pk = R2Packets(f.r1)
       \/ t # Nothing /\ f = Facts("Merging", t.r1, t.r2, Nothing)
       \/ t # Nothing /\ f = Facts("Completed", t.r1, t.r2, t.result)

TypeOK ==
    /\ in \in Inputs \cup {Nothing}
    /\ manifest \in Manifest \cup {Nothing}
    /\ ledger \in Seq(Fact)
    /\ torn \in BOOLEAN
    /\ pending \in Transition \cup {Nothing}
    /\ packets \in [School -> Packet \cup {Nothing}]
    /\ r1out \in R1Files
    /\ r2out \in R2Files(packets)
    /\ verdict \in VerdictFiles
    /\ lock \in Proc \cup {NoProc}
    /\ DOMAIN at = Proc /\ DOMAIN got = Proc /\ DOMAIN goal = Proc /\ DOMAIN journal = Proc

\* Before finance-init there is nothing, and afterwards the input is pinned.
Pinned ==
    IF manifest = Nothing
    THEN /\ pending = Nothing /\ terminal = Nothing /\ bundle = Nothing /\ ~torn
         /\ \A s \in School : r1out[s] = Nothing
    ELSE in \in Inputs /\ GoodFacts(manifest.facts, in, packets, terminal)

Bundles ==
    /\ terminal # Nothing => Made(terminal, in) /\ packets = R2Packets(terminal.r1)
    /\ bundle # Nothing => Made(bundle, in)

\* A transition in the journal is the one to make, or was made.
GoodPending ==
    pending # Nothing =>
        /\ EventFits
        /\ manifest \in {pending.old, pending.target}
        /\ GoodFacts(pending.old.facts, in, packets, terminal)
        /\ GoodFacts(pending.target.facts, in, packets, terminal)

Disk == Pinned /\ Bundles /\ GoodPending /\ JournalHolds

\* How far a command is with its transition.
Midway(p) ==
    /\ pending # Nothing /\ journal[p] = pending /\ ~torn
    /\ manifest = IF at[p] = "clear" THEN pending.target ELSE pending.old
    /\ ledger = IF at[p] = "append" THEN pending.old.checkpoint ELSE pending.target.checkpoint

\* What a command that holds the lock knows, wherever it stands.
Stand(p) ==
    /\ at[p] # "idle" => lock = p /\ manifest # Nothing
    /\ at[p] = "idle" => goal[p] = Nothing
    /\ goal[p] # Nothing => GoodFacts(goal[p], in, packets, terminal)
    /\ at[p] \in {"append", "install", "clear"} => Midway(p)
    /\ at[p] \notin {"idle", "reconcile", "append", "install", "clear"} => pending = Nothing
    /\ at[p] \in {"check", "journal"} => GoodFacts(goal[p], in, packets, terminal)
    /\ at[p] = "journal" => LegalTransition(manifest.facts.status, goal[p].status)
    /\ at[p] = "packets" => got[p] \in Outs /\ Admits(in, got[p])
    /\ at[p] = "mirrorR2" => got[p] \in R1Files
    /\ at[p] = "finalize" =>
          /\ got[p].r1 \in R1Files /\ got[p].r2 \in R2Files(packets)
          /\ got[p].verdict \in VerdictFiles

Inv == TypeOK /\ Disk /\ \A p \in Proc : Stand(p)

-----------------------------------------------------------------------------
(* What outlives a step, and what finalize_bundle finds out.               *)

LEMMA PacketsAreThere ==
    ASSUME NEW q \in R1Set, NEW s \in School
    PROVE  /\ R2Packets(q)[s] \in Packet /\ R2Packets(q)[s] # Nothing
           /\ R2Packets(q)[s].sources = q
  BY DEF R2Packets, R2Packet, Packet

\* A packet tells the R1 set it was made of.
LEMMA PacketsTellSources ==
    ASSUME NEW q \in R1Set, NEW r \in R1Set, R2Packets(q) = R2Packets(r)
    PROVE  q = r
<1>1. PICK s \in School : TRUE
  OBVIOUS
<1> QED
  BY <1>1, PacketsAreThere

\* Packets are only added and a bundle is not replaced.
LEMMA FactsStayGood ==
    ASSUME NEW f, NEW i, NEW pk, NEW t, NEW pk2, NEW t2,
           pk \in [School -> Packet \cup {Nothing}],
           pk2 \in [School -> Packet \cup {Nothing}],
           \A s \in School : pk[s] # Nothing => pk2[s] = pk[s],
           t # Nothing => t2 = t,
           GoodFacts(f, i, pk, t)
    PROVE  GoodFacts(f, i, pk2, t2)
<1>1. CASE f.r1 \in Outs /\ pk = R2Packets(f.r1)
  <2>1. \A s \in School : pk2[s] = pk[s]
    BY <1>1, PacketsAreThere DEF Outs
  <2> QED
    BY <2>1, PacketsAreThere DEF GoodFacts
<1>2. CASE ~(f.r1 \in Outs /\ pk = R2Packets(f.r1))
  BY <1>2 DEF GoodFacts
<1> QED
  BY <1>1, <1>2

\* A bundle that is accepted is made of what schools may answer, under packets
\* of its own R1 set.
LEMMA ConsistentMakes ==
    ASSUME NEW q \in R1Files, NEW pk, NEW r \in R2Files(pk), NEW v \in VerdictFiles,
           Consistent(q, r, v)
    PROVE  /\ Made(Bundle(q, r, v), in)
           /\ in \in Input => Bundle(q, r, v) # Nothing
           /\ pk \in [School -> Packet \cup {Nothing}] => pk = R2Packets(q)
<1>1. q \in Outs /\ Admits(in, q)
  <2>1. \A s \in School : q[s] # Nothing
    BY DEF Consistent, AcceptableR1, Complete, R1Files
  <2> QED
    BY <2>1 DEF Consistent, AcceptableR1, Admitted, Admits, Outs, R1Files, R1Set
<1>2. /\ r \in Outs2 /\ Admits(in, Said(r))
      /\ \A s \in School : r[s].packet = pk[s]
  <2>1. \A s \in School : r[s] # Nothing
    BY DEF Consistent, AcceptableR2, Complete, R2Files
  <2> QED
    BY <2>1 DEF Consistent, AcceptableR2, Admitted, Admits, Outs2, R2Files, R2Set
<1>3. \A s \in School : pk[s] = R2Packet(s, q)
  BY <1>2 DEF Consistent, AnswersPacket
<1>4. /\ Bundle(q, r, v).r1 = q /\ Bundle(q, r, v).r2 = r
      /\ Bundle(q, r, v).result = Result(in, q, Said(r))
  BY DEF Bundle
<1>5. Folds(q, Said(r))
  BY DEF Consistent
<1>6. ASSUME in \in Input PROVE Bundle(q, r, v) \in FinalBundle
  <2>1. q \in R1Set /\ r \in R2Set /\ Said(r) \in R1Set
    BY <1>1, <1>2 DEF Outs, Outs2, Said, R1Set, R2Set
  <2>2. v \in [Arbiter -> Verdict]
    BY <2>1 DEF Consistent, AcceptableR2, Binds, Verdict, VerdictFiles
  <2>3. Result(in, q, Said(r)) \in Results
    BY <1>6, <2>1, ResultIsTyped
  <2> QED
    BY <2>1, <2>2, <2>3 DEF Bundle, FinalBundle
<1> QED
  BY <1>1, <1>2, <1>3, <1>4, <1>5, <1>6 DEF Made, R2Packets

LEMMA BundleFacts ==
    ASSUME NEW t, NEW i \in Input, Made(t, i)
    PROVE  /\ Facts("Merging", t.r1, t.r2, Nothing) \in Fact
           /\ Facts("Completed", t.r1, t.r2, t.result) \in Fact
<1>1. t.r1 \in R1Set /\ t.r2 \in R2Set /\ Said(t.r2) \in R1Set
  BY DEF Made, Outs, Outs2, Said, R1Set, R2Set
<1>2. t.result \in Results
  BY <1>1, ResultIsTyped DEF Made
<1> QED
  BY <1>1, <1>2 DEF Facts, Fact, Statuses

LEMMA TargetIsManifest ==
    ASSUME NEW m \in Manifest, NEW f \in Fact
    PROVE  /\ Follows(m, f) \in Manifest /\ Follows(m, f) # Nothing
           /\ Follows(m, f).facts = f
           /\ Follows(m, f).checkpoint = Append(m.checkpoint, f)
  BY DEF Follows, Manifest

-----------------------------------------------------------------------------
(* Commands exclude each other.                                            *)

LEMMA OthersIdle ==
    ASSUME Inv, NEW p \in Proc, at[p] # "idle", NEW q \in Proc, q # p
    PROVE  at[q] = "idle" /\ goal[q] = Nothing
  BY DEF Inv, Stand

LEMMA IdleStands ==
    ASSUME NEW p \in Proc, at[p] = "idle", goal[p] = Nothing
    PROVE  Stand(p)
  BY DEF Stand

\* A step of a command that goes on has to be looked at for this command.
LEMMA OthersStand ==
    ASSUME Inv, NEW p \in Proc, at[p] # "idle",
           \A q \in Proc \ {p} : at'[q] = at[q] /\ goal'[q] = goal[q],
           Stand(p)'
    PROVE  (\A q \in Proc : Stand(q))'
<1>1. ASSUME NEW q \in Proc, q # p PROVE Stand(q)'
  <2>1. at'[q] = "idle" /\ goal'[q] = Nothing
    BY <1>1, OthersIdle
  <2> QED
    BY <2>1 DEF Stand
<1> QED
  BY <1>1

LEMMA EndStands ==
    ASSUME Inv, NEW p \in Proc, at[p] # "idle", End(p)
    PROVE  (\A q \in Proc : Stand(q))'
<1>1. ASSUME NEW q \in Proc PROVE at'[q] = "idle" /\ goal'[q] = Nothing
  BY <1>1, OthersIdle DEF End, To, Inv, TypeOK
<1>2. ASSUME NEW q \in Proc PROVE Stand(q)'
  BY <1>1, <1>2 DEF Stand
<1> QED
  BY <1>2

LEMMA DiskSame ==
    ASSUME Inv, UNCHANGED <<state, outputs, bundle>>
    PROVE  Disk'
  BY DEF Inv, Disk, Pinned, Bundles, GoodPending, JournalHolds, EventFits, state, outputs

LEMMA EndKeeps ==
    ASSUME Inv, NEW p \in Proc, at[p] # "idle", End(p),
           UNCHANGED <<state, outputs, bundle>>
    PROVE  Inv'
<1>1. TypeOK'
  BY DEF Inv, TypeOK, End, To, state, outputs
<1> QED
  BY <1>1, DiskSame, EndStands DEF Inv

\* A step in memory: what is on disk stays.
LEMMA MoveKeeps ==
    ASSUME Inv, NEW p \in Proc, NEW l, at[p] # "idle", To(p, l),
           UNCHANGED <<state, outputs, bundle, lock>>,
           DOMAIN got' = Proc, DOMAIN goal' = Proc, DOMAIN journal' = Proc,
           \A q \in Proc \ {p} : goal'[q] = goal[q],
           Stand(p)'
    PROVE  Inv'
<1>1. TypeOK' /\ \A q \in Proc \ {p} : at'[q] = at[q]
  BY DEF Inv, TypeOK, To, state, outputs
<1> QED
  BY <1>1, DiskSame, OthersStand DEF Inv

-----------------------------------------------------------------------------
(* One lemma for each action of a command.                                 *)

LEMMA InitHolds == Init => Inv
<1> SUFFICES ASSUME Init PROVE Inv
  OBVIOUS
<1>1. TypeOK
  <2>1. r1out \in R1Files /\ r2out \in R2Files(packets)
    BY DEF Init, R1Files, R2Files
  <2>2. ledger \in Seq(Fact)
    BY DEF Init
  <2> QED
    BY <2>1, <2>2 DEF Init, TypeOK, VerdictFiles
<1>2. Disk
  BY DEF Init, Disk, Pinned, Bundles, GoodPending, JournalHolds
<1> QED
  BY <1>1, <1>2, IdleStands DEF Init, Inv

LEMMA CreateKeeps ==
    ASSUME Inv, NEW p \in Proc, Create(p)
    PROVE  Inv'
<1>1. Created \in Fact
  BY DEF Created, Facts, Fact, Statuses
<1>2. manifest' \in Manifest /\ manifest' # Nothing /\ ledger' \in Seq(Fact)
  <2>1. <<Created>> \in Seq(Fact)
    BY <1>1
  <2>2. [facts |-> Created, checkpoint |-> <<Created>>] \in Manifest
    BY <1>1, <2>1 DEF Manifest
  <2> QED
    BY <2>1, <2>2 DEF Create
<1>3. TypeOK'
  BY <1>2 DEF Create, Inv, TypeOK, outputs, commands
<1>4. Disk'
  <2>1. manifest'.facts = Created /\ manifest'.checkpoint = <<Created>>
    BY DEF Create
  <2>2. GoodFacts(manifest'.facts, in', packets', terminal')
    BY <1>1, <2>1 DEF GoodFacts
  <2> QED
    BY <1>2, <2>1, <2>2
    DEF Create, Inv, Disk, Pinned, Bundles, GoodPending, JournalHolds, outputs, commands
<1>5. \A q \in Proc : at'[q] = "idle" /\ goal'[q] = Nothing
  BY DEF Create, Inv, Stand, commands
<1>6. (\A q \in Proc : Stand(q))'
  <2>1. ASSUME NEW q \in Proc PROVE Stand(q)'
    BY <1>5, <2>1 DEF Stand
  <2> QED
    BY <2>1
<1> QED
  BY <1>3, <1>4, <1>6 DEF Inv

LEMMA BeginKeeps ==
    ASSUME Inv, NEW p \in Proc, Begin(p)
    PROVE  Inv'
<1>1. TypeOK' /\ Disk'
  BY DiskSame DEF Begin, Inv, TypeOK, To, state, outputs
<1>2. \A q \in Proc : at[q] = "idle" /\ goal[q] = Nothing
  BY DEF Begin, Inv, Stand
<1>3. at'[p] = "reconcile" /\ lock' = p /\ manifest' # Nothing /\ goal'[p] = Nothing
  BY <1>2 DEF Begin, To, Inv, TypeOK, state
<1>4. ASSUME NEW q \in Proc PROVE Stand(q)'
  <2>1. CASE q = p
    BY <1>3, <2>1 DEF Stand
  <2>2. CASE q # p
    <3>1. at'[q] = "idle" /\ goal'[q] = Nothing
      BY <1>2, <2>2 DEF Begin, To, Inv, TypeOK
    <3> QED
      BY <3>1 DEF Stand
  <2> QED
    BY <2>1, <2>2
<1> QED
  BY <1>1, <1>4 DEF Inv

LEMMA ReconcileKeeps ==
    ASSUME Inv, NEW p \in Proc, Reconcile(p)
    PROVE  Inv'
<1>1. at[p] = "reconcile" /\ UNCHANGED <<state, outputs, bundle>>
  BY DEF Reconcile, At
<1>2. CASE pending = Nothing
  <2>1. at'[p] = "examine" /\ To(p, "examine") /\ UNCHANGED <<lock, got, goal, journal>>
    BY <1>1, <1>2 DEF Reconcile, To, Inv, TypeOK
  <2>2. Stand(p)'
    BY <1>1, <1>2, <2>1 DEF Stand, Inv, state
  <2> QED
    BY <1>1, <2>1, <2>2, MoveKeeps DEF Inv, TypeOK
<1>3. CASE pending # Nothing /\ ~Reconcilable
  BY <1>1, <1>3, EndKeeps DEF Reconcile
<1>4. CASE pending # Nothing /\ Reconcilable
  <2>1. /\ at'[p] = ReplayFrom /\ To(p, ReplayFrom) /\ journal'[p] = pending
        /\ UNCHANGED <<lock, got, goal>> /\ DOMAIN journal' = Proc
    BY <1>1, <1>4 DEF Reconcile, To, Inv, TypeOK
  <2>2. /\ at'[p] \in {"append", "install", "clear"}
        /\ manifest = IF at'[p] = "clear" THEN pending.target ELSE pending.old
        /\ ledger = IF at'[p] = "append" THEN pending.old.checkpoint
                    ELSE pending.target.checkpoint
        /\ ~torn
    BY <1>4, <2>1 DEF ReplayFrom, Reconcilable, WholeLines
  <2>3. Midway(p)'
    BY <1>1, <1>4, <2>1, <2>2 DEF Midway, state
  <2>4. Stand(p)'
    BY <1>1, <2>1, <2>2, <2>3 DEF Stand, Inv, state
  <2> QED
    BY <1>1, <2>1, <2>4, MoveKeeps DEF Inv, TypeOK
<1> QED
  BY <1>2, <1>3, <1>4

LEMMA ExamineKeeps ==
    ASSUME Inv, NEW p \in Proc, Examine(p) \/ InitReturns(p)
    PROVE  Inv'
<1>1. at[p] = "examine" /\ UNCHANGED <<state, outputs, bundle>>
  BY DEF Examine, InitReturns, At
<1>2. CASE End(p)
  BY <1>1, <1>2, EndKeeps
<1>3. CASE ~End(p)
  <2>1. /\ at'[p] = Status /\ Status \in {"R1Running", "R2Running"} /\ To(p, Status)
        /\ UNCHANGED <<lock, got, goal, journal>>
    BY <1>1, <1>3 DEF Examine, InitReturns, To, Inv, TypeOK
  <2>2. Stand(p)'
    BY <1>1, <2>1 DEF Stand, Inv, state
  <2> QED
    BY <1>1, <2>1, <2>2, MoveKeeps DEF Inv, TypeOK
<1> QED
  BY <1>2, <1>3

LEMMA CollectR1Keeps ==
    ASSUME Inv, NEW p \in Proc, CollectR1(p)
    PROVE  Inv'
<1>1. at[p] = "R1Running" /\ UNCHANGED <<state, outputs, bundle>>
  BY DEF CollectR1, At
<1>2. CASE ~AcceptableR1(r1out)
  BY <1>1, <1>2, EndKeeps DEF CollectR1
<1>3. CASE AcceptableR1(r1out)
  <2>1. /\ at'[p] = "packets" /\ To(p, "packets") /\ got'[p] = r1out
        /\ UNCHANGED <<lock, goal, journal>> /\ DOMAIN got' = Proc
    BY <1>1, <1>3 DEF CollectR1, To, Inv, TypeOK
  <2>2. \A s \in School : r1out[s] # Nothing
    BY <1>3 DEF AcceptableR1, Complete, Inv, TypeOK, R1Files
  <2>3. r1out \in Outs /\ Admits(in, r1out)
    BY <1>3, <2>2 DEF AcceptableR1, Admitted, Admits, Outs, R1Set, R1Files, Inv, TypeOK
  <2>4. Stand(p)'
    BY <1>1, <2>1, <2>3 DEF Stand, Inv, state
  <2> QED
    BY <1>1, <2>1, <2>4, MoveKeeps DEF Inv, TypeOK
<1> QED
  BY <1>2, <1>3

LEMMA PacketsWrittenKeeps ==
    ASSUME Inv, NEW p \in Proc, PacketsWritten(p)
    PROVE  Inv'
<1>1. /\ at[p] = "packets" /\ UNCHANGED <<state, outputs, bundle, lock, got, journal>>
      /\ packets = R2Packets(got[p]) /\ got[p] \in Outs /\ Admits(in, got[p])
  BY DEF PacketsWritten, At, Inv, Stand
<1>2. /\ at'[p] = "check" /\ To(p, "check") /\ DOMAIN goal' = Proc
      /\ goal'[p] = Facts("R2Running", got[p], Nothing, Nothing)
      /\ \A q \in Proc \ {p} : goal'[q] = goal[q]
  BY DEF PacketsWritten, To, Inv, TypeOK
<1>3. GoodFacts(goal'[p], in, packets, terminal)
  <2>1. goal'[p].r1 = got[p] /\ goal'[p] \in Fact
    BY <1>1, <1>2 DEF Facts, Fact, Statuses, Outs
  <2> QED
    BY <1>1, <1>2, <2>1 DEF GoodFacts
<1>4. Stand(p)'
  BY <1>1, <1>2, <1>3 DEF Stand, Inv, state
<1> QED
  BY <1>1, <1>2, <1>4, MoveKeeps DEF Inv, TypeOK

LEMMA CheckR2Keeps ==
    ASSUME Inv, NEW p \in Proc, CheckR2(p) \/ MirrorR1(p) \/ MirrorR2(p) \/ Check(p)
    PROVE  Inv'
<1>1. at[p] # "idle" /\ UNCHANGED <<state, outputs, bundle>>
  BY DEF CheckR2, MirrorR1, MirrorR2, Check, At
<1>2. CASE End(p)
  BY <1>1, <1>2, EndKeeps
<1>3. CASE CheckR2(p) /\ ~End(p)
  <2>1. /\ at'[p] = "mirrorR1" /\ To(p, "mirrorR1") /\ at[p] = "R2Running"
        /\ UNCHANGED <<lock, got, goal, journal>>
    BY <1>3 DEF CheckR2, To, Inv, TypeOK, At
  <2>2. Stand(p)'
    BY <1>1, <2>1 DEF Stand, Inv, state
  <2> QED
    BY <1>1, <2>1, <2>2, MoveKeeps DEF Inv, TypeOK
<1>4. CASE MirrorR1(p)
  <2>1. /\ at'[p] = "mirrorR2" /\ To(p, "mirrorR2") /\ at[p] = "mirrorR1"
        /\ got'[p] = r1out /\ DOMAIN got' = Proc /\ r1out \in R1Files
        /\ UNCHANGED <<lock, goal, journal>>
    BY <1>4 DEF MirrorR1, To, Inv, TypeOK, At
  <2>2. Stand(p)'
    BY <1>1, <2>1 DEF Stand, Inv, state
  <2> QED
    BY <1>1, <2>1, <2>2, MoveKeeps DEF Inv, TypeOK
<1>5. CASE MirrorR2(p)
  <2>1. /\ at'[p] = "finalize" /\ To(p, "finalize") /\ at[p] = "mirrorR2"
        /\ got'[p] = [r1 |-> got[p], r2 |-> r2out, verdict |-> verdict]
        /\ DOMAIN got' = Proc /\ r2out \in R2Files(packets) /\ verdict \in VerdictFiles
        /\ UNCHANGED <<lock, goal, journal>>
    BY <1>5 DEF MirrorR2, To, Inv, TypeOK, At
  <2>2. got[p] \in R1Files
    BY <2>1 DEF Inv, Stand
  <2>3. Stand(p)'
    BY <1>1, <2>1, <2>2 DEF Stand, Inv, state
  <2> QED
    BY <1>1, <2>1, <2>3, MoveKeeps DEF Inv, TypeOK
<1>6. CASE Check(p) /\ ~End(p)
  <2>1. /\ at'[p] = "journal" /\ To(p, "journal") /\ at[p] = "check"
        /\ LegalTransition(Status, goal[p].status)
        /\ UNCHANGED <<lock, got, goal, journal>>
    BY <1>6 DEF Check, To, Inv, TypeOK, At
  <2>2. Stand(p)'
    BY <1>1, <2>1 DEF Stand, Inv, state, Status
  <2> QED
    BY <1>1, <2>1, <2>2, MoveKeeps DEF Inv, TypeOK
<1> QED
  BY <1>2, <1>3, <1>4, <1>5, <1>6

\* A packet is added: facts and files that were right are right.
LEMMA WritePacketKeeps ==
    ASSUME Inv, NEW p \in Proc, NEW s \in School, WritePacket(p, s)
    PROVE  Inv'
<1>1. /\ at[p] = "packets" /\ packets[s] = Nothing /\ got[p] \in Outs
      /\ manifest # Nothing /\ pending = Nothing
      /\ packets' = [packets EXCEPT ![s] = R2Packet(s, got[p])]
      /\ UNCHANGED <<in, manifest, ledger, torn, pending, terminal, outputs, bundle, commands>>
  BY DEF WritePacket, At, Inv, Stand
<1>2. /\ packets' \in [School -> Packet \cup {Nothing}]
      /\ \A t \in School : packets[t] # Nothing => packets'[t] = packets[t]
  <2>1. R2Packet(s, got[p]) \in Packet
    BY <1>1 DEF R2Packet, Packet, Outs
  <2> QED
    BY <1>1, <2>1 DEF Inv, TypeOK
<1>3. \A f, t : GoodFacts(f, in, packets, t) => GoodFacts(f, in, packets', t)
  BY <1>2, FactsStayGood DEF Inv, TypeOK
<1>4. R2Files(packets) \subseteq R2Files(packets')
  <2> SUFFICES ASSUME NEW r \in R2Files(packets), NEW t \in School, r[t] # Nothing
               PROVE  r[t].packet = packets'[t]
    BY DEF R2Files
  <2>1. r[t].packet = packets[t] /\ r[t].packet \in Packet
    BY DEF R2Files
  <2> QED
    BY <1>2, <2>1
<1>5. TypeOK'
  BY <1>1, <1>2, <1>4 DEF Inv, TypeOK, outputs, commands
<1>6. terminal = Nothing
  <2>1. terminal # Nothing => terminal.r1 \in R1Set /\ packets = R2Packets(terminal.r1)
    BY DEF Inv, Disk, Bundles, Made, Outs
  <2> QED
    BY <1>1, <2>1, PacketsAreThere
<1>7. Disk'
  BY <1>1, <1>3, <1>6
  DEF Inv, Disk, Pinned, Bundles, GoodPending, JournalHolds, outputs
<1>8. Stand(p)'
  BY <1>1, <1>3, <1>4 DEF Inv, Stand, commands
<1>9. \A q \in Proc \ {p} : at'[q] = at[q] /\ goal'[q] = goal[q]
  BY <1>1 DEF commands
<1> QED
  BY <1>1, <1>5, <1>7, <1>8, <1>9, OthersStand DEF Inv

LEMMA PacketsDifferKeeps ==
    ASSUME Inv, NEW p \in Proc, PacketsDiffer(p)
    PROVE  Inv'
  BY EndKeeps DEF PacketsDiffer, At

\* A terminal bundle is made under the packets, and is not replaced.
LEMMA FinalizeKeeps ==
    ASSUME Inv, NEW p \in Proc, Finalize(p)
    PROVE  Inv'
<1> DEFINE m == got[p]
           b == Bundle(m.r1, m.r2, m.verdict)
<1>1. /\ at[p] = "finalize" /\ m.r1 \in R1Files /\ m.r2 \in R2Files(packets)
      /\ m.verdict \in VerdictFiles /\ in \in Input
      /\ manifest # Nothing /\ pending = Nothing
      /\ UNCHANGED <<in, manifest, ledger, torn, pending, packets, outputs, bundle>>
  BY DEF Finalize, At, Inv, Stand, Disk, Pinned
<1>2. CASE End(p) /\ UNCHANGED terminal
  BY <1>1, <1>2, EndKeeps DEF state
<1>3. CASE ~(End(p) /\ UNCHANGED terminal)
  <2>1. /\ MirrorAccepted(m) /\ SameBundle(b) /\ terminal' = b
        /\ goal' = [goal EXCEPT ![p] = Facts("Merging", b.r1, b.r2, Nothing)]
        /\ To(p, "check") /\ UNCHANGED <<lock, got, journal>>
    BY <1>3 DEF Finalize
  <2>2. /\ at'[p] = "check" /\ goal'[p] = Facts("Merging", b.r1, b.r2, Nothing)
        /\ \A q \in Proc \ {p} : at'[q] = at[q] /\ goal'[q] = goal[q]
        /\ DOMAIN at' = Proc /\ DOMAIN goal' = Proc
    BY <2>1 DEF To, Inv, TypeOK
  <2>3. Made(b, in) /\ packets = R2Packets(b.r1) /\ b # Nothing
    <3>1. Consistent(m.r1, m.r2, m.verdict) /\ b.r1 = m.r1
      BY <2>1 DEF MirrorAccepted, Bundle
    <3> QED
      BY <1>1, <3>1, ConsistentMakes DEF Inv, TypeOK
  <2>4. terminal # Nothing => terminal' = terminal
    BY <2>1 DEF SameBundle
  <2>5. \A f : GoodFacts(f, in, packets, terminal) => GoodFacts(f, in, packets, terminal')
    BY <2>4, FactsStayGood DEF Inv, TypeOK
  <2>6. GoodFacts(goal'[p], in, packets, terminal')
    <3>1. goal'[p] \in Fact
      BY <1>1, <2>2, <2>3, BundleFacts
    <3> QED
      BY <2>1, <2>2, <2>3, <3>1 DEF GoodFacts
  <2>7. TypeOK'
    BY <1>1, <2>1, <2>2 DEF Inv, TypeOK, outputs
  <2>8. Disk'
    BY <1>1, <2>1, <2>3, <2>5
    DEF Inv, Disk, Pinned, Bundles, GoodPending, JournalHolds, outputs
  <2>9. Stand(p)'
    BY <1>1, <2>1, <2>2, <2>6 DEF Inv, Stand
  <2> QED
    BY <1>1, <2>2, <2>7, <2>8, <2>9, OthersStand DEF Inv
<1> QED
  BY <1>2, <1>3

\* The journal is written: from the manifest to what was made ready.
LEMMA JournalKeeps ==
    ASSUME Inv, NEW p \in Proc, Journal(p)
    PROVE  Inv'
<1> DEFINE entry == [old |-> manifest, target |-> Follows(manifest, goal[p])]
<1>1. /\ at[p] = "journal" /\ pending = Nothing /\ manifest # Nothing /\ manifest \in Manifest
      /\ GoodFacts(manifest.facts, in, packets, terminal)
      /\ GoodFacts(goal[p], in, packets, terminal) /\ goal[p] \in Fact
      /\ LegalTransition(manifest.facts.status, goal[p].status)
      /\ ~torn /\ ledger = manifest.checkpoint
  BY DEF Journal, At, Inv, Stand, TypeOK, Disk, Pinned, JournalHolds, GoodFacts
<1>2. /\ pending' = entry /\ journal'[p] = entry /\ at'[p] = "append"
      /\ DOMAIN at' = Proc /\ DOMAIN journal' = Proc
      /\ \A q \in Proc \ {p} : at'[q] = at[q]
      /\ UNCHANGED <<in, manifest, ledger, torn, packets, terminal, outputs, bundle,
                     lock, got, goal>>
  BY DEF Journal, To, Inv, TypeOK
<1>3. /\ Follows(manifest, goal[p]) \in Manifest
      /\ Follows(manifest, goal[p]).facts = goal[p]
  BY <1>1, TargetIsManifest
<1>4. pending' \in Transition /\ pending' # Nothing
  BY <1>1, <1>2, <1>3 DEF Transition
<1>5. pending'.old = manifest /\ pending'.target = Follows(manifest, goal[p])
  BY <1>2
<1>6. TypeOK'
  BY <1>2, <1>4 DEF Inv, TypeOK, outputs
<1>7. Disk'
  BY <1>1, <1>2, <1>3, <1>4, <1>5
  DEF Inv, Disk, Pinned, Bundles, GoodPending, EventFits, JournalHolds, outputs
<1>8. Stand(p)'
  BY <1>1, <1>2, <1>4, <1>5 DEF Inv, Stand, Midway
<1> QED
  BY <1>1, <1>2, <1>6, <1>7, <1>8, OthersStand DEF Inv

LEMMA AppendKeeps ==
    ASSUME Inv, NEW p \in Proc, AppendEvent(p)
    PROVE  Inv'
<1>1. /\ at[p] = "append" /\ pending # Nothing /\ pending \in Transition /\ journal[p] = pending
      /\ ~torn /\ manifest = pending.old /\ ledger = pending.old.checkpoint
      /\ pending.target = Follows(pending.old, pending.target.facts)
      /\ pending.target.facts \in Fact /\ pending.old \in Manifest
  BY DEF AppendEvent, At, Inv, Stand, Midway, TypeOK, Disk, GoodPending, EventFits, GoodFacts,
         Transition
<1>2. /\ ledger' = Append(ledger, pending.target.facts) /\ at'[p] = "install"
      /\ DOMAIN at' = Proc /\ \A q \in Proc \ {p} : at'[q] = at[q]
      /\ UNCHANGED <<in, manifest, torn, pending, packets, terminal, outputs, bundle,
                     lock, got, goal, journal>>
  BY <1>1 DEF AppendEvent, To, Inv, TypeOK
<1>3. ledger' = pending.target.checkpoint /\ ledger' \in Seq(Fact)
  BY <1>1, <1>2, TargetIsManifest DEF Manifest
<1>4. TypeOK'
  BY <1>2, <1>3 DEF Inv, TypeOK, outputs
<1>5. Disk'
  BY <1>1, <1>2
  DEF Inv, Disk, Pinned, Bundles, GoodPending, EventFits, JournalHolds, outputs
<1>6. Stand(p)'
  BY <1>1, <1>2, <1>3 DEF Inv, Stand, Midway
<1> QED
  BY <1>1, <1>2, <1>4, <1>5, <1>6, OthersStand DEF Inv

LEMMA InstallKeeps ==
    ASSUME Inv, NEW p \in Proc, Install(p)
    PROVE  Inv'
<1>1. /\ at[p] = "install" /\ pending # Nothing /\ pending \in Transition /\ journal[p] = pending
      /\ ~torn /\ manifest = pending.old /\ ledger = pending.target.checkpoint
      /\ manifest # Nothing
      /\ GoodFacts(pending.target.facts, in, packets, terminal)
  BY DEF Install, At, Inv, Stand, Midway, TypeOK, Disk, GoodPending
<1>2. /\ manifest' = pending.target /\ at'[p] = "clear"
      /\ DOMAIN at' = Proc /\ \A q \in Proc \ {p} : at'[q] = at[q]
      /\ UNCHANGED <<in, ledger, torn, pending, packets, terminal, outputs, bundle,
                     lock, got, goal, journal>>
  BY <1>1 DEF Install, To, Inv, TypeOK
<1>3. manifest' \in Manifest /\ manifest' # Nothing
  BY <1>1, <1>2 DEF Transition
<1>4. TypeOK'
  BY <1>2, <1>3 DEF Inv, TypeOK, outputs
<1>5. Disk'
  BY <1>1, <1>2, <1>3
  DEF Inv, Disk, Pinned, Bundles, GoodPending, EventFits, JournalHolds, outputs
<1>6. Stand(p)'
  BY <1>1, <1>2, <1>3 DEF Inv, Stand, Midway
<1> QED
  BY <1>1, <1>2, <1>4, <1>5, <1>6, OthersStand DEF Inv

LEMMA ClearKeeps ==
    ASSUME Inv, NEW p \in Proc, Clear(p)
    PROVE  Inv'
<1>1. /\ at[p] = "clear" /\ pending # Nothing /\ pending \in Transition
      /\ ~torn /\ manifest = pending.target /\ ledger = pending.target.checkpoint
      /\ manifest # Nothing /\ lock = p
      /\ goal[p] # Nothing => GoodFacts(goal[p], in, packets, terminal)
      /\ in \in Input
  BY DEF Clear, At, Inv, Stand, Midway, TypeOK, Disk, Pinned
<1>2. /\ pending' = Nothing
      /\ UNCHANGED <<in, manifest, ledger, torn, packets, terminal, outputs, bundle>>
  BY DEF Clear
<1>3. Disk'
  BY <1>1, <1>2
  DEF Inv, Disk, Pinned, Bundles, GoodPending, JournalHolds, outputs
<1>4. CASE goal[p] = Nothing
  <2>1. /\ at'[p] = "examine" /\ goal' = goal /\ lock' = lock
        /\ \A q \in Proc \ {p} : at'[q] = at[q]
        /\ TypeOK'
    BY <1>2, <1>4 DEF Clear, To, Inv, TypeOK, outputs
  <2>2. Stand(p)'
    BY <1>1, <1>2, <1>4, <2>1 DEF Stand
  <2> QED
    BY <1>1, <1>3, <2>1, <2>2, OthersStand DEF Inv
<1>5. CASE goal[p] # Nothing /\ goal[p].status = "Merging"
  <2>1. /\ at'[p] = "check" /\ lock' = lock
        /\ goal'[p] = Facts("Completed", goal[p].r1, goal[p].r2, terminal.result)
        /\ \A q \in Proc \ {p} : at'[q] = at[q] /\ goal'[q] = goal[q]
        /\ TypeOK'
    BY <1>2, <1>5 DEF Clear, To, Inv, TypeOK, outputs
  <2>2. /\ terminal # Nothing /\ goal[p].r1 = terminal.r1 /\ goal[p].r2 = terminal.r2
    BY <1>1, <1>5 DEF GoodFacts, Facts, Created
  <2>3. GoodFacts(goal'[p], in, packets, terminal)
    <3>1. goal'[p] \in Fact
      BY <1>1, <2>1, <2>2, BundleFacts DEF Inv, Disk, Bundles
    <3> QED
      BY <2>1, <2>2, <3>1 DEF GoodFacts
  <2>4. Stand(p)'
    BY <1>1, <1>2, <2>1, <2>3 DEF Stand
  <2> QED
    BY <1>1, <1>3, <2>1, <2>4, OthersStand DEF Inv
<1>6. CASE goal[p] # Nothing /\ goal[p].status # "Merging"
  <2>1. End(p)
    BY <1>6 DEF Clear
  <2>2. TypeOK'
    BY <1>2, <2>1 DEF End, To, Inv, TypeOK, outputs
  <2> QED
    BY <1>1, <1>3, <2>1, <2>2, EndStands DEF Inv
<1> QED
  BY <1>4, <1>5, <1>6

\* Of a line that is not complete somebody knows from the journal.
LEMMA KillKeeps ==
    ASSUME Inv, NEW p \in Proc, Kill(p)
    PROVE  Inv'
<1>1. /\ at[p] # "idle" /\ End(p) /\ manifest # Nothing
      /\ UNCHANGED <<in, manifest, ledger, pending, packets, terminal, outputs, bundle>>
      /\ torn' \in BOOLEAN
      /\ torn' = torn \/ pending # Nothing
  BY DEF Kill, Inv, Stand, TypeOK, Midway
<1>2. TypeOK'
  BY <1>1 DEF End, To, Inv, TypeOK, outputs
<1>3. Disk'
  BY <1>1
  DEF Inv, Disk, Pinned, Bundles, GoodPending, EventFits, JournalHolds, outputs
<1> QED
  BY <1>1, <1>2, <1>3, EndStands DEF Inv

-----------------------------------------------------------------------------
(* Schools, arbiters and finance-finalize.                                 *)

LEMMA CommandsStand ==
    ASSUME Inv, UNCHANGED <<state, commands>>
    PROVE  (\A q \in Proc : Stand(q))'
<1>1. ASSUME NEW q \in Proc PROVE Stand(q)'
  <2>1. Stand(q)
    BY DEF Inv
  <2> QED
    BY <2>1 DEF Stand, Midway, state, commands
<1> QED
  BY <1>1

LEMMA DeliverKeeps ==
    ASSUME Inv,
           \/ \E s \in School : DeliverR1(s) \/ DeliverR2(s)
           \/ \E w \in Arbiter : DeliverVerdict(w)
    PROVE  Inv'
<1>1. manifest # Nothing /\ UNCHANGED <<state, bundle, commands>>
  BY DEF DeliverR1, DeliverR2, DeliverVerdict, Deliver
<1>2. Disk'
  BY <1>1
  DEF Inv, Disk, Pinned, Bundles, GoodPending, EventFits, JournalHolds, state
<1>3. r1out' \in R1Files /\ r2out' \in R2Files(packets) /\ verdict' \in VerdictFiles
  <2>1. CASE \E s \in School : DeliverR1(s)
    BY <2>1 DEF DeliverR1, Inv, TypeOK, R1Files
  <2>2. CASE \E s \in School : DeliverR2(s)
    <3>1. PICK s \in School : DeliverR2(s)
      BY <2>2
    <3>2. PICK a \in Answers[s] :
              r2out' = [r2out EXCEPT ![s] = [answer |-> a, packet |-> packets[s]]]
      BY <3>1 DEF DeliverR2
    <3>3. [answer |-> a, packet |-> packets[s]] \in [answer : Answer, packet : Packet]
      BY <3>1, <3>2 DEF DeliverR2, Inv, TypeOK
    <3>4. r2out' \in R2Files(packets)
      BY <3>2, <3>3 DEF Inv, TypeOK, R2Files
    <3> QED
      BY <3>1, <3>4 DEF DeliverR2, Inv, TypeOK
  <2>3. CASE \E w \in Arbiter : DeliverVerdict(w)
    <3>1. r1out \in R1Set /\ r2out \in R2Set
      BY <2>3 DEF DeliverVerdict, Complete, Inv, TypeOK, R1Files, R2Files, R1Set, R2Set
    <3> QED
      BY <2>3, <3>1 DEF DeliverVerdict, Inv, TypeOK, VerdictFiles, Verdict
  <2> QED
    BY <2>1, <2>2, <2>3
<1>4. TypeOK'
  BY <1>1, <1>3 DEF Inv, TypeOK, state, commands
<1> QED
  BY <1>1, <1>2, <1>4, CommandsStand DEF Inv

LEMMA FinalizeElsewhereKeeps ==
    ASSUME Inv, FinalizeElsewhere
    PROVE  Inv'
<1>1. /\ Consistent(r1out, r2out, verdict) /\ bundle' = Bundle(r1out, r2out, verdict)
      /\ UNCHANGED <<state, outputs, commands>>
  BY DEF FinalizeElsewhere
<1>2. manifest # Nothing
  <2>1. PICK s \in School : TRUE
    OBVIOUS
  <2>2. r1out[s] # Nothing
    BY <1>1 DEF Consistent, AcceptableR1, Complete, Inv, TypeOK, R1Files
  <2> QED
    BY <2>2 DEF Inv, Disk, Pinned
<1>3. Made(bundle', in)
  BY <1>1, ConsistentMakes DEF Inv, TypeOK
<1>4. Disk'
  BY <1>1, <1>2, <1>3
  DEF Inv, Disk, Pinned, Bundles, GoodPending, EventFits, JournalHolds, state, outputs
<1>5. TypeOK'
  BY <1>1 DEF Inv, TypeOK, state, outputs, commands
<1> QED
  BY <1>1, <1>4, <1>5, CommandsStand DEF Inv

-----------------------------------------------------------------------------
(* The theorems.                                                           *)

LEMMA NextKeeps == Inv /\ [Next]_vars => Inv'
<1> SUFFICES ASSUME Inv, [Next]_vars PROVE Inv'
  OBVIOUS
<1>1. CASE UNCHANGED vars
  <2>1. TypeOK'
    BY <1>1 DEF Inv, TypeOK, vars, state, outputs, commands
  <2> QED
    BY <1>1, <2>1, DiskSame, CommandsStand DEF Inv, vars
<1>2. ASSUME NEW p \in Proc, Create(p) \/ Begin(p) \/ Command(p) \/ InitReturns(p) \/ Kill(p)
      PROVE  Inv'
  <2>1. CASE Create(p) \/ Begin(p) \/ Kill(p)
    BY <2>1, CreateKeeps, BeginKeeps, KillKeeps
  <2>2. CASE Reconcile(p) \/ Examine(p) \/ InitReturns(p) \/ CollectR1(p)
    BY <2>2, ReconcileKeeps, ExamineKeeps, CollectR1Keeps
  <2>3. CASE PacketsDiffer(p) \/ PacketsWritten(p) \/ \E s \in School : WritePacket(p, s)
    BY <2>3, PacketsDifferKeeps, PacketsWrittenKeeps, WritePacketKeeps
  <2>4. CASE CheckR2(p) \/ MirrorR1(p) \/ MirrorR2(p) \/ Check(p)
    BY <2>4, CheckR2Keeps
  <2>5. CASE Finalize(p)
    BY <2>5, FinalizeKeeps
  <2>6. CASE Journal(p) \/ AppendEvent(p) \/ Install(p) \/ Clear(p)
    BY <2>6, JournalKeeps, AppendKeeps, InstallKeeps, ClearKeeps
  <2> QED
    BY <1>2, <2>1, <2>2, <2>3, <2>4, <2>5, <2>6 DEF Command
<1> QED
  BY <1>1, <1>2, DeliverKeeps, FinalizeElsewhereKeeps DEF Next

\* The invariant of the lifecycle (src/finance.rs).
LEMMA Invariance == Spec => []Inv
  BY InitHolds, NextKeeps, PTL DEF Spec

\* Whenever no transition is pending, the manifest's checkpoint is the tail of
\* the event ledger and no partial line follows it, for any processes killed
\* anywhere any number of times (transition_with_pending, reconcile_pending).
THEOREM JournalIsTrue == Spec => []JournalHolds
<1>1. Inv => JournalHolds
  BY DEF Inv, Disk
<1> QED
  BY <1>1, Invariance, PTL

LEMMA MadeKeepsBlockers ==
    ASSUME NEW b, Made(b, in), NEW s \in Applicable, NEW a \in {b.r1[s], b.r2[s].answer}
    PROVE  /\ a.says # "clear" /\ (a.closes = {} \/ ~(a.closes \subseteq in.accepted))
               => b.result.folded[s] # "clear" /\ ~Published(b.result)
           /\ a.open \/ a.invalidates => ~Published(b.result)
<1> DEFINE q == b.r1
           r == Said(b.r2)
<1>1. /\ s \in School /\ a \in {q[s], r[s]} /\ q[s] \in Answer /\ r[s] \in Answer
      /\ q \in R1Set /\ r \in R1Set
  BY DEF Applicable, Made, Said, Outs, Outs2, R1Set, R2Set
<1>2. /\ b.result.folded[s] = Folded(in, s, q[s], r[s])
      /\ b.result.reasons = Reasons(in, q, r)
  BY <1>1 DEF Made, Result
<1>3. a.says # "not_applicable"
  BY <1>1 DEF Made, Folds, Fits
<1>4. ASSUME a.says # "clear", a.closes = {} \/ ~(a.closes \subseteq in.accepted)
      PROVE  b.result.folded[s] # "clear" /\ ~Published(b.result)
  <2>1. a \in Unresolved(in, q[s], r[s])
    BY <1>1, <1>3, <1>4 DEF Unresolved, Blocking, Closes, Cites
  <2>2. Folded(in, s, q[s], r[s]) # "clear"
    BY <1>1, <2>1, FoldedDisposition
  <2>3. Rule[s].mode \in Reasons(in, q, r)
    BY <2>2 DEF Reasons
  <2> QED
    BY <1>2, <2>2, <2>3 DEF Published
<1>5. ASSUME a.open \/ a.invalidates PROVE ~Published(b.result)
  <2>1. s \in OpenResiduals(q, r) \/ s \in Invalidations(q, r)
    BY <1>1, <1>5 DEF OpenResiduals, Invalidations
  <2>2. Reasons(in, q, r) # {}
    BY <2>1 DEF Reasons
  <2> QED
    BY <1>2, <2>2 DEF Published
<1> QED
  BY <1>4, <1>5

\* No bundle, the review's own or one made elsewhere, clears an applicable
\* school that objected in R1 or R2 and whose objection accepted evidence does
\* not close, or publishes in spite of it, of an open residual or of an
\* invalidation, whatever was rewritten while it was made (conservative_fold,
\* publication_posture).
THEOREM BlockersAreKept == Spec => []BlockersKept
<1>1. Inv => BlockersKept
  <2> SUFFICES ASSUME Inv, NEW b \in {terminal, bundle} \ {Nothing}, NEW s \in Applicable,
                      NEW a \in {b.r1[s], b.r2[s].answer}
               PROVE  /\ a.says # "clear"
                         /\ (a.closes = {} \/ ~(a.closes \subseteq in.accepted))
                          => b.result.folded[s] # "clear" /\ ~Published(b.result)
                      /\ a.open \/ a.invalidates => ~Published(b.result)
    BY DEF BlockersKept
  <2>1. Made(b, in)
    BY DEF Inv, Disk, Bundles
  <2> QED
    BY <2>1, MadeKeepsBlockers
<1> QED
  BY <1>1, Invariance, PTL

\* Only finance-init and the installation of a manifest move the review.
LEMMA InstallAccepts ==
    ASSUME Inv, NEW p \in Proc, Install(p)
    PROVE  Review!Next
<1> DEFINE old == pending.old.facts
           new == pending.target.facts
<1>1. /\ manifest = pending.old /\ manifest # Nothing /\ pending.target \in Manifest
      /\ manifest' = pending.target /\ in' = in /\ pending.target # Nothing
      /\ in \in Input
      /\ LegalTransition(old.status, new.status)
      /\ GoodFacts(old, in, packets, terminal) /\ GoodFacts(new, in, packets, terminal)
  BY DEF Install, At, Inv, Stand, Midway, TypeOK, Disk, Pinned, GoodPending, EventFits,
         Transition
<1>2. Status = old.status /\ Status' = new.status
  BY <1>1 DEF Status
<1>3. terminal # Nothing =>
        /\ Made(terminal, in) /\ packets = R2Packets(terminal.r1)
        /\ terminal.r1 \in R1Set
  BY DEF Inv, Disk, Bundles, Made, Outs
<1>4. CASE old.status = "R1Running" /\ new.status = "R2Running"
  <2>1. old.r1 = Nothing /\ old.result = Nothing
    BY <1>1, <1>4 DEF GoodFacts, Facts, Created
  <2>2. new.r1 \in Outs /\ Admits(in, new.r1) /\ new.result = Nothing
    BY <1>1, <1>4 DEF GoodFacts, Facts, Created
  <2>3. Review!AcceptR1
    BY <1>1, <1>2, <1>4, <2>1, <2>2
    DEF Review!AcceptR1, Outs, R1Set, Admits, Cites, Review!Cites
  <2> QED
    BY <2>3 DEF Review!Next
<1>5. CASE old.status = "R2Running" /\ new.status = "Merging"
  <2>1. old.r1 \in R1Set /\ packets = R2Packets(old.r1) /\ old.result = Nothing
    BY <1>1, <1>5 DEF GoodFacts, Facts, Created, Outs
  <2>2. /\ terminal # Nothing /\ new.r1 = terminal.r1 /\ new.r2 = terminal.r2
        /\ new.result = Nothing
    BY <1>1, <1>5 DEF GoodFacts, Facts, Created
  <2>3. new.r1 = old.r1
    BY <1>3, <2>1, <2>2, PacketsTellSources
  <2>4. /\ Said(new.r2) \in Outs /\ Folds(new.r1, Said(new.r2))
        /\ Admits(in, Said(new.r2))
    BY <1>3, <2>2 DEF Made, Outs, Outs2, Said, R1Set, R2Set
  <2>5. Review!AcceptR2
    BY <1>1, <1>2, <1>5, <2>1, <2>2, <2>3, <2>4
    DEF Review!AcceptR2, Outs, R1Set, Admits, Cites, Review!Cites, Folds, Review!Folds,
        Fits, Review!Fits, Applicable, Review!Applicable
  <2> QED
    BY <2>5 DEF Review!Next
<1>6. CASE old.status = "Merging" /\ new.status = "Completed"
  <2>1. /\ terminal # Nothing /\ old.r1 = terminal.r1 /\ old.r2 = terminal.r2
        /\ new.r1 = terminal.r1 /\ new.r2 = terminal.r2 /\ new.result = terminal.result
    BY <1>1, <1>6 DEF GoodFacts, Facts, Created
  <2>2. new.result = Result(in, old.r1, Said(old.r2))
    BY <1>3, <2>1 DEF Made
  <2>3. Result(in, old.r1, Said(old.r2)) = Review!Result(in, old.r1, Said(old.r2))
    BY DEF Result, Folded, Reasons, Unresolved, Blocking, Closes, Cites, Rank, Applicable,
           OpenResiduals, Invalidations, Review!Result, Review!Folded, Review!Reasons,
           Review!Unresolved, Review!Blocking, Review!Closes, Review!Cites, Review!Rank,
           Review!Applicable, Review!OpenResiduals, Review!Invalidations
  <2>4. Review!Complete
    BY <1>1, <1>2, <1>6, <2>1, <2>2, <2>3 DEF Review!Complete
  <2> QED
    BY <2>4 DEF Review!Next
<1> QED
  BY <1>1, <1>4, <1>5, <1>6 DEF LegalTransition

LEMMA CreateAccepts ==
    ASSUME Inv, NEW p \in Proc, Create(p)
    PROVE  Review!Next
<1>1. /\ manifest = Nothing /\ in' \in Input
      /\ manifest' = [facts |-> Created, checkpoint |-> <<Created>>]
  BY DEF Create
<1>2. manifest' # Nothing
  <2>1. Created \in Fact
    BY DEF Created, Facts, Fact, Statuses
  <2>2. <<Created>> \in Seq(Fact)
    BY <2>1
  <2>3. [facts |-> Created, checkpoint |-> <<Created>>] \in Manifest
    BY <2>1, <2>2 DEF Manifest
  <2> QED
    BY <1>1, <2>3
<1>3. /\ Status = Nothing /\ Status' = "R1Running" /\ Nothing \notin {"Merging", "Completed"}
      /\ manifest'.facts.r1 = Nothing /\ manifest'.facts.result = Nothing
  BY <1>1, <1>2 DEF Status, Created, Facts, Statuses
<1>4. Review!Create
  BY <1>1, <1>2, <1>3 DEF Review!Create, Input, Review!Input
<1> QED
  BY <1>4 DEF Review!Next

\* The lifecycle implements the abstract review: the inputs are pinned once,
\* one R1 set is accepted, then one R2 set, and the result is the fold of these
\* two, whatever schools, arbiters and killed commands do in between
\* (dormant_advance, finalize_bundle).
THEOREM LifecycleImplementsReview == Spec => ReviewSpec
<1>1. Init => Review!Init
  BY DEF Init, Review!Init, Status, Statuses
<1>2. Inv /\ [Next]_vars => [Review!Next]_(Review!review)
  <2> SUFFICES ASSUME Inv, [Next]_vars PROVE Review!Next \/ UNCHANGED Review!review
    OBVIOUS
  <2>1. ASSUME UNCHANGED <<in, manifest>> PROVE UNCHANGED Review!review
    BY <2>1 DEF Review!review, Status, Said
  <2>2. CASE UNCHANGED vars
    BY <2>1, <2>2 DEF vars, state
  <2>3. CASE \E p \in Proc : Create(p)
    BY <2>3, CreateAccepts
  <2>4. CASE \E p \in Proc : Install(p)
    BY <2>4, InstallAccepts
  <2>5. ASSUME NEW p \in Proc, Begin(p) \/ Command(p) \/ InitReturns(p) \/ Kill(p), ~Install(p)
        PROVE  UNCHANGED <<in, manifest>>
    <3>1. CASE Begin(p) \/ Kill(p) \/ InitReturns(p)
      BY <3>1 DEF Begin, Kill, InitReturns, state
    <3>2. CASE Reconcile(p) \/ Examine(p) \/ CollectR1(p) \/ PacketsDiffer(p) \/ PacketsWritten(p)
      BY <3>2 DEF Reconcile, Examine, CollectR1, PacketsDiffer, PacketsWritten, state
    <3>3. CASE CheckR2(p) \/ MirrorR1(p) \/ MirrorR2(p) \/ Check(p)
      BY <3>3 DEF CheckR2, MirrorR1, MirrorR2, Check, state
    <3>4. CASE Finalize(p) \/ Journal(p) \/ AppendEvent(p) \/ Clear(p)
      BY <3>4 DEF Finalize, Journal, AppendEvent, Clear
    <3>5. CASE \E s \in School : WritePacket(p, s)
      BY <3>5 DEF WritePacket
    <3> QED
      BY <2>5, <3>1, <3>2, <3>3, <3>4, <3>5 DEF Command
  <2>6. CASE FinalizeElsewhere \/ \E s \in School : DeliverR1(s) \/ DeliverR2(s)
    BY <2>1, <2>6 DEF FinalizeElsewhere, DeliverR1, DeliverR2, state
  <2>7. CASE \E w \in Arbiter : DeliverVerdict(w)
    BY <2>1, <2>7 DEF DeliverVerdict, state
  <2> QED
    BY <2>1, <2>2, <2>3, <2>4, <2>5, <2>6, <2>7 DEF Next
<1> QED
  BY <1>1, <1>2, Invariance, PTL DEF Spec, ReviewSpec, Review!Spec
=============================================================================
