# A verification development of QUINTE

QUINTE runs a fixed deliberation: lanes answer a brief (R1), contested points
go to a second round (R2), a counterpart arbiter and a primary arbiter judge
(R3), and the scheduler merges what they said into one result.  A run lives in a
directory.  Several operating-system processes work on that directory at the
same time, any of them may be killed at any moment, and nothing but files and
`flock` holds them together.  This development is about what survives that: the
durable state of a run, the commands that share it, the rounds with their
attempts, the processes and seats that answer, the hosts that start runs, and
the finance reviews that use the same file idioms a second time.

Paths below are relative to the repository (`src/run.rs` is the crate's
`src/run.rs`; a bare `run.rs:1696` is a line of it).

## 1. Inventory

| Component (code) | State it keeps | Operations | Speaks with | Hard part |
| --- | --- | --- | --- | --- |
| Run store (`src/store.rs`) | `manifest.json`, `events.jsonl`, `diagnostics/pending-transition.json`, `cancel.requested`, `result.json`, `active-pids.json`, four lock files | `load_manifest`, `save_manifest`, `transition`, `event`, `request_cancellation`, `finalization_guard`, `process_registration`, `add_process`, `remove_active_process` | every command, through files and locks | a reader repairs the log without a lock; stale in-memory manifests are written back; a process dies between two files |
| Status machine (`src/model.rs`, `transition_allowed`) | the status in the manifest | `transition` | the store | a late failure or completion against a cancellation |
| Scheduler (`src/run.rs`: `advance`, `record_worker_failure`, `cancel`) | its in-memory manifest, the artifacts of the run directory | the stages R1, R2, R3, handoff, merge; resume; recording a failure; cancelling | store, lanes, primary arbiter | `advance` is entered again after a crash anywhere and decides by files what to skip |
| Rounds, attempts, retries (`run_phase`, `accept_or_retry_lane`, `next_attempt`, `run_retry_attempt`, `run_attempt`) | attempt directories, `retry-deadline.json`, `r2-rate-state.json`, accepted answers | launch, join, accept, retry, wait, pace | adapters, store | attempts counted by directories across kills; deadlines a later session must keep; an early failure with other lanes still calling |
| Contestation and merge (`r1_contestation`, `merge_verdicts`) | none | pure functions of the outputs | scheduler | which rule wins on mixed input; a risk nobody repeats |
| Output parsing (`src/adapters.rs`: `extract_*`, `has_unusable_final_candidate`) | none | take the answer out of an output, or call the output truncated | rounds | drafts, fences, cut-off ends |
| Primary arbiter handshake (`create_primary_arbiter_challenge`, `submit_primary_arbiter_response`, `amend_primary_arbiter_verdict`, `recover_primary_arbiter_submission`) | challenge, submission receipt, response file | challenge, submit, amend, recover | scheduler, an external agent | idempotent resubmission, a crash between receipt and response |
| Process supervision (`run_attempt`, `wait_child`, `terminate_child`, `ChildCleanup`, `reconcile_orphan_processes`) | `active-pids.json` | spawn, register, poll, kill, reap, reconcile | store, the kernel | ids that are used again, descendants, a session killed with children |
| A2A lanes and the counting gate (`await_a2a_worker`, `src/adapters.rs`: `CountingGate`, `execute_a2a_call`) | slots in use | acquire, send, poll, release | lanes, seats | a call its lane gave up keeps its slot; a queued lane must keep its time |
| Pi seat agent (`pi/src`) | `tasks.jsonl` and a task table | accept, work, retry, report | A2A lanes | a row and a record that a kill separates |
| Worker, heartbeat, wait (`src/cli.rs`, `src/run.rs`) | `worker.json`, heartbeat, `worker-finished` | spawn, beat, finish, poll | scheduler | who works on the run, judged from three files |
| Host launch (`src/host.rs`, run creation) | `host/launch.lock`, start receipts, run directories | start, reconcile, create | store, A2A | starts that race; a start whose answer is lost |
| A2A front end (`src/a2a/`) | task records | SendMessage, GetTask, ListTasks, CancelTask | host, scheduler | copies of a record written back whole |
| Finance review (`src/finance.rs`) | its manifest, hash-chained ledger, journal, packets, bundle | init, advance, finalize, verify | schools, arbiters | crash windows of a journal; outputs that change behind the command |
| Retry schedule (`retry_schedule`) | none | backoff, Retry-After, jitter | rounds | saturation at the integer bounds |
| Contest supervisor (`scripts/`), policy, brief, schema, contract, util, CLI, REPL, UI, doctor | mostly none | validation, presentation, file helpers | all | data, wording |

What makes each component correct is in section 3.  `PROJECT.json` lists every
hazard found in the code at its line, with the properties about it or the reason
why there is none.

## 2. The modules

An arrow reads "is used by"; every `MC` module is the small instance TLC runs.

```
RunStatus --> RunLifecycle                     what callers may rely on
   |               |  implemented by
   +-----------> RunStore --> RunStoreInvariant --> RunStoreProofs (TLAPS)
   |               +--> MCRunStore                 any client of the store
   |               +--> RunScheduler                   the commands
   |                       +--> RunSchedulerInvariant --> RunStoreProofs (TLAPS), MCRunScheduler
   +-----------> PrimaryArbiter --> PrimaryArbiterProofs (TLAPS), MCPrimaryArbiter
   +-----------> ArbiterInputs --> ArbiterInputsProofs (TLAPS), MCArbiterInputs
Deliberation                                   what a run promises of its calls and answers
   |  implemented by
   v
Contestation, MergeVerdicts, LaneAnswer --> RunPhases --> RunPhasesProofs (TLAPS), MCRunPhases
ChildSupervision --> ChildSupervisionProofs (TLAPS), MCChildSupervision
PiSeat, SeatCalls --> SeatSystem --> SeatSystemProofs (TLAPS), MCSeatSystem
WorkerWatch --> MCWorkerWatch
HostLaunch --> HostLaunchProofs (TLAPS), MCHostLaunch
A2ATasks --> MCA2ATasks
FinanceFold --> FinanceReview
   |               |  implemented by
   +-----------> FinanceLifecycle --> FinanceProofs (TLAPS), MCFinance
```

The run itself is cut at three places, each of which is a step of one module and
the subject of another.  A round is one step of RunScheduler, RunPhases has its
inside; a transition is one step of PrimaryArbiter, RunStore has its inside; an
attempt is one call of RunPhases, ChildSupervision (a process) and SeatSystem (an
A2A seat) have its inside, and LaneAnswer what its output is worth.

**Store and scheduler**

* **RunStatus** - the statuses, the edges of `transition_allowed`, and what a
  requested status becomes once a cancellation is requested (`Effective`).
* **RunLifecycle** - the abstract specification: a status that moves along an
  edge in one step, and a cancellation request that cannot be taken back.
* **RunStore** - `src/store.rs` at the grain other processes can observe: one
  action per file operation.  `Load` .. `RecoverDone` are `load_manifest` with
  `recover_pending_transition` (the manifest is read, the pending file is looked
  for, read and settled: separate steps, no lock).  `Transition` ..
  `RemovePending` are `transition`, which runs the load steps under
  `.manifest.lock`, then writes pending record, manifest and event in this order.
  `SaveManifest`, `RequestCancellation` .. `CleanAndSnapshot`,
  `BeginFinalization` .. `EndFinalization`, `BeginRegistration` ..
  `UnregisterProcess` are the operations of their names.  `Crash` kills a process
  between any two steps: its memory goes, the kernel drops its locks.
  `Call` states what `src/run.rs` promises as a client (who asks for which status,
  and under which lock), and nothing else about the order of calls.
* **RunStoreInvariant** - the inductive invariants: `IInv` of the files and locks,
  `LogInv` of the log; **RunStoreProofs** - the theorems about the store and about its commands.
* **RunScheduler** - the commands themselves as sequences of RunStore's
  operations: `advance` with every skip and gate (`at` is the program counter,
  `artifacts` the files it tests for), `record_worker_failure`, `cancel`, and a
  reader that loads again and again.  A manifest's `data` counts the arbiter's
  fields: challenge, staged submission, accepted submission.
* **RunSchedulerInvariant** - the inductive invariant of RunScheduler: what a command
  holds and knows where it stands (`ClientInv`), what a status and a place of
  `advance` say of the files (`EvidenceInv`); and the order of the locks
  (`LocksInOrder`).
* **PrimaryArbiter** - the handshake with the primary arbiter, from the accepted
  counterpart arbiter on: `primary-arbiter submit`, the rest of `advance` (manual
  and automatic), `primary-arbiter amend`, and `verify_result_integrity`.  It
  takes the store as RunLifecycle describes it - a transition or a save is one
  step, which the theorem `Refinement` justifies - and keeps `.run.lock`,
  `.active-pids.lock` and the order of the writes to manifest, response, request
  and result.  A response stands for its own digest and for the result merged
  from it.  `quinte cancel` appears as its steps on the store, `Kill` ends a
  command between any two writes.  Its own status implements
  RunLifecycle in turn (`LifecycleSpec`).  **PrimaryArbiterProofs** has its
  invariant and theorems.
* **ArbiterInputs** - what the arbiters are asked about.  The accepted lanes, the
  evidence packet and the counterpart's verdict (`inputs`) are bound by
  `r3/input-receipt.json`, the receipt by the manifest, both by challenge, packet
  and response; `ResumeIntegrity` is `verify_resume_integrity`, `ReceiptHolds`
  `verify_r3_input_receipt`.  The steps of `advance` from the accepted rounds to the
  result, `submit` and `amend` are the commands, one at a time; the handshake of a
  response, two steps of PrimaryArbiter and its kill in between, is one here.
  `Edit` changes a file, between commands or under one (`late`), and `Kill` ends a
  command anywhere.  **ArbiterInputsProofs** has its invariant and theorems.

**Rounds and answers**

* **Deliberation** - the abstract specification: calls, answers, the skip or the
  packet of the second round, the decision, a failure, a cancellation; no
  sessions, attempts, waits, kills or files.  A call, an answer and the packet are
  decided on (`toCall`, `toAnswer`, `quoting`) and then done, and only the first
  asks for a cancellation.
* **RunPhases** - the three rounds: the gate of each, the launch of lanes (in parallel
  as threads, or serially), the call, the join, acceptance, the classification of what
  went wrong, the retry with its persisted due time, the pacing of a serial second
  round, the packet, the skipped second round, and the merge.  Looking for a
  cancellation and acting are separate steps wherever the code has anything in
  between: `Clear` and `Accept`, `ScheduleRetry`, `GiveUp` (`run.rs:2805`, `2829`),
  `LaneStarts` and `LaneCalls` (`3052`; `Supervised` are the routes that look again
  before they spawn, `3183`), `R2Packet` and `WritePacket` (`1380`, `1386`); `SkipR2`
  does not look.  `Kill` drops the session, `Resume` enters it again with what is on
  disk.  Time is a flag that time clears: the due time of a retry (`cool`), the
  interval between two R2 transports (`recent`).  The refinement mapping reads the
  files (`accepted`, `packet`, `skipped`, the calls made) and ignores everything a
  session only remembers; what is decided on and not done is read off the session's
  place.  **RunPhasesProofs** has its invariant and theorems.
* **Contestation**, **MergeVerdicts** - `r1_contestation` and `merge_verdicts` as
  operators on answers.
* **LaneAnswer** - the parsers: an output is a sequence of pieces (prose, a valid
  or wrong or garbled object, one cut off early or late, fenced or not), and
  `Accepted`, `AcceptedVerdict`, `Unusable` say what each of five output kinds makes
  of it.  `Recognised` is what a stream's parser knows as a candidate.
  RunPhases takes the outcomes of a call from these operators.

**Transports**

* **ChildSupervision** - one adapter process per lane with a descendant: the
  registration under `.active-pids.lock`, `wait_child`, `terminate_child`, the
  drain of the group before the leader is reaped, the capture of the output,
  `ChildCleanup`, the reconciliation by the next session and the signals of `cancel`.
  Those two look who has a recorded id (`AimAtOrphan`, `AimAtSnapshot`) and signal it
  in a later step (`SignalOrphan`, `SignalSnapshot`).  The kernel's part
  (exit, reaping, reuse of an id, exec) is in `World`.
  **ChildSupervisionProofs** has its invariant and theorems.
* **SeatCalls** - `await_a2a_worker` and the thread of a call behind the
  process-wide gate; **PiSeat** - the seat's store, threads and provider retries;
  **SeatSystem** - both, with the requests between them: `SendArrives` is a step
  of both sides, `SendAnswered` and `PollAnswered` read the seat's record, a seat
  that dies loses the requests it has not answered; **SeatSystemProofs** - its
  theorems.
* **WorkerWatch** - the background worker, its record, heartbeat and marker, a
  foreground session, and the process in `wait`.

**Hosts and tasks**

* **HostLaunch** - `host start`, `SendMessage`, `host reconcile` and `quinte run`
  at the grain of directories, manifests, receipts and the launch lock;
  **HostLaunchProofs** - its theorems.
* **A2ATasks** - the task record beside a run and the requests that copy,
  project and rewrite it.

**Finance**

* **FinanceFold** - applicability, closure by evidence, the fold over R1 and R2,
  the posture; **FinanceReview** - the abstract specification (pinned inputs, one
  R1 set, one R2 set, their fold); **FinanceLifecycle** - the files: journal,
  ledger append (which may tear), manifest, packets, bindings, terminal bundle,
  the lock file, replay of what a killed command left, and outputs that are
  rewritten while a command reads them; **FinanceProofs** - that it implements the
  abstract one, and two invariants.

How state corresponds:

| Model | Code |
| --- | --- |
| RunStore `manifest.status`, `manifest.data` | `RunManifest::status`; a revision number for all other fields |
| `pending`, `events` | `PendingTransition`; the `run.transition` records of `events.jsonl` (other events do not matter to recovery) |
| `runLock`, `manifestLock`, `eventsLock`, `pidsLock` | `.run.lock` (tried), `.manifest.lock`, `.events.lock`, `.active-pids.lock` (waited for) |
| `mem[p]` | the `RunManifest` a caller passes by `&mut` |
| `cur[p]`, `seen[p]`, `want[p]`, `op[p]` | locals of `load_manifest` and `transition`, and where it stands |
| `snapshot[p]` | the list `request_cancellation` returns |
| PrimaryArbiter `manifest`, `response`, `request`, `result` | status, challenge, submission receipt (`receipt`, `bound`) and `result_sha256` (`digest`) of `RunManifest`; `r3/primary-arbiter-response.json`, `r3/primary-arbiter-request.json`, `result.json` |
| ArbiterInputs `inputs`, `receipt`, `packet`, `request`, `manifest` | the three kinds of artifacts, `r3/input-receipt.json` (with its time of issue), `r3/primary-arbiter-packet.json`, the published challenge; `r3_input_receipt`, `primary_arbiter_challenge` and `primary_arbiter_submission` of `RunManifest`, a digest being the thing itself |
| RunPhases `dirs`, `accepted`, `deadline`, `pacing`, `skipped`, `packet` | the highest `attempt-<n>`, `accepted.json` (`r3/cc-response.json`), `retry-deadline.json`, `r2-rate-state.json`, `r2/skipped.json`, the lanes quoted by `packets/r2.json` |
| RunPhases `at`, `phase`, `cur`, `job`, `try`, `got`, `failed`, `stopped` | the scheduler thread's place and the locals of `run_phase`; `job` is a lane's thread |
| ChildSupervision `pids`, `seen`, `lock`, `leader`, `rest`, `known`, `aims` | `active-pids.json`, the list `remove_active_process` has read, `.active-pids.lock`, the kernel's processes, the records of processes that lanes and cancellers hold, the calls of `kill_verified_process_tree` between check and kill |
| SeatCalls `held`, `signal`, `deadline` | the gate's counter, the channel by which a call reports its slot, the lane's deadline |
| PiSeat `rows`, `tail`, `memory` | the rows and the end of `tasks.jsonl`, `TaskStore`'s map |
| WorkerWatch `recorded`, `beat`, `finished` | `diagnostics/worker.json`, `worker-heartbeat`, `worker-finished` |
| HostLaunch `run`, `receipt`, `lock` | a run's directory without or with its manifest, `host/receipts/`, `host/launch.lock` |
| FinanceLifecycle `manifest`, `ledger`, `torn`, `pending` | `manifest.json` with its event checkpoint, complete and partial lines of `events.jsonl`, `pending-transition.json` |
| `start`, `committed`, `written`, `issued`, `late`, `calls`, `unpaced`, `struck`, `reported`, and the counters of kills and faults | history, and counters for the bounds; no action reads them but through a bound (`written` also serves as the UUID of a record, `issued` as the time of a receipt) |

## 3. What is checked

Runs that pass:

| Run | Instance | Shows |
| --- | --- | --- |
| `store_crashes` | two processes, any order of calls from Merging, one kill anywhere, one failing append | `NoResultAfterCancel`, `CompletedHasResult`, `SnapshotCoversProcesses`: the locks exclude what they are for; `PendingFitsManifest`, `LogIsFaithful` (what the log says happened, and is said once), `LogIsComplete` (without kills and failed appends nothing is missing whenever no transition is under way); `LifecycleSpec`: the store implements RunLifecycle |
| `scheduler_resume` | two workers that compete for the run lock, one killed at any step, and a cancellation; automatic arbiter | `TransitionsAreLegal`, `ResultHasEvidence`: a second pass through `advance` skips the right things; `LocksInOrder`: no circle of commands that wait for each other's locks; `StoreRules`: the commands are clients as RunStore assumes |
| `scheduler_fair` | a worker, and a command that cancels or only loads; manual handoff, no kill, fair | `CancellationEnds`, `SessionEnds`, `RequestIsOwned` |
| `arbiter_handshake` | two commands at a time of any kind, two responses, one kill, a cancellation, an expiring challenge, fair | `OneResponse`: whatever competes or is repeated, the first bound response stays the only one; `NeverDrifts`: no crash, retry or cancellation makes a command take its own files for changed ones; `ResultIsAccepted`, `MismatchMeansAmend`: the result shown is the accepted response's, accepted once, until an amend, which may be killed between its two writes; `RetryRecovers`: an identical retry ends the run |
| `phases` | two lanes and the counterpart, two attempts each, serial and parallel R2, one kill, a cancellation, fair | `DeliberationSpec`: with kills and resumes, the rounds implement Deliberation - calls within the budget, a round on all of the one before, answers that stand, no result after a cancellation and nothing else but what was decided on before it; `CooldownKept`, `PacedUnlessKilled`: what delays calls survives a kill; `RisksSurvive`: a high-risk residual nobody repeats is in the result; `FinalCandidateDecides`: over every output of up to three pieces, a lane does not go on with an older draft than the last object its parser recognises, and is asked again when that was cut off; `LanesJoined`, `SessionEnds` |
| `finance` | two commands, two schools, an arbiter, evidence or none, one kill, two rewritten outputs, fair | `JournalHolds`, `ReviewSpec`: the commands implement FinanceReview although outputs change behind them; `BlockersKept`; `RetryCompletes` |
| `host` | three commands of any kind, three runs, one kill | `OneActive`, `ReconcileIsTrue` |
| `seats` | two lanes, one slot, two calls in all, a seat that dies or cannot write once, fair | `CallsWithinLimit`, `QueuedKeepsBudget`, `AnswerSurvives`, `LanesReturn` |
| `supervision` | two children, one with a descendant, two sessions, a cancellation, fair | `NoStrayKill`: an attempt signals nobody who took an id over, and reconciliation and `cancel` only one who did so after their check; `LeavesNothing`, `OrphansFound`, `AttemptEnds` |

ArbiterInputs is proved about and has no run of its own in `PROJECT.json`: its
safety properties and its refinement of RunLifecycle hold for every instance
(section 4).  `tlc -config ArbiterInputs.cfg
MCArbiterInputs` checks them (and `LifecycleSpec`) in about ten seconds on one run from R2's gate on, manual
or automatic, two contents, two kills, two edits of any of its files, a cancellation,
submissions and amendments (297 758 states, in which every action is taken).
`NoFalseDrift`: what a kill leaves of receipt, packet and response never looks like an
edit; `ResultOfBoundInputs`: what is edited between two commands gets into no result,
published or amended; `BindingIsKept`: nobody is asked twice about different inputs.

Runs that find what a document or a comment says violated (the findings of
`PROJECT.json`):

* `finance_evidence` - `AdvanceCompletes`.  The copy of the inputs that
  `finance-advance` verifies in its last step lacks the evidence items, so that the
  verification of a review whose index lists one fails (`finance.rs:2422`, 2447),
  before the transition to merging (2480-2481): the review stays in r2_running for
  ever (`FINANCE-PROTOCOL.md:72-76`).
* `a2a_artifacts` - `ArtifactIdsAreStable`.  Two requests that project one
  completed task hold copies of its record and report its artifacts under two ids
  (`a2a/host_map.rs:375`, against the comment at 370-372).
* `wait_liveness` - `WaitEnds`.  A worker that was refused the run leaves
  `worker-finished` like one that finished; if the session that held the run is
  killed, `wait` takes the marker for a run in order and polls for ever
  (`run.rs:5194`, `CLI.md:114-116`).

Every property of a run that passes has a mutant: a small change to a definition of
the model, as a plausible bug would make it, under which the run finds the
property violated.  The mutated forms stand before what they change, under a
comment that begins with "Mutated".

### Bounds

* `store_crashes`: two processes.  The properties of the store relate at most a
  writer and one other process (a reader that repairs, a canceller, a second
  session); the invariant is proved for any number.  `MaxTransitions = 2`: the
  first transition leaves a pending record and the second must meet it; starting
  at Merging, two reach every terminal status, by completion, failure and
  cancellation, and by a cancellation in two steps.  `MaxData = 0`: a save is
  there and changes nothing but what it carries of the status, which is what the
  properties see.  One child: children are independent of each other; what
  matters is whether there is any when a cancellation looks.  `MaxCrashes = 1`,
  `MaxFaults = 1`: one kill anywhere, one append that fails.
* `scheduler_resume`, `scheduler_fair`: `MaxTransitions` is never reached, a
  session makes at most eleven.  `MaxData = 3`: challenge, staged and accepted
  submission, all there is.  `MaxSessions = 2`: the one that is killed or fails
  and the one that resumes.
* `arbiter_handshake`: a submission competes with one other command, whose
  response is the same or another; the run lock keeps a third out.
  `MaxKills = 1`: one kill at each place; `accepted` counts events to two, which
  is once too often.
* `MCArbiterInputs`: two contents, so that an edit is a change and a second one may
  undo it; two edits, so that both ends of a binding can be changed; two kills, so
  that a receipt can be issued a third time.
* `phases`: two lanes contest or agree, one may fail while the other calls.
  `MaxAttempts = 2`: a retry, and its end.  Two answers of R1, one with a
  high-risk residual that no answer of R2 repeats and an arbiter omits or closes.
  `MaxPieces = 3`: a draft, something between, and an end; all five kinds of
  output.  `Supervised = {l1}`: one lane is a child process, the other lane and the
  arbiter are called from the session's process.  512,102 states.
* `finance`: one school the claim concerns and one it does not (the fold treats
  schools one by one); an arbiter; two rewritten outputs, so that one can change
  between reading and binding in each phase.
* `host`: three commands, because a start, a competing one and the `quinte run`
  or reconcile that meets both differ; three runs.
* `seats`: `Limit = 1`, so that the second lane waits; `MaxCalls = 2`, of both lanes
  together, so that one is given up while the other queues; each retry of the provider
  counts to two.
* `supervision`: one lane's leader forks, the other's does not; the session that
  is killed and the next, in which the lane that forks tries again (`Resuming`: what
  two lanes do to each other happens in the first session).  Each signaller looks at
  one process after the other, as the code does.  83,024 states.
* `a2a_artifacts`, `wait_liveness`: two requests, `MaxIds = 3`; one kill.
* Symmetry permutes processes that have no role (RunStore, HostLaunch) or the
  same one (the workers of `scheduler_resume`), and the contents of
  `MCArbiterInputs`, in runs without liveness only.
* Deadlock is not checked: commands return, bounds are exhausted, a run ends.
  That nobody waits in a circle is `LocksInOrder`, `SessionEnds`, `LanesReturn`,
  `AttemptEnds`.

### Fairness

* `scheduler_fair`: a command once started runs on: weak fairness of the worker's
  actions, the canceller's actions and the store operation under way.  Nothing is
  assumed about starting a command.  The one strong fairness is on the end of a
  lane phase, whose condition "no child is running" comes and goes with attempts:
  `max_attempts` bounds a lane's attempts and `timeout` each attempt, so a phase
  cannot go on for ever.  No kill is allowed there: a killed command ends nothing
  until somebody resumes it.
* `arbiter_handshake` has one kill and therefore needs a client that retries:
  weak fairness of each command once started, and strong fairness of an identical
  submission while the run has a receipt and has not ended, and of the `advance`
  at the end of a submission.  Both stand for a client that repeats a submission
  which did not return, as `specs/CLI.md` lets it do, and does not lose the run
  lock to another command every time.  Nothing is assumed about a client without a
  receipt: a challenge nobody answers, or one that expired unanswered, waits for
  ever.
* `phases`: weak fairness of all that goes on by itself, taken together
  (`Progress`): as long as the scheduler's thread, a lane's thread (a call ends by its
  deadline, `wait_child` and `await_a2a_worker`) or a due time can go on, one of them
  does.  That is less than fairness of each, and enough, because none of them goes on
  for ever.  Nobody has to resume: `SessionEnds` is about a session that runs.
* `finance`: weak fairness of a command that was started; somebody keeps asking
  for an advance (strong, because the lock file may be held each time).  Nobody
  has to deliver anything; `RetryCompletes` assumes that everything was delivered.
* `seats`: weak fairness of the calls' threads and of a lane that has a result to
  receive; nothing of the seat, which may be down for ever, and nothing of a lane's
  timeout, which does not run before its call has a slot.
* `supervision`: weak fairness of the threads of a living worker, whose every wait
  has a deadline; nothing of the processes.
* `wait_liveness`: processes that are not killed go on, and the waiter polls;
  nobody has to resume.

### Observations

What the models show besides, where no document promises otherwise or the
documents leave it open; each was seen in a TLC trace or follows from an action
that was translated from the lines named.

* Store.  A transition of a status to itself, as a resume makes, has `from = to`:
  killed between manifest and event, it looks uncommitted to the repair, and its
  event is lost (`store.rs:523`).  A lock-free load that read the old manifest,
  while a transition wrote its record and the new manifest and was killed, takes
  the record for an abandoned one and removes it (`store.rs:131`).  After an
  append failed, a slow reader that repairs the log may write its event behind
  that of the next transition: the log is faithful, its order is not kept.  With a
  failed append a cancellation may not end either, because the second load of
  `cancel` fails when a reader has removed the pending file under it.
* Arbiter.  An automatic run killed between the staged receipt and the response
  file is resumed into `waiting_primary_arbiter` with a response nobody has
  (`run.rs:1696`); `tests/cli_async.rs:367` says of runs without a kill that
  automatic arbitration never shows that status.
* Inputs.  `cc-response.json` and the lanes are read again, or were read before,
  the checks of the receipt (`run.rs:4555`, `1326`): a file that is edited under a
  running command may get into its result.  `ResultOfBoundInputs` is therefore about
  edits between commands.  When a cancellation is requested the save of receipt
  and challenge is skipped, and a packet or a request nobody owns is written; the
  next command takes it for an edit, but its `FailedPolicy` turns into `Cancelled`.
* Rounds.  `PROTOCOL.md:298` calls R2 mandatory; the adaptive policy skips it after
  a unanimous R1.  `run_retry_attempt` gives a retry `policy.timeout_seconds`
  (`run.rs:3011`).  `PROTOCOL.md:245` "recognizes only these trusted transient
  conditions", among which a failed A2A seat task, which is retried
  (`run.rs:3445`), is not.
* Cancellation.  What the scheduler does after its last look for a cancellation still
  happens when one arrives: an answer is accepted (`run.rs:2803-2829`), a chat or A2A
  call is made (`3052`, `3081-3099`; only a subprocess looks again, `3183`), the packet
  of R2 is written (`1378-1386`), a retry is scheduled or a lane given up.  A skipped
  second round is recorded without a look (`1360-1377`).  `DeliberationSpec` is
  therefore not "nothing after a cancellation": it bounds this to what had been
  decided on, and excludes a result.
* Parsers.  Chat replies and the arbiters' verdicts fall back to an older valid object
  (`adapters.rs:1305-1316`, `1073-1082`); `FinalCandidateDecides` is therefore about
  the lanes' streams.  In the text of an event, unlike in a CodeWhale stream, an
  object that was cut off before it has enough of an answer's keys is no candidate,
  unless it was cut off in its first key and that is the version's
  (`adapters.rs:1437`, `2136-2142`, `2200-2215`): a valid draft before it is accepted.
  The comment at `1412-1418` does not make this exception; `Recognised` does, so the
  properties do not speak of such objects.  An unfinished object without a key, and a
  last object with unquoted keys after a valid one, are no candidates.  Complete
  drafts in fences are candidates only as far as their objects are found.  A garbled
  fence with a wrong object behind it is retried, though a schema-invalid candidate is
  not (`PROTOCOL.md:257`).  A chat reply's `finish_reason` of `length` is not looked
  at.  Routes of production build two of the output kinds; the others are built by the
  test adapters or by none.
* Finance.  A kill between merging and completed leaves a review in merging: no
  advance starts there (`finance.rs:2492`).  A partial last line of the ledger, as
  a kill during an append leaves it, is refused by every later command
  (`finance.rs:1728`).  An R1 answer that wrongly says `not_applicable` is accepted
  and makes the fold refuse every R2 (`finance.rs:2933-2944`).  No code writes
  Failed or Cancelled.
* Seat.  A restarted seat reports what it was working on as working for ever
  (`pi/src/rpc.rs:93`); a failed write of the last state is ignored
  (`rpc.rs:118`); a torn line keeps the seat from starting.  The lane's timeout
  ends the call.
* A2A.  The blank record `load_or_recover` makes up may overwrite the one
  `SendMessage` writes; `ListTasks` fails as a whole on one unreadable run; a lost
  race for the launch lock is answered with an internal error rather than "busy"
  (`host_map.rs:201-211`).
* Wait.  A missing `worker.json` counts as a run in order; nothing removes the
  marker; a foreground resume after a killed worker makes `wait` report a dead
  worker though somebody works on the run.
* Supervision.  A kill between the spawn and its registration leaves a child that
  no session knows; descendants of a leader that died with its session survive the
  reconciliation; a recorded process that changed its command line is taken for a
  stranger.  Reconciliation and `cancel` ask `ps` who has an id and then signal it
  (`run.rs:4850-4876`, `4896`): if the process ends in between, init reaps it and the id
  is given to somebody else, the signal hits that process.  TLC reaches this in seven
  steps; `NoStrayKill` excepts it and nothing more.

## 4. What is proved

`RunStoreProofs` proves, for any set of processes and children, any bounds and
any starting stages:

| Theorem | Statement |
| --- | --- |
| `Invariance` | `Spec => []IInv` |
| `TypeCorrect` | `Spec => []TypeOK` |
| `CancelPreventsResult` | `Spec => []NoResultAfterCancel` |
| `ResultIsKept` | `Spec => []CompletedHasResult` |
| `SnapshotIsComplete` | `Spec => []SnapshotCoversProcesses` |
| `RecoveryFits` | `Spec => []PendingFitsManifest` |
| `Refinement` | `Spec => LifecycleSpec` |
| `EndIsFinal` | `Spec => TerminalIsFinal` |
| `LogInvariance` | `Spec => []LogInv` |
| `LogTellsTheTruth` | `Spec => []LogIsFaithful` |
| `LogTellsEverything` | `Spec => []LogIsComplete` |

Assumptions: the stages a history starts at are stages (`StartAssumption`); the
three "none" values are none of the values they stand beside (`NoneAssumption`);
the bounds are numbers (`BoundAssumption`).

The argument.  None of the properties is inductive.  That a cancelled run never
completes, for instance, needs that the transition to the result runs under
`.active-pids.lock` from before `cancel.requested` was tested until after the
manifest was saved (`PidsLockHeld`, `ResultIsUncancelled`), that what a transition
writes is what it decided on the manifest that is still on disk (`ReadsAreLoaded`,
`WriteIsAllowed`), and that `save_manifest`, which writes a copy read long ago,
never carries an old status: only the holder of `.run.lock` calls it, and until a
cancellation is requested nobody else moves the status (`RunLockHeld`,
`WorkerKnowsStatus`).  The last of these is the subtle one: it holds through
every load the worker makes, including those that repair a dead writer's record.
`IInv` is the conjunction; each action has a lemma with one step per conjunct it
can disturb, and the lemmas are joined along `Next`.  `StepRefines` then shows that
only three actions touch what RunLifecycle sees: saving a transition is its
`Move`, writing `cancel.requested` its `RequestCancellation`, and `save_manifest`
changes no status.

`LogInv` is about the log.  A record to be appended must be of a transition that was
made (`WritersAreRight`), also when it is a reader's that found the record beside a
manifest it had read before.  What makes this true is that statuses only lead on:
every edge but that of a status to itself raises a rank (`Rank`), what a load has
read of the manifest never outranks it (`ReadsAreOld`), and a pending record is
either of the last transition or of one that would leave the present status
(`PendingIsKnown`).  A reader whose copy has the status the record leads to has
therefore met a record that was committed.  That a record is in the log once is the
comparison of ids under `.events.lock`, together with the numbering of records in
the order they are written (`RecordsAreNumbered`).  Without kills and faults the log
lags by one record at most, and its writer is about to append it while it still
holds `.manifest.lock` (`LogKeepsUp`); this is why `LogIsComplete` need not wait
until everything is settled.

The second half of the module is about RunScheduler, whose commands are sequences of
the store's operations.  It holds for any numbers of workers, cancellers and
readers, with kills anywhere:

| Theorem | Statement |
| --- | --- |
| `SchedInvariance` | `SchedSpec => [](IInv /\ ClientInv)` |
| `CommandsKeepRules` | `SchedSpec => StoreRules` |
| `EvidenceInvariance` | `SchedSpec => []EvidenceInv` |
| `NoIllegalTransition` | `SchedSpec => []TransitionsAreLegal` |
| `ResultIsFounded` | `SchedSpec => []ResultHasEvidence` |
| `RequestHasOwner` | `SchedSpec => []RequestIsOwned` |
| `CommandsFollowLifecycle` | `SchedSpec => LifecycleSpec /\ [](LogIsFaithful /\ LogIsComplete)` |
| `NoCircularWait` | `SchedSpec => []LocksInOrder` |

Beyond the store's assumptions they use `ProcAssumption` (a process runs one of the
three kinds of commands) and `SchedulerAssumption` (a new run is `Queued`, as run
creation writes it; only the evidence theorems need it, and the theorems about the store
cite neither).

The argument.  RunStore assumes that its clients keep rules (`Call`): who asks for
which status, under which lock, after which load.  `CommandsKeepRules` discharges
them, so that every theorem about the store holds of `advance`, `cancel` and the
commands that load: no step of a command is outside the store's `Next`.  It
needs to know of every command which locks and which operation belong to its place
(`LockFits`, `OpFits`, `GuardFits`), and three things the code never tests: that
what stands behind a load has a manifest (`ManifestKnown`), that a cancellation marks
the run after its request (`MarkIsRequested`), and that only a run that is merging
gets to its finalization (`MergeIsKnown`) - the last through the answer of
`transition`, which may have become a cancellation.  A step of one command leaves what
is true of the others (`OthersFit`), because a lock passes between its holder and
nobody.

`EvidenceInv` is what makes a resume right.  `advance` skips what it finds done, and
it looks at two things that are written one after the other: the files, and the
status.  Until a cancellation is requested each bounds the other (`Evidence`): a
status names the files that must be there, and the files that cannot be there yet,
so that "`cc` is missing" excludes `WaitingPrimaryArbiter`, and a packet found at
`R1Gate` is excluded altogether.  A place of `advance` admits only some statuses
(`StatusAt`) and files (`FilesFit`); its manifest has the data of the one on disk
until the submission is recovered (`DataFits`); and a transition under way will have
its evidence when it is saved (`PlanFits`).  The last is where the three properties
meet: the edge is legal because place, status and files agree before the request.
That a run which ended is found terminal by the next session (`EndIsSeen`) and is not
ended under a session at work (`NotEnded`) excludes the transitions `advance` would
otherwise ask of a terminal run.  Once a cancellation is requested saves are skipped
and nothing of this is claimed; what is written from then on is a cancellation.

`NoCircularWait` is the safety half of "commands end".  The run lock is only tried;
the other three are waited for, in the order `.active-pids.lock`, `.manifest.lock`,
`.events.lock`.  `Awaited` says what a command may have to wait for where it stands,
the events included that carry no transition (`run.completed` is appended under the
finalization guard, `run.rs:1755`); that who holds a lock is only where a later one
is awaited follows from where each lock is held (`ManifestLockHeld`, `GuardFits`,
`EventsLockHeld`).

The other theorems hold for any values of the constants, too:

| Module | Theorem | Statement |
| --- | --- | --- |
| `PrimaryArbiterProofs` | `ResponseIsBound` | `Spec => OneResponse` |
| | `FilesFit` | `Spec => []NeverDrifts` |
| | `ResultIsTheResponse` | `Spec => []ResultIsAccepted` |
| | `MismatchIsAmend` | `Spec => []MismatchMeansAmend` |
| | `HandshakeFollowsLifecycle` | `Spec => LifecycleSpec` |
| `ArbiterInputsProofs` | `NeverMistaken` | `InputsAssumption` gives `Spec => []NoFalseDrift` |
| | `ResultIsBound` | `InputsAssumption` gives `Spec => []ResultOfBoundInputs` |
| | `BindingsArePermanent` | `InputsAssumption` gives `Spec => BindingIsKept` |
| | `InputsFollowLifecycle` | `InputsAssumption` gives `Spec => LifecycleSpec` |
| `RunPhasesProofs` | `RunDeliberates` | `Spec => DeliberationSpec` |
| | `BudgetKept` | `Spec => []BudgetHolds` |
| | `GateKept` | `Spec => []GateHolds` |
| | `CooldownIsKept` | `Spec => CooldownKept` |
| | `PacingIsKept` | `Spec => PacedUnlessKilled` |
| | `LanesAreJoined` | `Spec => LanesJoined` |
| | `RisksAreKept` | `Spec => []RisksSurvive` |
| | `DraftsDoNotDecide` | `LastCandidateDecides` |
| | `CutsAreNoticed` | `TruncationIsNoticed` |
| | `FinalDecides` | `Spec => FinalCandidateDecides` |
| `ChildSupervisionProofs` | `NoStrangerIsHit` | `Spec => []NoStrayKill` |
| | `NothingIsLeft` | `Spec => []LeavesNothing` |
| | `OrphansAreFound` | `Spec => []OrphansFound` |
| `SeatSystemProofs` | `GateHolds` | `SystemSpec => []CallsWithinLimit` |
| | `BudgetIsKept` | `SystemSpec => []QueuedKeepsBudget` |
| | `AnswerIsKept` | `SystemSpec => []AnswerSurvives` |
| `HostLaunchProofs` | `HostsHaveOneRun` | `Spec => []OneActive` |
| | `ReconcileTellsTheTruth` | `Spec => []ReconcileIsTrue` |
| `FinanceProofs` | `JournalIsTrue` | `Spec => []JournalHolds` |
| | `BlockersAreKept` | `Spec => []BlockersKept` |
| | `LifecycleImplementsReview` | `Spec => ReviewSpec` |

**PrimaryArbiter**, from `ArbiterAssumption` (the free lock is nobody's, no
response is not a response, the bound is a number).  Commands exclude each other
by `.run.lock`, so that a command's manifest is the one on disk (`Fresh`) - until
a cancellation is requested: from then on saves are skipped, the command goes on
with a manifest that was never written, and may even write a response file for
it.  What remains true is one-sided: a receipt on disk is in the command's memory
too, with the same response (`Owns`).  That is enough for `OneResponse` and
`NeverDrifts`; and since a run with a requested cancellation completes no more
(`Ends`; the guard of the finalization is in `Merges`), the rest of the invariant
needs to speak of uncancelled runs only.  The same one-sidedness gives
`HandshakeFollowsLifecycle`: what a command saves from memory has the status on
disk, because a save is skipped as soon as it might not.

**ArbiterInputs**, from `InputsAssumption` (what is missing has no content, the
bounds are numbers).  Three parts of the invariant carry one theorem each.  A
command has every binding of the manifest in memory (`Knows`), whatever is skipped,
edited or cancelled, and issues a receipt only when it has none: nothing bound is
ever replaced.  Until a file changes under it, a command that got past the checks
sees the artifacts its receipt names (`Fresh`).  Until any file changes, and as
long as the run is neither cancelled nor over, manifest and files agree (`Agrees`):
the only thing a kill can leave unbound is the receipt, because packet, request
and response are written after the save.  `InputsFollowLifecycle` needs one fact
more: until a run is stopped, its command knows its status (`Abreast`).

**RunPhases**, from `PhasesAssumption` (no lane is the counterpart, "nobody" is a
route of no round, the budget is a positive number), `AnswersAssumption` (what the
lanes and arbiters may say consists of residuals as `model.rs` types them) and
`CarrierAssumption` (the kinds of outputs are among the five, the number of pieces
is a number).  The invariant `PInv` is about one session at a time and what
it finds on disk.  Where the scheduler's thread stands bounds how far each lane can
be (`Stages`), so that there is a moment, the one in which answers are taken and
the run is given up, when no lane is out: this is `LanesJoined`.  A call is made
only after its directory, and the number of an attempt is the number of
directories (`Counted`); a kill loses the thread, never a directory, and may leave
one without a call, which is why calls are at most directories and not equal to
them.  A due time that has not come is on disk (`Deferred`), and whoever starts a
transport in a serial R2 leaves a pacing behind, is about to, or was killed in
between (`Spaced`).  What a round was begun on - all answers of R1, the contested
points, the packet of exactly these, or the skip - is never withdrawn (`Founded`):
accepted answers are not replaced, so that what they contest stays the same.
`RisksSurvive` is about the merge alone, and rests on what a merged residual is
when both arbiters, one, or none of them has it.  The two facts about outputs are
about every output of any number of pieces: the candidate the parsers take is the
last recognised one because each of the scans they combine returns the last place of
its kind.  `FinalDecides` follows them through the classification: an attempt whose
stream ended in a recognised object that is no answer cannot have come to an answer,
and one whose object was cut off can only have come to a retry, whatever the exit
code, the deadline or a rate limit made of it (`Unanswered`); from there settling,
`RetryAllowed` and the kill leave it nothing but to be put off, given up without
attempts left, or lost with its session.  `RunDeliberates` maps the files and the
session's place to Deliberation: making the directory, waiting, joining, classifying
and resuming are stutters; passing the last look for a cancellation is a `ToCall`,
`ToAnswer` or `ToQuote`, the start of a transport a `Call`, taking an output an
`Answer`, and a kill between the two drops what was decided on (`Drop`).  Beyond
`PInv` it needs that a session which is still there after the end of its run was
cancelled, and that an attempt which came to an answer had been called (`Going`): an
output can be taken only in the session that called for it.

**ChildSupervision**, from `SupervisionAssumption` (those that fork or try again
are lanes, none is "nobody", there is a session).  `NoStrayKill` is inductive only
together with the order of the end of an attempt: as long as the thread signals,
the leader is alive or an unreaped zombie, and it is reaped only when nobody of its
group is left (`Kept`); and with what the other signallers saw: every signal on its
way is to a process that was there under the recorded start time and command line
(`Looked`).  `OrphansFound` needs that the list of children is read and
written back under one lock (`Locked`), so that two lanes that end at once do not
put each other's children back or forget them, and that a child which runs under
the command line it was recorded with is listed (`Listed`).  That a child of an
earlier session has no thread any more (`Working`, `Fresh`) keeps the two sessions
apart.

**SeatSystem**, from `SeatAssumption` and `SystemAssumption` (finitely many lanes,
at least one slot, the bounds are numbers, at least one provider attempt of each
kind).  The gate's counter is the number of calls that have a slot, among them those
their lanes gave up, because only the thread of a call takes and returns it
(`CountIsTrue`).  A lane has a deadline only for a call that reported its slot
(`BudgetIsTrue`).  When the seat reports a task completed, its last row says so and no
thread is left that would write another.

**HostLaunch**, from `LaunchAssumption` (the bounds are numbers, the free lock is
nobody's, an absent receipt is neither a receipt nor a run).  Whoever is past the scan
on behalf of a host holds the launch lock (`LockHeld`), so that what it saw of other
hosts' runs stays true until its own run has a manifest (`Alone`); `quinte run` does
not take the lock, but never touches a run of a host (`MineFits`).  That a reconcile
finds the last run a host started needs `Receipted`: the receipt is written before the
worker is spawned, and never removed.  While a reconcile answers it holds the lock, so
no other host can spawn a worker and make its answer untrue; a `quinte run` can, but
starts no run of a host.

**Finance**, from `FoldAssumption` (there is a school, each has a rule),
`LifecycleAssumption` (inputs and answers are such, the free lock is nobody's, the
bounds are numbers) and `NothingAssumption` (absence is none of the values).  Of
what the files hold, three things never change once they are there: the pinned
inputs, the packets of R2 and the terminal bundle.  The facts of a manifest are
made of these (`GoodFacts`), so that a transition that was written to the journal
remains the right one, whichever command completes it.  That the bundle is made
of the R1 set the manifest accepted, though outputs are rewritten in between,
follows from the packets: an R2 output carries the packet it answers, and a packet
the R1 set it was made of.

Only model-checked (every invariant and every action property of a run is proved):

* A2ATasks and WorkerWatch, whose runs are about a violation.
* Liveness under fairness (`SessionEnds`, `CancellationEnds`, `RetryRecovers`,
  `RetryCompletes`, `LanesReturn`, `AttemptEnds`): out of the prover's reach, as is
  `ENABLED`.

Induction is used in one form only.  The library's induction theorems take an
operator as a parameter, which the provers cannot instantiate; `HasLatest` of
HostLaunchProofs and its like in RunPhasesProofs take a least element of a set of
numbers instead (`WFMin`, `NatLessThanWellFounded`).

## 5. What is taken as given, and what is left out

* `atomic_write` (write, fsync, rename), `create_new` and an append under
  `.events.lock` are one step each; `flock` excludes and is released with its
  process.  A torn last line is modelled where it decides something (the finance
  ledger, the seat's rows), not for a run's `events.jsonl`.
* A lane phase of RunScheduler is one step that accepts all outputs or fails.  Its runs
  begin where run creation leaves them, at `Queued`; RunStore begins at any stage.
* Unexpected I/O errors are modelled where the code turns them into an outcome of
  its own (a failing event, a vanished or unfitting pending record, a row that
  cannot be written, a run directory that cannot be completed).  Any other aborts
  the command, which is a kill followed by the failure record.
* PrimaryArbiter: a response is one whose content passed validation (schema,
  degenerate verdict, evidence references); the legacy `hm-response.json` and the
  event `primary_arbiter.amended` carry no state the properties tell apart.  Files
  changed from outside are in ArbiterInputs as far as the arbiters are concerned;
  a changed brief, policy, snapshot or runtime is `IntegrityDrift` of RunScheduler.
* ArbiterInputs: an edit changes a file's content, nobody deletes one; the lanes'
  `accepted.json` files count as one.
* RunPhases: the amounts of backoff, `Retry-After`, jitter and intervals
  (`retry_schedule`); that a due time passes is all that matters.  The fields of
  an answer that decide nothing (wording, sources).
* LaneAnswer: characters.  A piece is what the parsers make of it; which text is
  which piece (string escapes, strict UTF-8, duplicate keys) is the parsers' own.
  The helpers that only word an error are left out.
* ChildSupervision is the Unix code; Windows job objects are not modelled.
* FinanceLifecycle: canonical JSON and digests are identities of contents; policy
  and profile are validated before the first state.
* HostLaunch: preflight, status and inspect read only.  A2ATasks: wire format,
  agent card, HTTP.
* Not modelled at all: `scripts/` (a driver of the command line that no part
  calls), policy, brief, schema, contract and util (validation of data, file
  helpers), REPL, UI, doctor, completions (presentation).  `PROJECT.json` gives the
  reason for each.

## 6. Plan

1. Done: the store, the scheduler, the handshake and its inputs; the rounds with the parsers,
   contestation and merge; supervision, seats, wait; hosts and tasks; finance.
2. Proofs, done: the store and its refinement, the commands that call it, the
   handshake and its inputs, rounds and parsers, supervision, seats, hosts, finance.
   No invariant of a run is left to prove; liveness stays with TLC.
3. Larger parts that could follow: `host status` and its projection of attempts,
   the Windows side of supervision.

## 7. Running

`tlc -config StoreCrashes.cfg MCRunStore.tla` and likewise for the other
configurations (`PROJECT.json` names module and configuration of each run);
`tlapm` checks the proofs of RunStoreProofs, PrimaryArbiterProofs,
ArbiterInputsProofs, RunPhasesProofs, ChildSupervisionProofs, SeatSystemProofs,
HostLaunchProofs and FinanceProofs.
