# Kyrei in TLA+

Kyrei is a desktop agent platform: an Electron shell and a React interface over
a local Node gateway (`core/gateway.js`) that drives language models, tools,
chat sessions, teams of model roles, scheduled jobs and durable *pipeline
missions*. This project specifies the parts of the gateway in which several
actors work on one piece of state and anything may fail in between: the missions
with their store, lease and files; the locks between processes; the turns of a
session; the provider accounts a turn fails over between; scheduled jobs; and
team runs.

All source paths below are relative to the repository root.

## 1. The system

| Component | State it keeps | Operations | Hard behaviour |
|---|---|---|---|
| Pipeline run store `core/pipeline-run-store.js` | one record per mission: run status, stages (status, attempts, claim, uncertain flag, receipts, resolution), approvals, artifacts, budget, checkpoint digest | `create`, `transition`, `cancel`, `resume`, `updateStage`, `claimStage`, department results, `recordArtifact`, `recordApproval`, `recoverInterrupted`, `list`, `load` | long legal call sequences; a stored record that a later process refuses to load; retries |
| The record's files (same source) | journal (`.jsonl`), snapshot (`.json`), head (`.head.json`) | append, rename, rename; repair on read; lock-free `list()` | death or failure between any two file operations, also during a repair |
| Lock files (run store, `core/workspace-lease-store.js`, `core/engine/memory/lock.ts`) | a lock directory with an owner file; a lock file with a process id | create, mark, inspect, break, release | processes interleave between system calls; a holder dies or outlasts the stale limit |
| Mission runner `core/pipeline-mission-runner.js` | local variables of one `advance()` per mission, an abort signal | pick a stage, claim it, run it, store the result; fail, block, ask for approval | everything read before an `await` may be stale after it |
| Gateway handlers for missions `core/gateway.js` | `pipelineAdvances` (in memory) | start, pause, resume, cancel, approval; startup recovery | several store calls per request, interleaved with the runner |
| Workspace lease store `core/workspace-lease-store.js` | one entry per workspace in a lease file | `acquire`, `release`, `resolveQuarantine`, `recoverStale` | expiry, crash with a lease held, several missions |
| Action executor `core/engine/pipeline/action-executor.ts` | the workspace on disk | check the baseline, apply, receipt | cannot be stopped half way; may write after the mission was paused |
| Mission panel `src/components/pipeline/PipelineMissionPanel.tsx` | which buttons are enabled | one request at a time | offers no marker for an uncertain write |
| Session turns `core/gateway.js`, `core/session-store.js`, `core/session-mutations.js` | `activeTurns`, `sessionReservations`, the messages in memory, the flush chain, `state.json` | prompt, drain, stream, finalize, cancel, approve, continue, recover | a provider that ignores its abort signal; a turn that lost its session; a write in flight around an acknowledgement |
| Provider accounts `core/provider-account-pool.js`, `core/capacity-router.js`, `core/engine/provider/open-stream.ts` | health, strikes, in-flight counts, pinned sessions, generations; the capacity chain of each turn | acquire, release, report, fail over, reset, invalidate | verdicts and leases that outlive the router they came from |
| Cron `core/cron-store.js`, `core/cron-scheduler.js` | the registry in memory and on disk, the operation chain, runs in flight, the tick | create, edit, remove, tick, trigger, stop, death, restart | a slot offered twice, a failed write between memory and disk, a run that never ends |
| Teams `core/engine/team`, `core/engine/orchestration/delegate.ts`, `core/team-run-store.js` | a task graph per run, one gate of slots per turn, an event log per run | start, answer, ceiling, abort, recover | a slot handed between calls; late answers; rows a log lacks, and a recovery cut off half way |
| Budget ledger, agent runs, orchestrator, memory, connectors, usage, tokens, skills, MCP, desktop shell, interface | see section 5 and `PROJECT.json` | | |

How a mission works. The gateway creates a record for a pinned definition; the
definition is a graph of stages: departments (read-only model calls), approvals,
actions (writes) and truth gates (verification). `start` moves the record to
*running* and schedules an `advance()`, which repeatedly loads the record, takes
the first ready stage and runs it. An action takes the workspace lease, checks
that the workspace still has the digest the record expects, applies its patch,
stores a receipt and releases the lease. Whatever stops a running write (a
failure, pause, cancel, death) leaves it **uncertain**: only an explicit
resolution marker, verified against the workspace, leads out of that state, as
*retry* (nothing was written), *applied* or *abandoned*. At startup the gateway
moves every running mission to *interrupted* and quarantines the leases that the
dead process held.

How a turn works. A prompt drains a turn that is already finalizing, takes the
session (`activeTurns`, a reservation), appends the user's message, and lets the
engine stream. The engine opens an attempt on the first account of its capacity
chain and fails over to the next. The first caller of `finalizeActiveTurn()`
turns the draft into the answer and waits for a flush; only then is the terminal
event published as durable. A turn may end by asking for an approval; the
handler of the decision reserves the session, writes the decision, and starts a
continuation that consumes the approval durably before it starts the command.
A cancellation that the provider ignores finalizes the turn by force and frees
the session while the turn is still running.

What makes it correct:

* **record** – stages start in graph order and after approval; retries are
  charged and bounded; a write is never repeated without a verified no-write
  result; whatever is stored can be loaded.
* **mission** – the workspace changes only under the lease and only while the
  mission is alive; the checkpoint accounts for every change, or the change is
  in doubt and the workspace locked; *completed* means verified; a driven
  mission comes to rest somewhere the operator can act.
* **lease and locks** – one writer; a quarantine ends only with a verdict; an
  abandoned lock is broken.
* **files** – three files behave as one atomic record.
* **session** – one owner; an acknowledged answer is on disk for good; an
  approved command starts at most once; a late turn changes nothing; a
  cancellation frees the session.
* **accounts** – leases are counted exactly; a ban is earned; a turn gives up
  only at the end of its chain, and does end.
* **cron** – a slot starts a job once, under a durable claim that is closed;
  no slot is skipped; a due job is taken.
* **teams** – slots are exact; dependencies and results agree with the log; a
  run returns; what a restart reports of an earlier process is true.

## 2. Modules

| Module | Models | Extends / composes |
|---|---|---|
| `PipelineRunStore` | the record of one mission; one action per store call | – |
| `PipelineMission` | runner, handlers, executor, crash and startup recovery over the record, at `await` granularity | extends `PipelineRunStore`, whose actions are its store calls |
| `WorkspaceLeases` | several missions and the lease entry of one workspace | a mission reduced to its write stage |
| `AtomicRecord` | abstract: one record, writes take effect whole and in order | – |
| `RunJournal` | journal, snapshot, head: commit, repair, `load`, `list` | implements `AtomicRecord` |
| `FileLocks` | the lock directory and the lock file, one action per system call | – |
| `SessionTurns` | prompts, turns, cancellation, approvals, flushes and crashes of one session | – |
| `ProviderCapacity` | accounts, capacity chains, attempts and generations | – |
| `CronScheduler` | registry, operation chain, scheduler and process | – |
| `TeamRuns` | task graphs, gate, events and log recovery | – |
| `PipelineProofs` | theorems about `PipelineRunStore` and `PipelineMission` | extends the latter |
| other `…Proofs` | theorems about the module they are named after | extend it |
| `MC…` | the instances TLC checks | |

Modules contain a few operators marked *Mutant*: plausible slips in the code
beside the definition they would replace. They are not part of any
specification; substituting one breaks the property that guards that definition.

**PipelineRunStore.** Variables mirror the stored record: `runStatus`, `stage`
(a record per stage with status, attempts, execution claim, uncertain flag,
digest before the write, receipts, resolution outcome and its consumed mark),
`checkpoint`, `artifacts`, `approvals`, `budget`, `attached`. `lastClaim` numbers
the random claim ids. The store serializes the mutations of a run and commits
each as a whole, so a method call is one action, and a call that throws is an
action that is not enabled. Arguments are what the gateway and the runner pass;
markers and receipts are verified ones, because the gateway's registries admit
no others (`VerifiedMarker`). A digest is a model value, an envelope its id and
stage, a receipt a pair of digests, a cited receipt digest the pair of stage and
receipt. Usage is the number of calls (tokens, cost and time follow the same
comparison with their limits).

**PipelineMission.** `adv` is the advance in `pipelineAdvances` (its program
counter, the stage, the status and checkpoint it loaded, its claim and abort
signal), `op` the HTTP request in progress, `lease` and `disk` the two things
outside the record, `up` the process. Each step runs from one `await` to the
next. A crash loses `adv` and `op` and keeps the rest. Store operations are the
actions of `PipelineRunStore`; where the code catches a rejected call the guard
is `~ENABLED` of that action. What the runner looked at before an `await` is not
looked at again by the store unless the store does: a pause that commits after
`_fail()` has seen the stage running (`Fail`) does not stop its update
(`FailClaimed`), which moves the stage from *interrupted* to *failed* under the
same claim and then fails the run. `client`, fixed in a behaviour, is who sends the
requests: `"panel"` the buttons the panel offers, `"any"` any client of the local
HTTP interface, `"steady"` one that never pauses or cancels. One request is in
progress at a time (the panel is busy until it is answered); the interleaving
that matters, request against runner, is complete.

**WorkspaceLeases.** The lease store runs each operation alone in one process,
so an operation is a step. A lease may run out at any time (`Expire`): ten
minutes are `DEFAULT_TTL_MS`, and `renew()`, which would prolong them, has no
caller. `lapsed` remembers whose write was under way when its lease ran out.

**RunJournal and AtomicRecord.** A state stands for its digest and an entry for
its bytes; an append has two steps, and in between the entry is `Torn`. `call`
is the operation under the run lock with the file operations it still has to do;
`Abandon`, possible at any step, is the death of the process or a throwing file
operation. `list()` reads snapshot, head and journal size one after the other
without the lock. The refinement maps the record a reader would get now, and the
write under way, to `AtomicRecord`.

**FileLocks.** `kind` selects the protocol: `"dir"` (the run store and the lease
store: `mkdir`, an owner file, removal after comparing the owner) or `"file"`
(structured memory: `open(…, "wx")`, a JSON body, removal without a look). `lock`
is what is on disk, `pc` where each process is between two system calls; `Age`
lets a lock pass the stale limit, always for an abandoned one, and for one in use
if `Slow`.

**SessionTurns.** `turn[p]` is the request and turn of prompt `p` (program
counter, finalization, abort flag, the receipt of an approved call), `active` and
`reserved` the gateway's maps for one session, `history` and `disk` the messages
in memory and in `state.json`, `writer` the write of the flush chain under way
with the snapshot it took, `cancel` and `answer` the handlers of a cancellation
and of a decision. A force-released turn stays in `turn` and keeps taking steps.
A finalization without text removes an empty draft.
A message is its turn, role and status; text is left out.

**ProviderCapacity.** `health`, `inflight` and `pinned` are the current routers
of all providers, `generation` fences them; `turn[t]` is the attempt of a session
(the rest of its capacity chain, its tool mode, the generations it began under,
its lease). An uncertain rejection adds a strike, a success or a transient
failure clears them, a time-out (408, 425) leaves them. Strategies only order candidates, so any order is possible with the
session's own account first.

**CronScheduler.** `mem` and `disk` are the registry, `chain` and `previous` the
operation chain and what a failed write restores, `exec` and `tick` the
scheduler, `life` the process. Time is counted in minutes and an expression `e`
means every `e`-th minute.

**TeamRuns.** `run[c]` is a call of `team_delegate`, or a department: its graph,
the state of each task, the queue of ready tasks. `gate` is the concurrency gate
all calls of a turn share; `going` holds the executors that have not answered,
whether or not somebody still waits; `log` the events of each run in the order
they are emitted. The file of a run may lack any of them: `append()` runs behind
the run's back and its errors are swallowed (`gateway.js:5368`), a turn that is
finalized drops its later events (`gateway.js:5393`), and a death loses what was
not written. Only a restart acts on a file, so `lost[c]`, the rows that the file of
`c` lacks, is chosen at the death of the process that ran it (`Crash`).
`recovery[c]` holds the rows that restarts append. A restart may report any open
file, in two rows (`Checkpoint`, `Seal`); it may die between them, and it may end
anywhere and the process come up all the same (`Recovered`), because a file it
cannot read is skipped (`team-run-store.js:128`) and an error that ends the
recovery is swallowed (`gateway.js:3318`). `Setup` lists the combinations of
graphs.

## 3. Runs

Passing:

| Run | Instance | Shows |
|---|---|---|
| `MCPipelineRunStore` | five stages (department, approval, action, second department, gate), 2 digests, 2 repair cycles; 219,641 states | `ValidSnapshot`: no call sequence stores a record that a later process refuses to load. `DependenciesBeforeStart`, `ApprovedBeforeWrite`: graph order and approval survive blocking, re-arming, restart. `RetriesCharged`, `NoBlindRewrite` |
| `MCPipelineMission` | four stages, three kinds of client, crashes; 89,439 states | `WritesUnderLease`, `CompletedMeansVerified` for every client; `DiskAttested`, `UnaccountedChangeLocked` for the panel and the steady client: unless a write is running or uncertain the checkpoint is the workspace, through every pause, cancel and crash; `NoWriteAfterEnd` and, under fairness, `MissionSettles` for the panel |
| `LeaseExclusion` | three missions (symmetric), three leases, two restarts; 28,336 states | `WriterOwnsLease`: nothing but the end of its own lease takes the entry from a writer; `OneWriter`: a second writer needs that the first one's lease ran out under it; `QuarantineSticks` |
| `MCRunJournal` | two contents, four sequence numbers; 21,806 states | `AcknowledgedLoadable`, `ListSound`, `RefinesAtomicRecord` |
| `MCFileLocks` | three processes, both kinds of lock, slow operations | `DirExclusive`: until some lock passes the stale limit the directory is exclusive; `AbandonedLockBroken` under fairness |
| `MCSessionTurns` | two prompts (text, images, inbound), two faults; 1,362,822 states | `DurableAck`, `DraftOwned`, `ReservationHonoured`, `ApprovedOnce`, `HistoryFenced`; `CancelFrees` under fairness |
| `MCProviderCapacity` | an account with two slots and a fallback with one, two turns (symmetric), two strikes, one configuration change; 237,226 states | `InflightExact`, `ParkEarned`, `PinnedUsable`, `ChainExhausted`, `TurnEnds` |
| `MCCronScheduler` | two jobs, one of them registered, expressions 1 and 2, two minutes, two requests, one fault; 684,967 states | `StartsOnce`, `ClaimsKept`, `StopClosesRuns`, `NoSlotSkipped`; `DueJobTaken` under fairness |
| `MCTeamRuns` | two runs in five combinations of graphs (pairs, a step, a join beside a cycle, a chain, a department with a join), two slots, two faults, one lost row per death; 289,740 states | `SlotsExact`, `OutcomeJustified`, `EventsMatch`; `RecoveryHonest`: what a restart writes is true of the run, though its file has a hole and the recovery is cut off or repeated; `CallReturns` under fairness |

Disagreements between the code and what the repository says of it; each run
checks the quoted sentence and TLC shows a behaviour against it:

| Run | Property | Behaviour |
|---|---|---|
| `MissionZombieWrite` | `NoWriteFindingTrue` | pause marks a write uncertain while its executor is still in flight; a client resolves it as *retry* with a marker that is true at that moment; then the executor writes |
| `CronWedged` | `WedgedJobHeals` | a callback that never answers keeps its job in `inFlightByJob` and in the tick, so `beginRun()`, which would break its stale claim, is not called again in this process |
| `MemoryLockBroken` | `OneFileWriter` | a contender reads the memory lock between its creation and its first byte, takes it for stale and removes it: two writers, with nobody slow and nobody dead |

`DiskAttested` and `UnaccountedChangeLocked` leave out the client `"any"` because
of the first of these: once a write still in flight has been resolved, the
checkpoint is not the workspace. The panel, which pauses and cancels but offers no
marker, is included.

Further behaviours the models have and the reader should know of, for which the
repository makes no statement that is precise enough to check:

*Missions*

* Resume finds the aborted `advance()` still in the map and schedules nothing;
  the stage it resumed waits for the operator's next request
  (`gateway.js:6763`).
* A pause or cancel that interrupts a department or a gate which is just failing
  is overtaken by the failure: the stage goes from *interrupted* to *failed* and
  the mission is *failed*, not *paused* (`FailClaimed`, `Transit`).
* A `release()` that throws after the receipt is stored takes the failure path:
  the write stays completed, the mission fails and the lease stays (`Release`).
* Pause reads the running stages before the runner's claim commits; the stage
  stays *running* on a paused mission (`gateway.js:6790`).
* A blocked stage that has used its attempts is re-armed by resume and refused
  by `claimStage()`.
* A write resolved as *retry*, or an interrupted truth gate, is claimable, but
  `advance()` only looks for pending stages and interrupted departments
  (`pipeline-mission-runner.js:470`).
* An approval that arrives between `recordApproval("requested")` and the
  transition to *awaiting_approval* leaves the run waiting for an approval that
  no stage asks for (`RequestApproval`, `Transit`, `Decide`).
* A resolution in the process that ran the write finds the lease held, not
  quarantined; `resolveQuarantine()` throws after the record was committed, and
  the lease stays (`ResolveQuarantine`).
* The lease of a failed write is quarantined only by the next startup; before
  that it lapses after ten minutes and another mission may acquire the
  workspace over the unresolved write (`Expire`, `Acquire` in `WorkspaceLeases`).
  A write longer than the lease is joined by a second writer.
* A death between the stored receipt and `release()` leaves a quarantine over a
  completed write; no marker can lift it, since no stage is uncertain. It goes
  at a startup after that mission has ended (`Recovered`).
* `claimStage()` precedes `acquire()`, so a refused lease leaves a write that
  never began as uncertain (`Refused`).
* A first append that is cut short leaves a journal without a valid row: the
  run was never reported as created, but `list()`, and with it the startup
  recovery, throws on it (`ListJournal` answers `Corrupt`).

*Locks*

* Two contenders that both found the lock directory stale remove it one after
  the other; the second may remove the fresh lock of the first (`Break`).

*Sessions*

* After `persistPromptImages()` a turn that lost the session still appends its
  user message (`ImagesPersisted`); `HistoryFenced` excludes exactly that step.
* Rejected images finalize the turn but do not release the session; it looks
  busy until a request drains it (`Leave`).
* The look for open approvals precedes the reservation by several awaits, so a
  prompt may begin beside a question that was asked in between.

*Accounts*

* `applyCooldown()` lifts a parked account: a rate limit reported late by a
  concurrent turn returns an account with rejected credentials to the pool when
  the cooldown ends (`Cooled`).
* A turn whose own provider has no available account ends with
  `provider_not_configured` although its chain has fallbacks (`Begin`).
* A configuration change builds a router that counts from zero while attempts of
  the old one are still running (`Invalidate`): the limit holds per router.

*Cron and teams*

* A run whose closing write failed stays *running* in the registry until
  `staleRunMs` or a restart (`unclosed`); it is why `DueJobTaken` excepts it.
* An executor that ignores its signal keeps calling its provider while its slot
  is handed on (`MaxRuntime`): the gate counts tasks, not calls.
* An aborted department reports no event for the tasks it never started.
* The file of a run that returned may lack its terminal row for as long as the
  process lives, and the next start then reports the run as interrupted and
  recoverable although it had ended; or a recovery that fails leaves files open
  while the process is up (`Crash`, `Recovered`). That no file is left open is
  therefore not a property of this code; `RecoveryHonest` is what remains.

### Bounds

`MaxCalls`, `MaxRepairCycles`, `MaxRunArtifacts`, `UncertainStrikes`,
`MaxConcurrency`, `MaxHistory`, `StaleAfter` and `MaxParallel` are limits of the
code with small values, so the cases at the limit happen (budget exhausted, last
repair cycle, artifact refused, account full, history trimmed, gate full with a
queue). The number of claims is bounded by attempts and repair cycles, so
`lastClaim` needs no bound. The others cap what may go on for ever. `MaxSequence`
= 4 allows a failed commit after a repaired one; three leases let each mission
hold one or one mission follow another twice; two restarts allow a restart over
the result of a restart. `MaxPrompts` = 2 is one turn and its successor, or one
turn and the continuation of its approval; `MaxFaults` = 2 in a session allows a
forced cancellation and then a crash or a failed write. `MaxGeneration` = 1 is a
lease of a router that is gone. `MaxMinute` = 2 has a slot of each expression,
one in the past and one in the future. `MaxLost` = 1 lets each
death make a hole in one file, at its end or inside it. Three processes are a holder and the two contenders it takes to
break a lock wrongly. Two digests distinguish *as recorded* from *changed*; a
patch may also produce the digest it started from. The five-stage instance has
the gate reach the write through another stage, so transitive dependencies count.

`CHECK_DEADLOCK FALSE` is set where the system may come to rest: an ended
mission, bounded requests and clocks, contenders that gave up, runs that
returned. `MCRunJournal` is checked for deadlock.

### Fairness

* `FairMissionSpec`: weak fairness of the runner's next step (the event loop runs
  continuations, and executors answer or time out), of the next step of a request
  in progress, and of the restart of a dead process. The operator owes nothing:
  no request is fair. `MissionSettles` says that a driven mission leaves
  *running*, except where a stage needs the operator; those exceptions are
  spelled out in `NeedsOperator`.
* `FileLocks!FairSpec`: each process goes on with the system calls of an
  operation it began, and time passes. Nobody is obliged to contend.
* `SessionTurns!FairSpec`: a write that began ends, the timers of a cancellation
  fire, and the write of a finalization is not overtaken for ever by others
  (strong fairness, since the flush chain serves its waiters in order). The
  provider owes nothing.
* `CronScheduler!FairSpec`: the timer fires, the chain is worked off, the clock
  advances, `stop()` resolves, and callbacks end; `HungSpec` drops the last.
* `TeamRuns!FairSpec`: the ceiling of a task's run time and the reaction to an
  abort, both timers and listeners of the gateway. Nothing of providers.

## 4. Proofs

TLC checks the instances above; what follows is proved for every value of the
constants that satisfies the module's `ASSUME`.

**`PipelineProofs`, the store** (a finite set of stages; an action has one attempt
and depends on an approval, as `pipeline-config.js` demands): `TypeCorrect`,
`DependencyOrder`, `ApprovalBeforeWrite`, `WriteRecords`, `RetryBudget`,
`SnapshotsLoad` – `Spec => []P`; `FrozenRecords` and `RewritesAuthorized` – the
action properties `CompletedFrozen` and `NoBlindRewrite`.

* The inductive invariant is `IInv`: `TypeOK`, `DependenciesBeforeStart`,
  `WriteRecordConsistent`, `RetriesCharged` and three strengthenings.
  `Attempted`: a stage past *pending* has been attempted; needed because
  dependencies are checked only on the way out of *pending* and a blocked or
  interrupted stage restarts without the check. `ApprovalOnRecord`: a completed
  approval stage has its decision on record. `ApprovalUntouched`: an approval
  stage is moved only by `recordApproval()`, so re-arming never resets one.
* Each action is reduced to what it does to the stage it touches and to the
  others (`StageEffect`: the record stays consistent, dependencies were ready if
  it was started, the repair was charged, a completed record is unchanged);
  `NextIInv` follows from that once for all actions.
* `SnapshotsLoad` needs three facts about the whole record: an ended run has no
  stage at work (`EndedQuiet`), a completed run is backed by completed stages
  (`CompletedBacked`), and a gate cites receipts that are still there
  (`GateCites`); an ended run takes no further call that could disturb them.

**`PipelineProofs`, the missions** (any definition, any client, with or without
crashes): every safety property that `MCPipelineMission` checks.

* A step of the runner, of a request or of a restart is a call of the store with
  arguments of the right kind or leaves the record alone (the lemma `StoreCalls`,
  which says little more than how the mission is written); for that the local
  state has to be typed (`MissionTyped`: past its claim an advance knows its stage
  and a claim the store minted). Whatever is proved of the store then holds of
  missions: `MissionSnapshotsLoad` and `MissionRewritesAuthorized`.
  Some guards are refusals of the store, written with `ENABLED`; the proofs never
  open it, since a refused call leaves the record as it is.
* `WritesLeased` rests on `Leased`: only a write takes the lease, and from then
  until its result is stored no request lifts a lease that is held.
* `QuietAfterEnd` rests on `PanelAware`: a write on its way to the workspace is
  on record as running or uncertain, because the panel sends no markers, and over
  such a stage no run is ended (`ValidSnapshot`).
* `CompletionVerified` has the hypothesis `OneWrite(w)`: one write stage, and
  every gate rests on it. `pipeline-config.js` also accepts several writes, each
  with its gate; if they do not depend on each other the first gate's verdict is
  not about the second write, and the property would be false. The invariant is
  `Attested`: the write's receipt ends in the checkpoint, a gate at work started
  from that checkpoint over a completed write, and once a gate has passed the
  workspace is the checkpoint and no write is on its way.
* `WorkspaceAttested` and `WorkspaceLocked` (again `OneWrite(w)`, for the panel
  and the client that never pauses or cancels) rest on `Accounted`, and for the
  panel on `PanelAware`, which keeps a write it cut off in doubt: a write in doubt began on
  the checkpoint, a patch is applied only by a stage on record as running in a
  running mission, a marker in a request's hands still describes the workspace,
  and a workspace that is not the checkpoint has a write in doubt and a lease.

**`RunJournalProofs`** (any set of contents, any number of rows): `TypeCorrect`,
`Readability`, `FreshLists` and the refinement `Refinement` of `AtomicRecord`.
The invariant says of the files (`Files`) that the rows the head vouches for are
whole and that at most one row lies beyond them; of the operation under the lock
(`Work`) where it is, by what is left of its plan; of the last answer (`Answers`)
and of a list in progress (`Lists`) how they relate to the files. In the abstract
record a commit takes effect when its snapshot is in place, and the first one
when its row is whole; every other file operation, and a death between any two,
is a stutter.

**`WorkspaceLeasesProofs`** (any set of missions, any bounds, no assumption on how
long a write takes): `TypeCorrect`, `LeaseKept`, `MutualExclusion` and
`QuarantineUntilVerdict`. `WriterOwnsLease` is not inductive: an expired entry may
be taken from its owner. `WriterInForce` adds that the entry of a writer has not
expired unless it is among the `lapsed`, and `LeaseIds` that lease ids are given
once and the entry is the newest, so that of two writers the older has lapsed.

**`FileLocksProofs`** (any set of processes): `TypeCorrect`, and `MutualExclusion`
for the lock directory until a lock passes the stale limit. The invariant is
`CreatorOnly`: whoever is between `mkdir` and `rm` made the directory that is
there, and nobody is about to break it.

**`ProviderCapacityProofs`** (any finite sets of accounts and turns, any limits):
`TypeCorrect`, `LeasesCounted`, `ParksEarned`, `PinsUsable`, `ChainsExhausted`
and, as an action property, `TurnsEnd`. The invariant joins the types, what each
program counter says of a turn (a probing or streaming turn has a lease, its
chain is not empty), that no lease comes from a future generation, and the exact
counts; the counting step is one lemma about the cardinality of the holders when
one turn takes or gives back a lease.

**`SessionTurnsProofs`** (any number of prompts, faults and decisions):
`TypeCorrect`, `Reservations`, `Acknowledged`, `DraftsOwned`, `StartedOnce` and
the action property `Fenced`.

* `Reservations` follows from `Custody`: a prompt's reservation goes with its
  hold on the session, a decision's handler holds the token while nobody owns the
  session, and a write for the answer belongs to the answer that waits.
* The others follow from `Promises`. `Messages`: the messages in memory, in
  the write under way and on disk are all *sound*: one verdict on the command,
  given to a finalized turn and used up if the command was started, and every
  acknowledged answer present. `Turns`: a turn at work that is not finalized owns
  the session; the continuation that owns it finds the approval; at most one turn
  waits for the write of a consumption, before the command was started. `Drafts`
  and `Writes`: a draft's turn is the owner; a write has what its waiter relies
  on. `DurableAck` alone is not inductive: an older write may finish after the
  acknowledged answer entered the history, and the next write may start from any
  later history.
* `Fenced` takes each action that changes the history to the turn whose messages
  it changes: that turn is admitted and so becomes the owner, or it is finalized
  or streams, and `Turns` and `Drafts` make it the owner. An appended or replaced
  message leaves the messages of every other turn at their places.
* Most actions only move one turn, so `Moving` states once what such a step must
  keep, and the lemmas behind it specialise it: a silent step, one with a user
  message, one that finalizes, one that asks. `Consuming`, `Writing`, `Written`
  and `Restarted` treat the steps that do more.

**`CronSchedulerProofs`** (any finite set of jobs, any expressions, limits and
faults): `CronTypeCorrect`, `SlotStartsOnce`, `ClaimsHeld`, `StopLeavesNothing`
and `NothingSkipped`, that is every invariant of `MCCronScheduler`. The
invariant `IInv` joins

* `Sound`, of the record of a job in memory and in the file: only its latest run
  can be open, its last slot has passed, and its next run is on time. That
  `nextCronRun()` skips nothing is `FirstMatch`, about multiples of `e`;
* `Recorded`: a slot that was started is not after the last one in the file.
  `StartsOnce` alone is not inductive: what keeps a slot from a second start is
  that its claim was written before the callback began;
* `Claimed`: from the claim to the end of the closing write, the file has the
  run open; otherwise only runs whose closing write failed are open;
* `ChainSound`: an execution has at most one mutation in the chain, the one its
  program counter waits for, and no two requests are in it;
* `MemoryAndFile`: memory and file agree, but for the mutation at the head of the
  chain, of which `Pending` says what it changed. Its cases are the lemmas
  `CreatedSound`, `UpdatedSound`, `BegunSound` and `FinishedSound`.

**`TeamRunsProofs`** (any set of runs, any task graphs, any limit of slots, any
number of aborts, deaths and lost rows): `Slots`, `Outcomes`, `Events` and
`RecoveriesHonest`, that is every invariant of `MCTeamRuns`, from `Invariance`; and
`ResultsFinal`, an action property: whatever actor moves, no result of a task
changes. The invariant `IInv` joins

* `Fit`, of the record of a run: its statuses are `Justified` (what runs, has
  failed or succeeded had all its dependencies succeed, what is blocked has a
  dependency that failed or is blocked, and the converse) and the ready queue
  holds pending tasks whose dependencies succeeded, each once (`Queue`).
  `OutcomeJustified` says this only of runs that returned; it is not inductive,
  since what a run blocks follows from what it knew while it was under way;
* `Chronicle`, of its log: rows are in order (`Ordered`), a terminal row is the
  last one (`ClosedOnce`), and while the run is under way the log tells of each
  task exactly what its status says (`Told`, by `Account`: a task that runs has
  one start and no end). `EventsMatch` speaks of the end alone, but what a
  restart reads are the events of a run that may have died at any of them;
* `Gated`: the gate's count is the cardinality of the tasks in a slot and its
  queue lists the waiting tasks of runs that are not aborted, each once;
* `Restarting`: after a death no run is under way, and a run of an earlier process
  is `Past`: nothing touches it, and every row of its recovery is `TrueOf` it. A
  checkpoint is last in its file until the row of the same restart, or of a later
  one, ends that file (`Halfway`). `Told` and `Matches` make a manifest true
  (`Telling`, `ManifestTrue`); that a closed file grows no further is `FileGrows`.

Most steps end in `Pump`: the state just before it is shown to be `Steady`
(`OwnSettled` for the run whose task settled, `OtherWoken` for runs handed a
slot, `GateSettled` for the gate), and `PumpKeeps` takes it from there, once for
all actions. Each of these lemmas also says that results stay (`Final`). `Blocked` is a least set; `BlockedSet` says what that gives.

Only model-checked: the liveness properties (`MissionSettles`, `DueJobTaken`,
`AbandonedLockBroken`, `CancelFrees`, `CallReturns`), which need fairness and
`ENABLED`, and the findings, which are counterexamples. Every safety property a
passing run checks is also proved.

## 5. Not modelled, and why

* `updateBudget()`, `renew()` and `recordRun()` have no callers; `readJournal()`
  only reads.
* The cap of 100 stage transitions per `advance()`: the instances do not reach it.
* The runtime fingerprint check of start and resume only refuses requests.
* Redaction, size limits and wording of stored text; hashing of a workspace
  (a digest stands for it); parsing of patches and of cron expressions; the
  classification of provider errors by their text.
* Loss of written data by the operating system: the stores do not `fsync`, and
  a completed write is taken to be seen by the next process.
* Of sessions: shutdown, the engine mirror, rewind, fork, delete, file review,
  expired approvals, checkpoints, the quarantine of a corrupt file. A behaviour
  has one approval.
* Of provider accounts: the order a strategy chooses, disabled members, the
  pruning of session leases.
* Of teams: nested helpers and the agent budget, the member runner, the research
  cache, metrics, and the caps of a stored manifest (200 ids of 120 characters). Checkpoints of single delegated agents
  (`core/agent-run-store.js`) follow the same recovery as team logs.
* The budget ledger (`core/engine/pipeline/budget.ts`) is arithmetic within one
  process, on behalf of the orchestrator, whose turn loop wraps a model SDK.
* The user interface, translations, SDK adapters, the desktop shell, memory
  ranking, skills, connectors, usage and token stores: most of the repository's
  lines, and mostly rendering, I/O or small serialized JSON files without a
  protocol between components. `PROJECT.json` lists each with its reason.

## 6. What a continuation would take up

1. The steps of a session that this project leaves out, rewind and fork first:
   they change messages under a reservation, like a decision.
2. Several runs in `RunJournal`, for the effect of one unreadable record on the
   others.
3. The budget ledger together with the orchestrator's calls.
