# LIPAS, specified

TLA+ models of the parts of LIPAS whose correctness is a matter of order: who
owns a run, what a crash leaves behind, what was sent to a provider, what a
second delivery finds, what is in a file when its writer stopped. TLC checks
every model on small instances; TLAPS proves the main invariants of twenty-six of
them (the control store, the outbox mirror, the durable runner, the effects a host executes
for a run, remote workers, the handoffs of a team, the effect tape, the Claim store, the supervisor, change sets,
the operation journal, the connectors, the gateway, conversations, sessions, attachments,
the policy store, the mailbox, replay, model calls and their streams, the agent loop, workflows, the
workspace's home and its database, and the extension registry) for every value of the constants.

Files:

- `X.tla` is the model of a component. `FencedLog` and `ClaimTape` are abstract
  specifications that others implement.
- `MCTasks`, `MCRecovery`, `MCLedgers`, `MCWork`, `MCFiles`, `MCTalk` and
  `MCQueues` put several components side by side for TLC: a behaviour is about
  the one that is `checked`, chosen in the initial state, and the others keep
  their initial state. The components do not interact there; where one calls
  another, the module itself instantiates it (`DurableRun` and `RemoteWorker`
  call the actions of `ExecutionStore`). A composite gives one model to TLC where
  there would be ten. It EXTENDS the components whose names are distinct, so that a run
  checks the very property a theorem is about, and instantiates the others.
  `MCDurableRun` and `MCRunEffects` give one component the definitions its run needs.
- `X.cfg` is the configuration of the run `X`; `XProofs.tla` holds theorems
  (`DurableRunProofs`: about `DurableRun` and `RunEffects`; `RemoteWorkerProofs`: about
  `RemoteWorker` and `Coordination`; `EffectTapeProofs`: about `EffectTape` and `Workflow`;
  `ClaimStoreProofs`:
  about `ClaimStore`, `Supervision` and `ChangeSet`; `OperationJournalProofs`: about
  `OperationJournal`, `AuditMirror` and `Connectors`; `TalkProofs`: about `Gateway`, `Conversation`,
  `Session`, `PolicyStore`, `Mailbox`, `ToolReplay`, `ModelStream`, `ModelCall` and `AgentLoop`;
  `FilesProofs`: about `WorkspaceStorage`, `ExtensionRegistry` and `Attachments`).
- `PROJECT.json` says which definition stands for which lines of the source,
  which mutation breaks which property, and which hazard each property is for.

## 1. The system

LIPAS runs agents whose every step survives a crash. One SQLite file holds the
control state (what should run, who runs it), Claim stores the record of what was
done. Nothing else is authoritative: events, reports, dashboards and chats are
projections.

| Component (source under `src/lipas/`) | State | Operations | Hard behaviour | Module |
|---|---|---|---|---|
| **Execution store** `execution.py` | tasks, runs (state, attempt, owner, token, expiry, version, cancel flag, error), interrupts, checkpoints, outbox | create, cancel, claim, renew, checkpoint, suspend, answer, complete, fail, reopen | workers that lost their lease; operators racing with workers; each transition and its event in one transaction | `ExecutionStore`, `FencedLog` |
| **Outbox mirror** `execution.py`, `operations.py` | a handle's cursor; the audit session | `repair_audit` | fold and cursor are not one transaction; a filter on one run | `AuditMirror` |
| **Operation journal** `operations.py` | rows by idempotency key; outbox | prepare, submit, settle, reconcile | a crash between the provider and the row; a lookup that overlaps a submission | `OperationJournal` |
| **Connectors** `http_client.py`, `integrations/mcp.py`, `email.py` | journal rows, the rate window | write, reconcile | what a lost, late or odd answer proves | `Connectors` |
| **Claim store** `serialization/store_sqlite.py`, `store.py` | the tape; per handle a prefix and a tail; snapshots | fold, refresh, snapshot, open | several handles; damaged and outdated snapshots | `ClaimStore`, `ClaimTape` |
| **Durable runner** `durable.py` | the checkpoint, the phase, the calls of a batch | model call, tool batch, approval, input, deadline, cancel, recover | a crash between any two writes; a stale worker | `DurableRun` |
| **Host effects of a run** `runtime.py` | the run, the event stream | `execute_effect_for_run` | the lease is read before an await and used after it | `RunEffects` |
| **Agent loop** `agent.py`, `react.py`, `context.py`, `events.py` | transcript, running batch, numbered events | stream: model turn, tool batch, cancel, deadline | calls side by side, one of which is refused or raises | `AgentLoop` |
| **Effect harnesses** `tool_harness.py`, `harness.py`, `rows/` | claims: intent, attempts, result, spend, rejection | call, restore, reconcile, retry | check, then commit; two calls of one effect | `EffectTape`, `ModelCall` |
| **Model adapters** `adapter/`, `retry.py` | the reply accumulated so far | stream, drain, retry | a stream that stops inside a call, after text was shown | `ModelStream` |
| **Gateway** `gateway.py` | approvals, one task per effect | call, reconcile | a request delivered again, with the same or another payload | `Gateway` |
| **Replay** `replay_tools.py`, `session.py` | recordings and how many were consumed | lookup, decide, consume | order of recordings, modes, a replay that is resumed | `ToolReplay` |
| **Dispatcher** `dispatcher.py` | slots, running jobs | discover, execute, settle | bounded slots, errors, expiring leases | `Dispatcher` |
| **Remote workers** `dispatcher.py` | remote lease, response cache, tombstones | post, invoke, answer, persist, settle | redelivered requests and lost answers | `RemoteWorker` |
| **Coordination** `coordination.py`, `team.py` | handoffs as tasks and runs, shared budget | handoff, sequential, parallel, map-reduce, select, swarm, cancel | two callers of one plan; a budget at its limit | `Coordination` |
| **Policy store** `coordination_policy.py` | identities, delegations | put, delegate, revoke | identities change between grant and use | `PolicyStore` |
| **Mailbox** `orchestration.py` | messages with lease, attempt, outbox | send, claim, acknowledge, release | a handler that outlives its lease | `Mailbox` |
| **Workbench** `workbench.py` | change sets: baseline, stage, decision | snapshot, prepare, apply, discard | files change one by one, below the user's hands | `ChangeSet` |
| **Conversations** `conversation_store.py`, `conversation.py`, `session.py` | messages, chat events, session states, attachments and their files | append, promote, project, page, turn, upload | two clients; a file that is there and a row that is not | `Conversation`, `Session`, `Attachments` |
| **Workflow** `workflow.py`, `runtime.py` | a plan, its run, recorded outputs | claim, step, checkpoint, settle | resuming from what another worker recorded | `Workflow` |
| **Supervisor** `supervisor.py` | a shared tape | tick | a crash between a tick and its checkpoint | `Supervision` |
| **Workspace storage** `workspace_storage.py` | home directory, leases, marker, database and its log | open, backup, migrate, roll back, restore, recover | a stop between two file operations; readers and a restore | `WorkspaceStorage`, `WorkspaceMigration` |
| **Extension registry** `extensions.py` | the table, a cache per handle | register, revoke, roll back, get, list | each handle writes the whole table back | `ExtensionRegistry` |
| Everything else | operator UI, CLI, metrics, tools, skills, scenarios, packaging | | input and output | section 6 |

How they interact. A dispatcher (or a remote runner, or a host) claims a run by a
lease of the execution store. The durable runner asks the agent loop's parts for
model turns and tool calls, records everything it does as effects in the Claim
store, and writes a checkpoint before and after each batch. A crash leaves the
store with an expired lease and the tape with a chain per effect; the next owner
loads the last checkpoint and asks the harness for each effect again, which
restores a terminal one, executes one without an intent, and refuses one with an
intent and no result (an orphan: `recovery_required`). An operator may answer
interrupts, request cancellation, reconcile an orphan and reopen the run at any
time, from another process. Coordination and workflows are made of tasks and runs
with deterministic identities, so a second caller finds the work of the first.
Transitions of the execution store, the journal and the mailbox leave outbox rows
in the same transaction, mirrored to a Claim session afterwards; chats are
projected from the runs' events.

What makes each part correct:

- *Execution store*: a write needs the token of the current lease; a live lease
  is never taken; a task has at most one active run; waiting means exactly one
  unanswered interrupt; what was decided stays decided; checkpoints are
  contiguous; the outbox tells exactly the state.
- *Mirror*: nothing is skipped, everything arrives, nothing of another run does.
- *Journal and connectors*: one submission per key and provider identity; an
  outcome is never rewritten; *succeeded* means applied, *failed* means not
  applied; a caller is told the outcome of its own write.
- *Claim store*: an id at most once; every handle and snapshot is a replay.
- *Runner and host effects*: no effect twice; no checkpoint ahead of its effects;
  nothing that needs an approval before it is granted; the stream tells what the
  tape says; every run is settled in the end, the way its events say.
- *Harnesses, loop, gateway, replay*: one execution and one answer per effect,
  spending within the limit, writes alone, what was approved is what is done,
  each recording used once.
- *Adapters*: what was shown is in the reply once, no half of a call is executed,
  a cut stream is no success.
- *Dispatcher, remote workers, coordination, workflow*: every run is settled; one
  execution per fence; callers of one plan agree; recorded steps are not repeated.
- *Mailbox, conversations, policy*: one answer per message; a reader misses no
  event; turns form a chain; no delegation exceeds its grantor.
- *Workbench, workspace, registry, attachments*: files are the old or the new and
  no mixture; no committed fact or operation is lost; a row has its bytes.

## 2. The modules

Conventions. An action is one committed transaction, or one step between two
awaits; a call that raises before it has committed anything is a disabled action,
and one whose refusal changes the caller is an action of its own. SQLite's
`BEGIN IMMEDIATE` transactions are atomic and serialised. Identities are model
values: deterministic digests are collision-free. History variables, which no
guard reads, are marked `(history)` where they are declared. Definitions whose
name ends in `_Something` and whose comment starts with "Mutant:" are wrong on
purpose and show that a property can fail.

### Control of work: run `Tasks`

**ExecutionStore** spreads one row of `execution_runs` over `state, attempt,
version, lease, expires, cancelRequested, error, taskOf`; the other tables are
`taskState`, `intState`/`intRun`, `checkpoints` and `audit`. A lease token is
numbered by the attempt that drew it: `claim_run` increments `attempt` and draws a
token in one UPDATE. `now` is the real clock; a method reads it before it waits
for the writer lock, so the stamp a transaction uses is any value up to `MaxLag`
old. `Record` is `_record_audit_event`: a recorded identity with equal fields is
skipped, with other fields the transaction is rolled back. `reopen_uncertain`
reads outside its transaction and is two actions. Callers are not modelled: any
issued token, version, interrupt and stamp may be presented at any time, which
includes duplicated and delayed calls and stalled workers. `FencedLog` is the
abstract promise of the lease: epochs, one owner, a log that only the owner
writes; the refinement maps attempt to epoch, token to owner, and the fenced
writes to the log.

**ChangeSet** is the staged copy of a workspace and the decision about it. Each
file that is copied, compared or replaced is a step, with the user's edits, the
run's writes to its stage and a second operator in between; the tables (row,
decision, events) are transactions. `DeliveredWhole` speaks of the files the user
has left alone.

**Supervision** is the tick over a tape that several runs share: runs of one
process (`together`) do not interleave within a tick, those of two do. A crashed
run ticks again with the same claim ids.

### Runs and their effects: runs `Recovery` and `DurableRun_live`

**DurableRun** composes one run of `ExecutionStore` (its actions are called as the
code calls the methods) with the effect tape and its workers. `pc` is where a
worker is, `mem`/`ver` the checkpoint it holds, `calls` the stage of each effect of
its phase, `saved` the newest checkpoint: (phase, iteration, next tool, interrupt
waited for, result). The model's reply is one of: final, error, n tools. Every
wait can end in a crash, a lost lease, a time-out, a deadline or a cancellation;
the outside world answers, denies, cancels, reconciles and reopens. The boundaries
(none, or an input before the first tool and an approval before the second) are
chosen in the initial state.

**RunEffects** is `execute_effect_for_run`: the run that a host reads, claims if
nobody has, checks before and after the effect, and the event stream the
observation is appended to. Its callers are of one process; the workers, operators
and the clock that change the run are of any.

### Ledgers: run `Ledgers`

**EffectTape** has each call of the tool harness as the steps between which others
can come: `RowSet.fold` is a check (on the database) and then a commit. Calls of one
process share an event loop, left only at awaits (`running`); calls of two
processes interleave at every step (`home` says which is where). The properties
that need it are about calls that share a loop.

**OperationJournal** has `row` as the state column; a caller of `execute` goes idle,
prepared, calling, returned or raised, and may die anywhere; a reconciler asks and
records. The provider is an actor: it may apply a write any time during a call and
answers lookups truthfully when it is asked. `early` records the keys whose lookup
was made while the row was pending: *failed* may be wrong for those (section 5).

**Connectors** is what HTTP, MCP and e-mail writes make of the journal: the rate
window, what each status, redirect, error and oversized answer is taken to prove,
and what a caller is told.

**ClaimStore** represents a projection by the claims it merged, in order, each with
the fingerprint of the registry it was merged under, since reducers do not commute:
two projections are equal for every reducer exactly if these sequences are.
`covered` is how much of it is in the handle's snapshot and not resident.
`ClaimTape` is the abstract promise: the tape grows at its end, an id is on it once.

### Work done by others: run `Work`

**RemoteWorker** has the runner and the worker server: requests are delivered late
and again, threads give up the server's lock between steps, answers are cached in
a bounded cache and remembered by bounded tombstones. The store's transactions are
`ExecutionStore`'s. What the bounded tombstones have forgotten is excepted.

**Coordination** has callers that compose handoffs by a strategy over one shared
set of deterministic tasks and runs: reservation in the shared budget, creation,
claim, call of a member, settlement. A task and its run are one row.

### Files: run `Files`

**WorkspaceStorage**: a home directory has three parts, `workspace.db`, `runs/` and
`.installation.json`. `place` is what is under their names, `aside` what is under
the `*.pre-bundle-*` names that the marker records. A tree is known by a name (what
the home held, the bundle, a workspace made anew); `rmtree` may leave a *torn*
directory. Each rename, unlink or rmtree is a step, and a stop (or, in a restore,
an exception followed by its undo) may come before any of them. `exclusive` and
`shared` are the two sides of the flock. The history variable `lapses` names four
events after which a guarantee ends, and each property excepts only those that do
break it: a process stopped inside an undo; an exception once the deletion of the
old tree has begun; a restore that replaces the marker of another, because it
looked for one before it had the lease; and `make_shared`, since flock(2) does not
promise to convert a lock atomically.

**WorkspaceMigration**: the database is a file and its write-ahead log, a set of
facts each; the migration lock is a file with a pid that outlives a crash. It has
the first opening, the migration of the legacy databases, rollback, online backup
and the single-file restore, under runtimes that write.

**ExtensionRegistry**: each operation locks, loads the whole table into the handle's
caches, changes them, writes the whole table and unlocks; opening loads without the
lock. Every handle has a trust policy, and a restarted one another.

**Attachments**: the row is in the database, the bytes are a file that is written
within the transaction, ahead of the commit; commits fail, files are spoiled.

### What is said, and calls: run `Talk`

**Conversation** has messages, their promotion to tasks and runs (a sequence of
transactions over two stores), and the projection of run events to chat events that
clients page through. **Session** has handles with a versioned snapshot and
compare-and-swap. **Mailbox** has leased at-least-once messages and their outbox.
**PolicyStore** has identities, scopes with wildcards and delegations.

**ModelCall** is `LLMHarness` with its retries: estimate, guards, intent, attempts,
result and spend as claims of their own, two coroutines of one process.
**ModelStream** is how five adapters (chat with and without streaming, responses,
Anthropic, Ollama) accumulate one reply from a stream that ends anywhere, and how
the call is retried. **AgentLoop** is one streamed run of an agent: the loop, its
parallel batches, budget, cancellation and numbered events. **Gateway** is the tool
calls of other frameworks under request ids. **ToolReplay** is the tool calls of a
replay under its modes. **Workflow** is a compiled plan that any number of processes
execute: every dependency graph that the compiler accepts is an initial state.

### What must get done: run `Queues`

**AuditMirror**: the outbox is a sequence (rowid order), the tape a set of claim ids
(folding a known id is a no-op). A handle runs SELECT, fold, cursor, fold, cursor,
... and may raise or die between any two; its cursor is lost with the process.
**Dispatcher**: processes with bounded slots that discover claimable runs, execute
and settle them, continuously or until nothing is left. **Workflow** again, for
its liveness.

## 3. The runs

`MCX.tla` and `X.cfg` name every bound. In all of them one more of a bounded thing
repeats cases: the code compares attempts, versions and counts for equality and
order only, and each limit (budget, cap, cache, retries) is reached and exceeded.

| Run | Components and bounds | Shows |
|---|---|---|
| `Tasks` | control: two runs of one task, two interrupts, two claims, two versions, clock 0..1 with lag 1, an uncertain and another error. Changes: two operators, two files, two contents, one fault. Supervisor: two runs, cap 2, three iterations, two failures, two crashes | `ControlCoherent` (leases, interrupts, active run, fenced writes, checkpoints), `AuditTracksState`, `DecisionsKept` (accepted cancellation wins, settled stays settled, live lease kept), `ImplementsFencedLog`; `DeliveredWhole`, `DecisionFinal`; `RecommendationsSound` |
| `Recovery` | agent: two workers, two parallel tools, both boundaries, one fault. Host: two callers, one effect with risk, two attempts | `RunSound` (effects at most once, approved before live, checkpoints backed by effects, settled as announced); `RunEffectsSound` (executed once and as approved, the stream tells the tape) |
| `DurableRun_live` | one worker, two iterations, deadlines, own cancellation, an operator that reconciles and reopens, one fault | `StoppedMeansSettled`; `EventuallySettled` under fairness |
| `Ledgers` | tape: two calls of one effect, a third on the same budget, a reconciler, one crash, spends beyond the estimate, one process or two. Journal: two keys, two provider identities, two callers, two reconcilers. Store: two handles, two ids with two payloads, a snapshot per claim, one fault. Connectors: two clients, one key, two payloads, one request per window, one fault | `ExecutedOnce`, `AnswersAgree`, `SpendAccounted`; `JournalSound`, `OutcomeNeverRewritten`; `ProjectionsFollowTape`, `ImplementsClaimTape`; `ConnectorsSound` |
| `Work` | remote: two runners, two threads, one run, two attempts, two payloads, cache 1, tombstones 1, three posts. Team: two callers, two inputs, a direct and a durable member, five strategies, limit 3, two attempts, two faults (one in map-reduce) | `OneHistoryPerFence`; `TeamSound` |
| `Files` | home: two processes, two stops, or a stop and an exception, every initial home, a bundle with or without manifest. Layouts: two processes, two facts, one crash. Registry: two handles, two names, four records, two policies, one fault. Uploads: two hosts, two ids, two contents, two faults | `HomeUsable`, `UseUndisturbed`; `WorkspaceKept`; `RegistrySound`; `AttachmentsSound` |
| `Talk` | two clients, conversations, handles, hosts, callers or workers each; three prompts; two messages, three attempts; two delegations' scope sets; model: two effects, limit 3, two attempts, two faults; streams of two pieces and two calls; six replies, two iterations, limit 2; one request id with two payloads, one restart; two replay calls, two recordings, one stop; every plan of three steps, one fault | `ChatFollowsRuns`, `TurnsAreChained`, `DeliveriesTold`, `AuthorityWithinGrantor`, `ModelCallsSound`, `RepliesSound`, `LoopSound`, `ActionsSound`, `ReplaySound`, `ResumesSoundly` |
| `Queues` | mirror: a handle for all runs and one for a run of two, batches of one, two faults. Dispatch: two dispatchers with one slot, two runs, one fault. Workflow: two workers, every plan of two steps, one fault | `MirrorFaithful`, `EventuallyMirrored`; `EveryRunSettles`; `WorkflowSettles` |
| `*_doc_*` | | the findings of section 5 |

Each run takes between seconds and five minutes; the largest have between two and
six million states. Components with identical participants are checked up to
their permutation, in runs without liveness properties only.

Fairness. *Mirror*: a closed database is opened again, an open handle goes on being
used (each public method ends with a repair), a repair that has begun goes on.
*Runner*: a claimable run is claimed (the dispatcher polls), a runner that can move
does, a phase that was called ends (by an answer, or by its time-out), the clock
advances. *Dispatcher*: the event loop runs ready tasks, the poll interval wakes
`serve`, delays pass and leases nobody renews expire, an executor returns or
raises, approvals are answered, a stopped process is started again (strong
fairness, since it may be stopped over and over). *Workflow*: a call goes on, the
plan is executed again when its lease has run out, a lease that nobody renews runs
out. There is none on operators and faults; faults are bounded, that is, they end.
`EventuallySettled` leaves reopened runs out (finding 1), `EveryRunSettles` runs
that were suspended after their cancellation was requested (section 5), and
`WorkflowSettles` cancelled ones.

`PROJECT.json` lists each hazard with its line and the properties that cover it. The
comment above each property says what it means; a property that is a conjunction
names its parts, and each is broken by a plausible mutation of the code
(`mutants`).

## 4. Proofs

TLAPS proves, for any sets of tasks, runs, interrupts, operators, any lease time
and any bounds, from `StoreAssumption` alone (`ExecutionStoreProofs.tla`):

| Theorem | Statement |
|---|---|
| `TypeCorrect` | `Spec => []TypeOK` |
| `LeaseOwnership` | `Spec => []LeaseIffRunning` |
| `Fencing` | `Spec => []FencedWrites` |
| `WaitingHasOneInterrupt` | `Spec => []WaitingIffPendingInterrupt` |
| `OneActiveRunPerTask` | `Spec => []OneActiveRun` |
| `CheckpointHistory` | `Spec => []CheckpointsContiguous` |
| `Coherence` | `Spec => []ControlCoherent`, the conjunction of these |
| `NoLeaseTheft` | `Spec => LiveLeaseKept` |
| `Decisions` | `Spec => DecisionsKept` |
| `Refinement` | `Spec => ImplementsFencedLog` |
| `OutboxExplains` | `Spec => []AuditTracksState` |

The argument. `LeaseIffRunning` is what makes fencing inductive: a fenced write
needs `lease = token` and `state = "running"`, so its token *is* the attempt, and
attempts only grow; hence the log of writes is ordered and bounded by the attempt.
`LiveLeaseKept` uses that a stamp is never later than the clock. The interrupt
invariant needs that `suspend` checks for a pending interrupt, and that each way
out of *waiting* answers the one there is. `OneActiveRun` needs, besides the
index, that a run without a task is inactive. `DecisionsKept` goes action by action:
a terminal state is left by a reopening only, and completion asks for the
cancellation flag in its own transaction. `AuditTracksState` is
split into one statement for each table (`Told`), inductive together with the types,
since the outbox only grows. Each proof has one step per action; temporal steps only
combine them.

The theorems about the other components:

| Theorem | Statement | Assumptions |
|---|---|---|
| `DurableRunProofs.RunIsSound` | `Spec => []RunSound` | `RunnerAssumption`, `StoreConstants` |
| `DurableRunProofs.OneWorkerSettles` | `Workers = {w}`: `Spec => []StoppedMeansSettled` | the same |
| `DurableRunProofs.RunUsesStore` | `Spec => Store!Spec` | the same |
| `DurableRunProofs.HostEffectsAreSound` | `HostSpec => []RunEffectsSound` | `OutcomesAssumption` |
| `RemoteWorkerProofs.OneHistory` | `RemoteSpec => []OneHistoryPerFence` | `RemoteAssumption`, `StoreAssumption` |
| `RemoteWorkerProofs.RemoteUsesStore` | `RemoteSpec => Spec` of the store | the same |
| `RemoteWorkerProofs.RemoteKeepsControl` | `RemoteSpec => []ControlCoherent /\ ImplementsFencedLog` | the same |
| `RemoteWorkerProofs.TeamIsSound` | `TeamSpec => []TeamSound` | `StrategiesKnown`, `RequestsExist`, `BudgetIsNumber`, `ChainIsSequence` |
| `EffectTapeProofs.OneProcessExecutesOnce` | `Spec => []ExecutedOnce` | `TapeAssumption` |
| `EffectTapeProofs.OneProcessAnswersAgree` | `Spec => []AnswersAgree` | `TapeAssumption` |
| `EffectTapeProofs.SpendIsAccounted` | `Spec => []SpendAccounted` | `TapeAssumption` |
| `EffectTapeProofs.WorkflowResumesSoundly` | `FlowSpec => []ResumesSoundly` | `StepsAreCounted`, `NoOutputIsNoValue` |
| `ClaimStoreProofs.ProjectionsAreReplays` | `StoreSpec => []ProjectionsFollowTape` | `BoundsAreNaturals` |
| `ClaimStoreProofs.Refinement` | `StoreSpec => ImplementsClaimTape` | none |
| `ClaimStoreProofs.RecommendationsAreSound` | `SupervisorSpec => []RecommendationsSound` | none |
| `ClaimStoreProofs.ChangesAreDelivered` | `ChangesSpec => []DeliveredWhole` | `InitialIsWorkspace` |
| `ClaimStoreProofs.ChangesAreFinal` | `ChangesSpec => DecisionFinal` | `InitialIsWorkspace` |
| `OperationJournalProofs.JournalIsSound` | `JournalSpec => []JournalSound` | none |
| `OperationJournalProofs.OutcomesAreFinal` | `JournalSpec => OutcomeNeverRewritten` | none |
| `OperationJournalProofs.MirrorIsFaithful` | `MirrorSpec => []MirrorFaithful` | `MirrorAssumption` |
| `OperationJournalProofs.ConnectorsAreSound` | `WritesSpec => []ConnectorsSound` | `BodiesAreResults`, `RequestsAreCounted` |
| `TalkProofs.ActionsAreSound` | `GatewaySpec => []ActionsSound` | `RequestsNamed` |
| `TalkProofs.ChatIsSound` | `Spec => []ChatFollowsRuns` | `ChatAssumption` |
| `TalkProofs.TurnsStayChained` | `SessionSpec => []TurnsAreChained` | none |
| `TalkProofs.AuthorityIsWithinGrantor` | `PolicySpec => []AuthorityWithinGrantor` | `AbsentIsApart` |
| `TalkProofs.DeliveriesAreTold` | `MailSpec => []DeliveriesTold` | `NoPayloadIsNone`, `AttemptsAreCounted` |
| `TalkProofs.ReplayIsSound` | `ReplaySpec => []ReplaySound` | none |
| `TalkProofs.RepliesAreSound` | `StreamSpec => []RepliesSound` | `StreamBounds`, `MissingIsNone` |
| `TalkProofs.ModelCallsAreSound` | `ModelSpec => []ModelCallsSound` | `EffectsAreCounted` |
| `TalkProofs.LoopIsSound` | `LoopSpec => []LoopSound` | `RepliesAreSequences`, `LoopLimits` |
| `FilesProofs.RegistryIsSound` | `RegistrySpec => []RegistrySound` | `NobodyIsNoHandle`, `VersionsAreNumbers` |
| `FilesProofs.HomeIsUsable` | `Spec => []HomeUsable` | `StorageAssumption` |
| `FilesProofs.UseIsUndisturbed` | `Spec => UseUndisturbed` | `StorageAssumption` |
| `FilesProofs.AttachmentsAreSound` | `UploadsSpec => []AttachmentsSound` | `NoRowIsNone`, `NoWriterIsNone` |
| `FilesProofs.LayoutIsKept` | `LayoutSpec => []WorkspaceKept` | `NoUserIsNobody`, `AbsentIsNoDatabase` |

The assumptions say that bounds are numbers, that a null value is none of the
values it stands beside (no output is no step's output), that an outcome is none of the states an effect has without one, that a body is none of the
verdicts a caller may be told instead, that a reply is a sequence, that a team is
composed by the coordinator's strategies from a sequence of its members, that what is passed in is a request,
that approvals, inputs and requests name calls and messages that
exist, that a workspace holds a content or nothing under each name, that estimates and
usages are natural numbers and effects finitely many, that the Run of a promotion is fixed by its message, that a
response of a remote worker has one checkpoint at most and that the server's two
memories hold at least one entry (they hold 1024 and 4096). TLC evaluates each in
the run that checks the same property.

**The runner** (`RunInv`). `RunSound` relates four tables which the runner writes one
after the other, so what makes it inductive is what a worker knows between two
writes. `ContentSound`: the checkpoint on the tape, and the one each worker
*remembers*, superseded or not, takes for done only effects that are on the tape or inputs
that were answered. `CallsFit` and `StopFits`: the calls a worker has under way belong to
its own checkpoint, and one that is still to be made needs no approval or has it; a
worker about to settle has announced the end. `TokensDistinct` and `OwnerSynced`: a
claim belongs to one worker, and the worker whose token is the current attempt
remembers the newest checkpoint; that is why a write which passes the fence does
not overwrite a newer checkpoint. `EndsAreSettled` and
`FailuresAgree`: a run that is pending, waiting or failed otherwise is not at its
end, which a reopening needs; its read and its commit are two steps, and the run may
have failed again in between, but the outbox holds one failure of a run at most, so
the error the operator saw is the error it has. The proof has a lemma for each
action of a worker; the lemmas on the store (`ClaimIs`, `SaveIs`, `FailedIs`, ...)
say what a call of it does to the one run.

**One worker** (`OpenInv`). `StoppedMeansSettled` is false of two workers, one of which may
still execute when the other ends the run, so the theorem is about one, as is its run. An
effect without a result belongs to the phase that the newest checkpoint starts, unless the
run is cancelled; the calls under way are of that phase (`CallsOpen`), so a checkpoint
that leaves the phase finds none open; a worker that goes on to expire has
looked and seen none. A run that failed at its end is not reopened, which
keeps the error with the state it was written for.

**Host effects** (`HostInv`). The lease decides who is answered and not what is executed, so the
invariant is about the tape: it grows from nothing to open to one outcome, and the intent and the
decision are one step of the process, so who refuses an effect knows that it was not executed
(`HostCallFits`). An observation that was read before an await may be older than the tape by one
reconciliation, when it was of an open effect; the event of the effect then says *open*, and keeps
saying it, which is finding 4 and why `StreamTold` allows for it. An event that is there is never
replaced by another, so what a caller was told stays what the stream tells.

**The store below its callers.** `DurableRun` and `RemoteWorker` call the store's actions,
and `RunUsesStore` and `RemoteUsesStore` show that each of their steps is a step of the
store or leaves it alone. So every theorem of the first table holds below them;
`RemoteKeepsControl` spells two out.

**Remote workers** (`RemoteInv`). On the server: a request with an owner is in flight and
nobody else owns it; a fence that was executed has left its response, or a tombstone, or is
still being executed; and all that was or may still be said to it is one payload. A
fence that has dropped out of the bounded tombstones is excluded, as in the code.
On the client: a claim belongs to one runner, and a runner that has got to a stage has on
record what the stages before it store (`HeldIsRecorded`); the checkpoint only as long
as the claim is current, which completing checks again.

**Teams** (`TeamInv`). No fence protects a caller's memory: it holds outcomes while other callers,
with other inputs under the same identities, and operators change the rows. What makes that sound is
that a row only grows (`RowsGrow`): its request is fixed by who creates it (by the started event, if
external), a completed row keeps its result, an attempt never goes back, and the attempt a cancellation
came in is written once (`Later`). So what a dispatch has seen at one stage still holds at the next
(`StageFits`): after the goal check the row is for its request, after the reservation the handoff is in the budget, and
a claim that is about to call the member saw no cancellation, so one that comes after it names an attempt
no earlier than this claim. A completed row
names its own request, so a durable member's stored result, which is not compared again, is the
caller's too. In a chain there is one dispatch at a time (`CallersFit`), so its envelope comes after the last
outcome, and every outcome before it is on record: that is where `ChainFollowsRecord` comes from.

**The effect tape** (`TapeInv`). `OneLoop` (all calls are in one process) is the
hypothesis inside `ExecutedOnce` and `AnswersAgree`. The invariant says
who may be between a check and its commit: only the call that holds the event
loop, so what it checked is still true when it commits; and a call that is live
owns the only intent of its effect.

**The spend** (`SpendInv`) holds in any number of processes, as results and ledger only grow: who
pays has an outcome that is on the tape (`PaysRecorded`), and so has what was put on the ledger.
With one loop, who is about to commit a spend has compared it with a total that has not
grown since (`WithinLimit`). The total is a fold over the effects; its recursion is
unfolded in the proof by induction on their number (`Induction`, a set of numbers without a
least one missing; `SubsetInduction`), so that `TotalChange` can say what one new entry
does to it. The set of effects is finite, which `TapeAssumption` asks for.

**The Claim store** (`StoreInv`). A projection that has merged, position by position, the claims of a
prefix under its fingerprint is the replay of that prefix (`ReplayIs`), so a refresh from
where the handle stopped gives what a replay of the whole gives. A snapshot is written by a handle that
merged all it holds under the fingerprint the snapshot goes by.

**The journal** (`JournalInv`). A caller inside `execute` is alone on its row; an identity has one
row, and only the owner of a row that is still prepared has not submitted it. A
lookup that started on an uncertain row found its submission over, so that what the
provider answers stays true; one that started on a pending row is what `early` records.

**The mirror** (`MirrorInv`). The rows a handle still has to fold are the first of those
after its cursor (`BatchFits`; `FirstOfIs` shows it of the LIMIT), so that a cursor which
follows the least of them passes no other, and an event committed meanwhile has a later
row. Only a filtered handle moves its cursor to the end without folding.

**The connectors** (`ConnectorsInv`). A write under way is the only one under its key and is
the request on its row, and what came back says what the provider did (`WriteFits`). A row
that failed, and was not looked up too early, has nobody in flight (`RowFits`), so a refusal,
or a write that was not found, stays true; a reconciler's answer stays true until it is
recorded for the same reason (`InquiryFits`). Two things a row does not prove are said in the
property and not assumed away: MCP's failure of a write on a server error, and a lookup that
ran while the submission did.

**The gateway** (`GatewayInv`). A task that runs a tool has its own payload on the tape; who waits
for it has the same payload or has joined; an approval that came first binds task
and tape; an answer that was given is final.

**The chat** (`ChatInv`). A message that is linked stays linked and a Run has one message, so
the Runs of a conversation only grow (`LinkedGrows`): what a projection read of them when it
began still holds when it appends. What a call has passed of a Run is on record in its
conversation (`CallFits`), whoever put it there, so the event it appends, or
finds, follows its predecessor; an event that is on record elsewhere ends
the call. A reader has the beginning of the events up to its cursor, and those keep
their place (`EventsGrow`).

**Sessions** (`SessionInv`). What a handle holds is what was saved as its version
(`Snapshots`), so the compare-and-swap on the version compares the states; a run works on
the state its handle still has, since nothing else of a handle moves while one runs
(`RunsApart`). So a turn that is committed follows the last one saved, and its prompt,
asked in no other run, ends that version and no other.

**The policy store** (`PolicyInv`). The two transactions of `put_delegation` are why the
delegation still to be inserted is in the invariant: from the first one on it is backed by
what is stored (`PutsBacked`), and an identity that is stored is never changed
(`BackedStays`), so it is when the second one inserts it. Authority over each scope of a set is
authority over what the set allows (`ScopesCover`, by cases over the forms of a scope).

**The registry** (`RegistryInv`). The lock: a handle between taking it and letting it go is its
holder, so the table its caches were loaded from is the table it writes back, with
one entry changed.

**The workspace** (`HomeInv`). `HomeUsable` speaks of what is opened and of what is kept; that
it holds after a restore, an undo or a recovery was cut off depends on what each of their
stages may rely on. So the invariant names a tree `t`, which is whole, and says for
every stage and part (`OwnerFits`) where the part of `t` is and what is in its
place: moved aside or not yet (`Moving`), covered by a published part (`Publishing`), on its
way back (`Undoing`, `Returning`), or given up for a new tree that is complete
(`NewInPlace`). `Left` is what all of these have in common, and all that the next recovery, or the
next restore, finds (`StopLeaves`): it decides from the files alone, and `Left` is what makes
its decision right. A stop inside an undo is the one that does not leave it, which is
why the property names that lapse; an exception after the deletion began may leave no
database at all (`Spoiled`), which nothing opens. `Locks` says that no two of them work at a
time and that nobody has opened the home while one does, which is all that
`UseUndisturbed` needs. In a home that held a workspace no process comes to
create one before something else was lost (`NothingSlips`), so the downgrade that
may lose its lock is not reached there.

**Attachments** (`UploadsInv`). One host writes at a time, so what it found free is free until
its insert, and its file is there before the row is; rows are never taken back, so a reader
holds what the row still says, however long ago it read it.

**The workspace's database** (`LayoutInv`). The lease is what counts (`LeaseHeld`): a writer shares
it and every publication excludes them, so what was copied is still all there is when the
database is taken away or replaced (`Prepared`). The migration lock is not in the invariant: a
stale one that two processes remove may be removed under its next owner, and nothing is lost
by it. Between a replaced file and its log, whatever the log holds is set aside or given up;
only the file is the database then (`DatabaseStands`), and a stop or a look that
leaves or moves the log there is what `overtaken` stands for. Most steps copy the database, or
move one process (`MovesKeep`).

**The supervisor** (`SupervisorInv`). A tick writes its claims one by one and a crash repeats
it under the same ids, so the invariant is about what a run has still to write
(`PendingFits`): a retry and an escalation at most, in this order. In one process
ticks do not interleave (`OneTick`), so the number of retries a tick has counted is
still the number on the tape when it writes the next.

**Change sets** (`ChangesInv`). What a Workbench between two files may rely on
(`WorkFits`): whoever copies is alone with the stage, and whoever applies works for a run that
is over, so the stage no longer changes, and what another has applied meanwhile is
the same content. `DeliveredWhole` is a part of the invariant: an application that
was cut off leaves each untouched file old or new, which the next one needs.

**The mailbox** (`MailInv`). Every attempt before the current one has ended exactly once in
the outbox, the current one has not, unless the message is pending again
(`MessageFits`); so the row, the events and the answers tell one history.

**Replay** (`ReplayInv`). A recording is used by the decision that consumed it, all that match
before it have been used, and a call that is about to execute has not touched the live world
(`ReplayCallFits`), whoever resumes it. Recordings are numbered, so of those left
there is a least one (`LeastNumber`).

**Streams** (`StreamInv`). While an attempt runs, the sink has seen exactly what the
accumulator holds (`ShownIsHeard`), each piece once; nothing was shown of an attempt that is
repeated (`InvisibleIsUnshown`); so the reply, when it is made, is of the shown.

**Model calls** (`ModelInv`). A call that was submitted is alone with its effect, its own sum of
usages is the total of the tape's attempts, and a result that is already there is an
operator's (`WorkFits`), so the last attempt bills all that is recorded. A result and its
spend are two claims; between them the ledger may lack the spend, never hold
another (`LedgerFits`), and who asks again pays it. Two totals are folds of the community
modules: `TotalFold` and `AmountsFold` make their recursion explicit, and `TotalAppends` and
`AmountsGrow` say by induction what one more entry adds.

**The agent loop** (`LoopInv`). A batch is a run of calls from the next one on (`BatchIs`), alone
if its first is no read or there is a budget (`BatchApart`); of the batch that is executing, and
of the calls before it, whoever has returned was announced with the outcome that the
transcript will hold (`ToolsFit`). The log is described by itself (`LogFits`): each completion
follows its start, at most one event is terminal, and as long as nothing was cut off, what started and
was not completed is executing; so it is closed when the run ends by itself, which happens only
when nothing executes (`EndFits`). Of the filter that takes the calls from a reply, a
`SelectSeq`, the proof needs only that it has a length.

**Workflows** (`FlowInv`). The call that owns the lease of the running plan holds the outputs on
record (`CallFits`): it read them under the lease, and nobody else has saved since. Calls that
lost it go on in vain, with what they know. A call at a step has the output of every step
before it in the order. So its step's dependencies are recorded, if every step comes after
those it depends on; and a call that has passed the last step has them all, if the order visits
every one. The second is what the compiler accepts a plan for. The first is a lemma about a
recursive function (`OrderIs`): the function exists for the sets that leave at most `n` steps to do
(`RestExists`), by induction on `n`, and puts a level before what follows it (`LevelFollows`). `Declared`,
the declaration order of a level, is a choice, and `DeclaredIs` shows that there is one to make, with
each step of the level in it.

Only model-checked: liveness under fairness (`EventuallySettled`,
`EventuallyMirrored`, `EveryRunSettles`, `WorkflowSettles`) and `ENABLED`, which are beyond this prover; each invariant and action property
of a passing run is stated by a theorem. The library's induction theorems take an operator and
cannot be used; where a proof needs to know what a fold adds up, or what a recursive function
returns, the induction is spelled out as a set of numbers without a least one missing. What
other recursive definitions compute for every input (histories) stays with TLC.

## 5. Where code and documentation disagree

Shown by a run `*_doc_*` with its counterexample; `findings` in `PROJECT.json`
quotes both sides.

1. `ExecutionStore_doc_failure`: a run that failed uncertain and was reopened cannot
   record a second, different failure: the identity of the outbox event does not
   name the attempt. Until an operator cancels it, the run is reclaimed and fails
   to fail again.
2. `ToolReplay_doc_result`: a replay decides to substitute a recorded rejection or
   orphan, which has no result to mirror; the harness calls that impossible, raises,
   and the recording is consumed.
3. `WorkspaceStorage_doc_rollback`: an exception in a restore over a workspace that
   has no `runs/` yet leaves a marker that every later recovery refuses, though the
   undo put everything back.
4. `RunEffects_doc_repeat`: an effect that was observed while it was open is on the
   event stream as uncertain; once it is reconciled, a repeated proposal recovers
   the result but cannot append it under the same identity, and raises.

Met while modelling, without a run of their own (the model does what the code does,
and the properties say what still holds):

*Execution store.* Allowing an interrupt after a cancellation request leaves a
pending run that nobody can claim (execution.py:1563 and 1323). Completing a
reopened run of a cancelled task announces the task completed (execution.py:1774).
Two overlapping reopenings of one failure, whose reads precede their transactions,
can leave one without an event of its own (execution.py:1851 and 1875). `claim_run`
reads the row back after its commit (execution.py:1347): a claimer that stalls there
for a lease gets the token of the next owner.

*Mirror and stores.* A mirror filtered on one run can skip an event committed between
its two queries (execution.py:781). Snapshots stop when rows are registered after
the opening (store_sqlite.py:583). `reconcile` of a pending row can record *failed*
for a write that is then applied (operations.py:600, the variable `early`).

*Connectors.* MCP calls a write failed on every status from 400 on, 5xx included,
while docs/runtime-contracts.md:134-135 keeps those uncertain; a JSON-RPC error under
status 200 is recorded as succeeded; the digest of an MCP request includes the
JSON-RPC id, so a retry under the same key raises. A write that the rate limit
refuses after `prepare` stays pending.

*Runner and host effects.* An unfenced `append_agent_event` (durable.py:391) lets a
worker without its lease announce an end; a reclaimed cancelled run is settled
without a look at effects that are still open (durable.py:576). In
`execute_effect_for_run` a proposal once denied stays rejected; a run that the call
has claimed is neither returned nor released; there is no heartbeat; a stop between
the intent of a denial and its rejection leaves an orphan.

*Harnesses.* Two processes that both see no intent both execute (tool_harness.py:888),
and may together exceed a budget: the check and the commit are not one transaction
(rows/base.py:77). Restoring a tool result that could not be recorded yields another
text than the live call did, and fails the run.

*Adapters.* A stream that is cut within a tool call is a success with emptied
arguments (openai_compatible.py:1007-1033; documented: incomplete
calls fail, docs/model-providers.md:155-157). The text of a spoiled chunk is in the
partial reply and was never shown. A retry may repeat what a sink has seen.

*Agent loop.* A malformed call beside good ones gets no answer in the transcript. A
call that raises leaves its siblings running while the run is being ended. A
cancelled run's result is made of its initial state.

*Gateway.* A caller that joins a request in flight with another payload gets that
request's outcome; cancelling a caller without a deadline cancels those who joined;
a reconciliation while the task runs makes the late result raise.

*Supervisor.* A second tick over a tape that has grown may recommend something else
under the same claim id and raises; two processes may together exceed a retry cap; a
claim of another process can come between an escalation and its `goal_blocked`.

*Coordination and workflows.* A hand-off whose caller fails after another caller
completed it is reported failed (coordination.py:2268). A promotion that is cut off
after `create_task` and retried with another goal fails for ever (runtime.py:1135). A
workflow that is to be cancelled asks for the cancellation unfenced and swallows what
`finish_cancelled` raises (runtime.py:929-937): it returns `cancelled` also when it has
lost its lease and the run is still to be settled by another, although
docs/runtime-contracts.md:95-98 has it settled. A request that comes after the last
look at the flag makes the completion raise, and the next owner settles the run.

*Registry and attachments.* A record registered with an ad-hoc secret or under a
looser policy makes every later load by a handle that does not know the signer raise,
for all names; after a rollback a version may be registered again with other bytes; a
manifest without signature that names a trusted signer passes unless signatures are
required. The retry of an upload whose file was lost raises for ever; a failed commit
leaves a file without a row.

*Workspace.* A stop between moving `workspace.db` and moving `runs/` is refused by the
recovery for ever although the old tree is all there, and so is a recovery stopped
while it puts the old tree back (workspace_storage.py:781-785); a stop before the
manifest is published loses the bundle's manifest where there was none before (778).
The single-file `restore` neither looks for the marker nor settles it (1066), and
replaces the file before it removes the old log (1125): a stop, or an inspection,
between the two lets the old log be applied to the restored file.

## 6. What is not modelled

Left out on purpose: wire formats, JSON, SQL text, HTTP servers and sockets,
terminals; the wording of errors; prompts, compaction and memory; metrics and
benchmarks. The operator UI and the CLI (`operator.py`, `cli.py`, `metrics.py`,
`performance.py`) are projections of the stores and front ends to them: what they
change, they change by calls of the execution store that are modelled with any
arguments. Tools, skills and scenarios are input and output with little state.
Guards, behaviours and the claim calculus are pure functions of the tape.

Left out of modelled components: the paging reads; audit reports; compiling a
goal to a plan (`Workflow` takes every plan); the legacy import of conversations,
archiving, and attaching a message by hand; conformance checks of extensions; reads
and sessions of MCP; the in-memory stores, which have no second handle.

Taken on trust: SQLite's atomicity and durability, collision-freedom of digests, the
event loop's run-to-completion, flock where fcntl is there.
