# TLA+ models of the Software Engineering Practice Platform

This directory holds the formal models of the platform's generation back end
(`src/apps/api`): TLA+ modules translated from the TypeScript source, the TLC
configurations that check them on small instances, and theorems about them that
TLAPS proves for every value of the constants. `PROJECT.json` maps every
definition to the lines it models.

Paths below are relative to `src/apps/api/src/` unless they begin with `src/`.

## 1. Inventory

A user starts a *generation run* (requirements, design, code, document,
feasibility study). The start route reserves one credit, makes a run record and
starts a pipeline: an asynchronous function that calls language models through a
scheduler, renders diagrams, emits events into the record, and ends with
`completed` or `failed`, unless a cancel ends the run first. Browsers follow the
events over SSE. With a database the records are saved to Postgres; with Redis
the pipelines run in a worker process.

| Component (files) | State | Operations | What is hard | What makes it correct |
|---|---|---|---|---|
| Run records (`runs/records/run-record-store.ts`, `run-actions.ts`, `run-cancellation.ts`) | one record per run: snapshot status and error, event log, `terminal`, listeners | `emitEvent`, cancel, retry, rerun, delete | pipeline, routes and administrator write one record between each other's awaits | one outcome per run, decided by the first terminal event, never changed |
| Start routes and pipelines (`routes/runs/register-run-routes.ts`, `runs/actions`, `runs/pipelines`) | where each pipeline is suspended, results in the snapshot | start, stages, repair calls, failure, settlement in `finally` | cancellation at any await, late answers, failures of any call | a completed run has its results; every run ends |
| Billing (`billing/billing-service.ts`) | reservations, ledger, orders, bonuses | reserve, confirm, release, compensate; orders and callbacks | confirmation unlocked against release; duplicate callbacks; expiry | credit settled once; price fits the outcome; balance never negative |
| LLM scheduler (`adapters/llm/llm-scheduler.ts`) | queue, five counters, waiters and buffers of streams | `run`, `stream`, `cancelRun`, `drain` | counters changed from callbacks; cancel while draining; lost wake-ups | limits, no idle capacity, truthful positions, no chunk lost |
| Postgres run store (`runs/records/postgres-run-record-store.ts`) | Map of records, chain of saves per run, two tables | save, refresh, restore, delete | saves run after later events; refresh replaces the object in use; crash between saves | tables agree with memory; an end is never forgotten |
| SSE (`sse/run-events.ts`) | one listener per connection, a Redis subscription | replay, live send, close | subscribe, terminal event and refresh at the same time | each event once, in order, then closed |
| Run queue and worker (`runs/queue/run-queue.ts`, `workers/generation-worker.ts`) | BullMQ jobs, Redis channels, the worker's own store | enqueue, process, cancel, publish | two processes save one row; retried jobs; lost messages | same outcome seen by both; a job runs once |
| Workspace sync (`routes/runs/project-workspace-sync.ts`) | versioned project workspace and its source run | merge, skip older, two attempts | version conflicts, run order against end order | newest result of each kind kept |
| Payments (`billing/billing-service.ts`, `adapters/payments`) | orders, notifications, grants | create, callback, status query, grant | duplicate, late and racing callbacks | a paid order grants once; paid stays paid |
| Provider configs and limits (`provider-configs`), generation quotas (`generation`) | usage windows and counters | record, check | window boundaries, concurrent checks | limit kept |
| Document library, OnlyOffice (`documents`, `routes/documents`) | documents, versions, keys | save generated, editor callback | stale or repeated callbacks | newest version kept |
| Auth, admin, notices, mail (`auth`, `admin`, `system-notices`, `mail`) | users, sessions, single rows | request-local edits | session expiry | access rules |
| Normalizers, baselines, traceability, prompts, contracts, code skills | none | pure transformations | none concurrent | output well formed |
| Web client (`src/apps/web`), render service (`src/apps/render-service`), scripts and harnesses | client caches; none; none | reconnection, rendering | reconnection | shows what the server holds |

They interact by direct calls inside one Node process (routes -> pipeline ->
scheduler -> provider; pipeline -> record -> listeners, persistence callback,
workspace sync), by shared objects (the record is held by the pipeline, the
Map and every route that looked it up), and by tables and Redis between
processes.

## 2. Plan

| Order | Modules | Abstract specification | State |
|---|---|---|---|
| 1 | `RunRecords`, `RunLifecycle` (records, starts, pipelines, charging, cancels, SSE) | `RunOutcome` | checked; every safety property and the refinement proved |
| 2 | `LlmScheduler`, `LlmStream` | `CallSlots` | checked; safety and refinement proved |
| 3 | `RunStore` | `RunRow` | checked; safety and refinement proved |
| 4 | `Billing` (ledger, reservations, deductions, orders, callbacks, status queries) | | checked; safety proved |
| 5 | `RunQueue`, `RunQueueHistory` (API process, worker, BullMQ, Redis channels, one row) | `RunRow` | checked; safety and refinement proved |
| 6 | `WorkspaceSync` | | checked; safety proved |
| 7 | `RequirementsPipeline` | | checked; safety proved |
| 8 | design and code pipelines (tasks in parallel as in 7), usage limits, document versions and the editor's callback, sessions, the web client's subscription | | open |

Every safety property of a run is stated by a theorem, and `RunStore` and
`RunQueue` implement one abstract row. Still worth proving: that the balance
of `Billing` implements one account of credits, and that a run's reservation in
`RunLifecycle` is one of its reservations.

## 3. Modules

An action is the code one actor runs between two awaits; JavaScript runs it
without interruption. Every `await` (a database call, a model call, a rendering)
is a place where any other actor may come between.

### RunRecords
The data type of a record and its synchronous operations: `emitEvent` with the
terminal guard and `restoreRecordedTerminalStatus`, `cancelRunRecord`,
`isRunCancelled`, `isRetryableRun`, the stage, completion and failure steps of
the pipelines, and what an SSE stream sends of a log (`UptoTerminal`, `deliver`).

### RunLifecycle
Any number of runs, cancel requests and SSE connections over in-memory records.

- `phase`, `source`: a run id from the reservation of its credit to its record
  (`StartRun`, `RunAction`, `StartFails`, `CreateRun`) and `DeleteRun`.
- `record`: the record objects. `pipe`: where the pipeline is suspended: in the
  two halves of `confirmRunUsage` (`ConfirmReads`, `ConfirmWrites`), in the
  scheduler's queue (`SlotGranted`), in a model call, a rendering or a save, or in
  its `finally` block (`Settle`). `DocumentSteps` and `FeasibilitySteps` are the
  two programs, with the events each step emits and whether it looks for a
  cancellation afterwards. `AnswerInvalid` is the repair loop, `AwaitFails`
  any failing await, `handleRunPipelineError` the catch block.
- `written`, `library`: which results are in the snapshot, which documents are
  in the library. `reservation`, `charge`, `called`: billing and whether the
  provider was called.
- `cancel`: each cancel request is suspended while billing releases
  (`CancelRequested`, `CancelReleases`, `CancelReleaseFails`, `CancelFinishes`);
  the administrator's cancel (`AdminCancel`) is one step.
- `stream`: `Subscribe` replays and listens, `Update` delivers, `Disconnect`.

Left out: `llm_chunk` and `stage_progress` events and time stamps; the
design and code pipelines (the requirements pipeline has a module of its own);
templated documents (they call no
model). The feasibility pipeline's full retry and repair rounds are bounded by
`MaxRepairs`; the document's fallback for forbidden phrases is a normal return;
whether a failure counts as the platform's is a free choice, since
`normalizeRunError` decides it by the text of the error. Bulk delete is
`DeleteRun` of each.

### RunOutcome
What a user may rely on: a run starts once, fresh or from a run that has ended,
and has one outcome for good (`Safe`); it ends (`Promise`). `RunLifecycle`
implements it with `outcome <- outcomes`, `parent <- parents`.

### CallSlots, LlmScheduler
`LlmScheduler` is `createInMemoryLlmScheduler`: `queue`, the `cancelled` flags,
the counters `running` by dimension and key, drain's loop variable `index`,
the callers' promises, the slots held, and the last status each caller was told.
`Submit`, `CancelRun` and `Release` start a drain; its iterations
(`DrainCancelled`, `DrainBlocked`, `DrainStarts`) and the publication of the
positions are steps, and nothing else is enabled until it is over, as the loop
never awaits. `CallSlots` is the promise: places change only from outside to
waiting to holding to gone, within the limits.

### LlmStream
The `stream` generator: the pump fills a buffer of `BufferLimit` chunks and waits
for space, the reader takes chunks and waits for one, both through waiter lists
that are emptied and resumed in later microtasks; the task's end and failure.
Every caller drains the stream, so it is never abandoned.

### RunStore
One document run in the Postgres store of a process without a queue.

- `heap`: the record objects made for the run; the pipeline keeps the first,
  `entry` is the one in the Map, every refresh (`ReadsRow`, `ReadsEvents`) makes
  another, as `applyLoadedRows` does.
- `chain`: the promise chain of saves; `SaveRecord` and `SaveEvent` are the two
  queries of `saveRecord`. The event's sequence number is taken when the second
  one runs. `SaveFails` is a rejected query: the job is dropped.
- `row`, `rows`: the tables, with `coalesce` of the end date and the upsert on
  `(run_id, sequence)`.
- `request`: reads, cancels and deletes, each of which refreshes first.
- `Restart`: a crash anywhere and the restore that marks active runs as failed.

`seen` and `reached` are what the run is loaded with and what has happened to it,
in terms of `RunRow`. Left out: `run_action` events, `refreshProject`, several
processes.

### RunRow
What the row of a run promises whoever loads it, whichever processes write it:
`seen` is `none`, `active` or the outcome a run is loaded with, `reached` the
outcomes there have been, and `interrupted`. `Show` allows an outcome only if it
is one of `reached`, or a failure of a run that was interrupted or cancelled; an
outcome once shown changes only if the run has had two writers, and nothing but
a deletion takes it back. `RunsAgain` tells the two deployments apart: with a
queue an interrupted run may be run again and end otherwise; without one it is
failed for good unless it is cancelled too.

### Billing
The credits and payment orders of one user over PostgreSQL at READ COMMITTED,
where a statement sees what is committed when it starts. A step is therefore a
statement that reads, or the writes of a transaction up to its commit; other
transactions commit between two steps of one.

- `ledger`: a set of entries, found by source as the table's unique index does.
  `reservation` and `confirm`: a run's reservation and the two halves of
  `confirmRunUsage`, which takes no lock. `expired`: the signup bonus is over.
- `spend`: a transaction that spends a credit (`reserveRunUsage`, an
  administrator's deduction): it takes the user's lock, syncs the user's pending
  orders (`writes`: order rows it has changed and not committed, which stay
  locked), reads the balance, chooses the source that expires first, writes.
- `order`, `notified`, `overdue`: `payment_orders` and `payment_notifications`;
  `callback` and `query`: the requests of `processPaymentCallback` and
  `syncPendingOrder`, suspended where they await.
- `gateway`, `sent`, `acked` (external): the state of a trade, the callbacks sent,
  and those answered with `success`; an unanswered one is sent again.

Left out: answers of the gateway with another amount or currency, the product
list, the guest allowance of local development, callbacks for orders that do not
exist, and deductions of more than one credit.

### RunQueue
One run generated by the worker process, with the API process, the BullMQ job,
the Redis channels and the one row both processes save.

- `job`, `stalls`: the job (`TakesJob`, `StalledJobReturns`: a stalled job goes
  back once and fails the second time). `worker`, `rec`, `workerSaves`:
  `processRun` (`ProcessRun`, `ProviderUnusable`, `OpensStage`, `PipelineEnds`,
  `JobEnds`, `onCancelRun`), the record revived from the payload, and the saves
  not yet run. `WorkerCrashes` drops all of them, `WorkerRestarts` makes a new
  process, `crashes` is bounded by `MaxCrashes`.
- `cancel`, `apiSaves`: the cancel route: `CancelReads`, `CancelRemoves` (only a
  waiting job can be removed), `CancelPublishes`, `CancelFinishes`.
- `stream`, `wire`, `control`: an SSE request that subscribes, refreshes and
  replays, terminal events and cancel messages on their way. Redis keeps
  nothing: what is published to nobody is lost.

A refresh and a save are one step here (`RunStore` splits them); a pipeline has
one stage. `RunQueueHistory` adds the history variable `reached`: after a crash
neither the worker's new record nor the job remembers an end that was published.

### WorkspaceSync
The saved workspace of one project. Every save names the version it was made
from and fails if that is no longer the current one.

- `workspace`: version, source run, input (text and rules), for each part (a
  diagram, the code files, context, plan) who made it, and which requirement
  diagrams have their PlantUML and SVG (`drawn`). `client`: what each user's
  client knows.
- `snapshot`: the runs, started from a client's copy: what was selected, the
  models and files the run was given (`context`), what it has made and what failed.
  `ContextParts` are those of the given parts that the merge puts back.
- `sync`: `createProjectWorkspaceSync` of an ended run: read, skip if the
  workspace's source is a newer run of the same kind, merge, save, and once more
  after a conflict; a query that is rejected on the way, or a merge that refuses
  the state, ends it (`SyncFails`).

### RequirementsPipeline
`runStagePipeline` of the requirements pipeline: its tasks are async functions
that run in parallel.

- `task`: where each diagram's task is, `idle`, `generating` (with its time-out
  and the second, compact attempt), `rendering`, done or `rejected`. `main`,
  `round`: what the pipeline itself awaits, and the repetitions of the pool of
  analysis models, whose `Concurrency` workers take use cases one by one.
- `models`, `saved`: the models the pipeline works with and those it has put
  into the snapshot, which are not the same. `plantUml`, `svgs`, `errors`: the
  artifacts and the diagram errors told.
- `handled`, `up`: a promise rejected before anyone awaits it is an unhandled
  rejection, which ends the process.

The rules a run extracts first are a choice (there are some or none), and
repairs within a generation are part of that await.

## 4. Runs

`CHECK_DEADLOCK FALSE` is set throughout: finitely many runs, calls, chunks,
orders or requests end, and then nothing is left to do.

| Run | Instance | Question and answer |
|---|---|---|
| `RunLifecycle_retries` | a document run and its retry, 1 user's cancel, the administrator's cancels, 1 stream that reconnects, 1 repair | one outcome per record; a stream agrees with the log (nothing twice, skipped or late); completed runs have their results; the price fits the outcome, and a run that was not cancelled is charged exactly if the provider was called; every step implements `RunOutcome` |
| `RunLifecycle_endings` | a feasibility run, 2 cancels, 1 stream, 2 repairs, fairness | a closed record never changes; every run ends, its credit settles and no stream stays open |
| `LlmScheduler` | 4 calls of 3 runs, 2 users, 2 projects, 2 providers, fairness | limits, no idle capacity, true positions, cancelled calls rejected, `CallSlots` implemented, equal calls start in turn, every call is answered |
| `LlmStream` | buffer 1 (the code's), up to 12 chunks, fairness | each chunk once and in order; slot kept; end after the last chunk; the reader ends |
| `RunStore_saves` | a cancel, a delete, 1 crash, 1 rejected save, fairness | the row ends as the record does, no outcome is made up, an ended run is never loaded as active and keeps its outcome unless it is cancelled (`RunRow` is implemented), no save brings a deleted row back as long as no cancel has closed a record, every row ends |
| `Billing_orders` | 1 order, 2 callback requests at once, a status query, a run being started, the administrator's refund mark, fairness | a paid order has its credits once and was paid at the gateway; no late answer or expiry takes `paid` back; every payment lands |
| `Billing_credits` | 3 runs, a deduction, a bonus of 2 that expires, a gift of 1 | a transaction spends from a source no more than it holds, unless a confirmation or a grant came between its last look and its write; a balance that says a credit is left is right |
| `RunQueue` | 1 run, 1 cancel, 1 stream, 2 crashes of the worker, fairness | `RunRow` is implemented: an ended run is never loaded as active again, and no outcome is made up; the run ends and its stream closes, unless the worker died in one of the ways that leave the row as it is |
| `WorkspaceSync` | 2 runs of any kinds, 1 user, 1 diagram of each sort, 3 saves | what a save put there stays until someone who saw it or a run that makes it replaces it, or the merge puts back what the run was given (section "What the code does otherwise"); an older run never saves over a newer one of its kind; results given up for a conflict of versions have lost to two other saves |
| `RequirementsPipeline` | a plain diagram, the use case diagram, 2 use cases, a stored use case model and one stored analysis model, a pool of 1, fairness | a completed run has drawn or told of every diagram; models it was given are kept; nothing writes into a completed run; all of it ends |

The bounds let every race of the hazards happen. Two cancels and the pipeline's
own end need one run; a retry needs a second one; the repair loops that look for
a cancellation (feasibility) and that do not (document) each have a run. In the
scheduler's instance a call can be blocked by its user alone and another by its
project alone. A buffer of one chunk is the code's constant, and waiting for
space, for a chunk and for the end occurs within a few chunks. In `RunStore` the
crash can come between any two saves, and the refused delete stands for every
request that only refreshes. Two callbacks, a query and a spending transaction
are the four writers of one order. Three runs and a deduction are more spenders
than any of the two sources has credits. Two crashes are one more than BullMQ
forgives. Two runs of the same kind can end in either order, and a third save, the user's, can
come before each attempt. With two use cases and a pool of one, a use case waits
for the other one and is repeated alone. What larger instances could add is
covered by the theorems, as far as section 5 lists them.

### What the code does otherwise

Two runs end in a violation, each of a sentence of the repository that
`PROJECT.json` quotes under `findings`.

| Run | What happens |
|---|---|
| `RunStore_event_rows` | events emitted together get one sequence number, and the rows of all but the last are overwritten |
| `RequirementsPipeline_cancel` | a diagram's task that sees the cancellation before the pipeline awaits it is an unhandled rejection, which ends the process |

The models show more behaviour a reader should know of. No run asserts it; each
is part of an action, and where a property would otherwise be false, it says so.

*Runs.* The cancel route rejects queued model calls first and closes the record
after two awaits, so the pipeline may fail the run in between and an accepted
cancel is answered `failed`. The credit is confirmed before the call is queued:
cancelled there, the run is charged for no call (`FairPrice` excepts it); released
before the confirmation reads it, the run calls for free. A feasibility pipeline
writes a late model result into the snapshot of a cancelled run. After a cancel
the pipeline's own record object overwrites the cancelled row (`RunRow` and
`EndedStaysEnded` except it). The row of a run that is cancelled and then deleted
comes back: a refresh had replaced the record the pipeline holds, so the cancel closed
another, and the next save of the pipeline inserts the row again; so does a cancel
that was waiting for billing while the run ended and was deleted (`DeletedForGood`
is stated for runs no cancel has closed). The `failed` event a restart adds is saved
by no query, and nobody releases the reservation of a run it marks as interrupted.
A document saved just before the run is found cancelled stays in the library. A
start that fails before its record exists leaves its reservation
(`EveryReservationSettles` speaks of runs that have one).

*Billing.* `refund_pending` is undone by a late callback or expiry
(`PaidStaysPaid` speaks of `paid` alone). The balance leaves out a purchase
granted by the transaction's own sync. A bonus that expires under a reservation
makes the balance negative though a gift may be left (`BalanceIsSpendable` is one
direction for this reason), and so may a deduction next to a confirmation, which
takes no lock. A release between a confirmation's read and write frees a credit
that is charged all the same, and a platform failure does not refund it.

*Queue.* A cancel that arrives between the job being taken and the record being
listed is dropped by the worker. A stream that subscribes after the end is
published and refreshes before it is saved never closes. A cancel before the job
is queued is followed by the job all the same. A second crash, or one after the
job completed but before its saves, leaves the row running. The reservation is
kept when the provider is unusable in the worker.

*Workspace.* A design or code run that became the source in between lets an older
requirements run overwrite a newer one's diagrams. A code run that ends late puts
back the design models it was started with, a run with rules the text and rules.
A requirements run that has drawn nothing, because it failed or was cancelled early
or was to find rules only, puts back the models it was given: those of the selected
diagrams that have no error, or all of them if none was selected. It does so over
newer edits, and clears the PlantUML and SVG of these diagrams (`NoSaveIsLost` names
both cases in `PutsBack`). A run of rules alone that was given no models and fails
without any rules wipes the workspace's rules. Two conflicts lose the results of a
run, to be read in the audit log only; a rejected query loses them at once, and is
only logged by the process (`ConflictTakesTwoSaves` speaks of conflicts). The merge
has an arm for requirement models that come with a design snapshot; since such a
snapshot has neither text nor rules, it is never taken.

*Requirements.* Errors are keyed by the kind of diagram, so one use case's
success deletes a sibling's error, and a completed run may lack an analysis
diagram without telling. A cancelled run goes on with compact attempts and render
repairs, and what they return is written into its snapshot. The snapshot loses
the analysis models a run was given as soon as another task succeeds, even if the
analysis then fails; the workspace keeps its own.

### Fairness

`RunLifecycle`: weak fairness of each run's pipeline step and each cancel's step.
The event loop runs what is ready; model calls have idle time-outs, renderings
time-outs, and the scheduler grants slots (which `EveryCallSettles` shows).
`LlmScheduler`: weak fairness of the drain loop; strong fairness of a task's end
and of its release, because a drain started by others disables them again and
again for an instant. `LlmStream`: weak fairness of the microtasks and of the
provider. `RunStore`: weak fairness of saves and of the pipeline; a crash is
never required. `Billing`: weak fairness of transactions and callbacks that have
begun (the database answers), strong fairness of the delivery of a paid callback
that has not been acknowledged, since the gateway repeats it. `RunQueue`: weak
fairness of the job being taken and of a stalled one being found (BullMQ does
both by timer), of both processes' own steps, of a restart of the worker by its
supervisor, and of Redis deliveries to a process that listens; none of the cancel
route being called. `RequirementsPipeline`: weak fairness of the pipeline and of
each task, while the process is up: a generation ends by its own timer, the render
service and repair calls answer or fail. `WorkspaceSync` has safety properties
alone and no fairness.

## 5. Proofs

All theorems hold for any number of runs, requests, streams, calls, orders, users
and keys, for all limits and buffer sizes, from the named assumptions of the
modules: `Kind` is one of the two pipelines, `MaxRepairs` is a number, `NoRun` is
no run; `Calls` is finite, all calls share the global key, limits are positive
(which `positiveInteger` ensures); `BufferLimit` is positive, `Longest` a number;
credits come in positive sizes; `MaxCrashes` is a number; runs are numbered in the
order of their creation; kinds of diagrams and use cases are apart and the pool
has a worker. The type invariants of these modules are proved and not run.

**RunLifecycleProofs** (with `RunRecordLemmas`, what each record operation keeps).
`OneOutcome` is not inductive: it says nothing of the cancel routes and pipelines
that still hold a record. `IInv` adds to the types

- `RecordsOK`: `terminal` is set exactly if the log has a terminal event, there
  is one, and the status is the event's;
- `StartOK`: a run without a record has a fresh one and no pipeline;
- `SourceOK`: a run's source has a record that is closed;
- `CancelOK`: a cancel request that is suspended is about a run with a record.

Each piece of a pipeline segment is shown to keep it, then each action, and then
follow `TypeCorrect`, `OneOutcomeAlways`, `StaysClosedForGood` (a closed record
only gains `run_action` events), `ImplementsOutcome` (each step is a start, an
end or a stutter of `RunOutcome`) and `NothingLeftReserved` (no pipeline ends with
its credit reserved, which no run checks: `EveryReservationSettles` does).

The other three invariants of the runs need more of the state each, proved on top
of `IInv`:

- `StreamsAlwaysAgree` from `StreamsOK`: a stream is on a run that has a record, and
  what it sent agrees with the log. A delivery is the new part of the log up to its
  terminal event, so it agrees again (`DeliverAgrees`), and a closed stream's part
  does not change since logs only grow (`ClosedAgrees`).
- `CompletedAlwaysHasArtifacts` from `ResultsOK`: a suspended pipeline awaits what
  its step is for and has written what its earlier steps produced (`PipeOK`), so the
  one that completes a record has written everything (`CompletedOK`). A completed
  run says nothing of the steps before, which is why the second is not inductive
  without the first.
- `PriceAlwaysFair` from `ChargesOK`: the provider is called only after the
  pipeline confirmed the credit; a pipeline that settles an error has a failed run;
  and as long as no user's cancel request is about the run, its reservation and its
  ledger entries are what the pipeline believes. The last is what two requests of one
  user can break, and what `FairPrice` is stated without.

**LlmProofs.** Of `LlmScheduler`, `IInv` relates queue, promises and held slots
(`QueueOK`), says what `drain` has established before its loop variable
(`CursorOK`: these calls are blocked and not cancelled, which stays true because
counters only grow during a drain), and that cancelled calls hold no slot. It
contains `LimitsRespected`: each counter equals the number of its holders, by
cardinality of finite sets. Results: `LimitsAlwaysRespected`, `NeverIdle`,
`PositionsAlwaysTrue`, `CancelledAlwaysRejected`, `AlwaysInTurn`,
`SchedulerImplementsSlots`.
Of `LlmStream`, whose chunks are numbered, `StreamInv` says that those taken, those in
the buffer and the one in the pump's hand follow one another without a gap, and
how the two loops' variables agree. Results: `EveryChunkAlwaysOnce`,
`SlotAlwaysKept`, `AlwaysEndsAfterLast`.

**BillingProofs.** That a paid order has been granted depends on what the
unfinished requests know. `IInv` is `Shapes` (what is needed of the types),
`Exclusive` (one transaction holds the user's lock, and only it has uncommitted
writes), `Informed` (who knows of a payment knows it from the gateway),
`Uncommitted` (a row a transaction has written as paid goes with a purchase it
has added or found, and no paid row is written as anything but `refund_pending`),
and `Granted` (a paid order has its entry, and purchases are those of paid trades). Results:
`PaidMeansGrantedAlways`, `PaidStaysPaidAlways`.

What is spent needs a second invariant on top of `IInv`. `CreditInv` is `Sound`
(a ledger is finite, has one entry of each source, and every credit spent is spent
from an entry it has and expires with it), `Funded` (reservations and
confirmations under way name an entry, and finitely many runs hold one) and
`Knows`: the source a transaction has chosen has, in the ledger it looked at, more
credits than entries spent from it and reservations held on it. The reservations
are those of the present: only who holds the user's lock makes one, and others only
release theirs. A confirmation or grant that comes after the look is why the theorem
is about transactions that commit on the ledger they have seen; `VisibleSound` says
that a transaction's own uncommitted purchases do not disturb this. Result:
`FreshReadsAlwaysSpendWithinSource`. Nothing is assumed of the number of runs or
gifts; that the ledger stays finite is part of what is proved.

`reserveRunUsage` looks at the credits twice, by balance and by source, and the code
computes the two differently. `BalanceAlwaysSpendable` says that a positive balance
has a source. `SourceInv` adds that every entry is, by its kind, a source with
credits or one credit spent from a source. `NothingLeft` then takes the sources one
by one: each with what was spent from it adds to the total at most what is held on
it, so a ledger in which no source has anything left totals at most the number of
reservations. The total is a fold over a set; `SumsExist` and `TotalIs` show, on the
smallest part of a ledger that would be a counterexample, that the fold adds
up in any order. The converse is false: see section 4. `TypeCorrect` rests on the
same lemmas, since a transaction keeps the balance it has read.

**RunStoreProofs.** The outcomes are written down in records, jobs, both tables and
the rows a request still holds, and each can be loaded into another; so
`EveryOutcomeTold` says of all of them that a completion comes from the pipeline and a
cancellation from a cancel. With the types, `PointersOK` and `NothingYet` this holds
of every behaviour. The rest of `IInv` speaks of the time in which only the pipeline
writes (`OneWriter`): `Single` (record, row, rows, chain and the rows held agree on
the end; a record loaded later is inactive only if the first has ended),
`DeletesLast` (a deletion is followed by deletions only, after the pipeline is over)
and `RowCatchesUp` (the row lags only while a save of it waits). `OneWriter` only
ever becomes false, so this part is never to be restored. `eventsOf` is a recursive
function; what it returns is proved through a least counterexample
(`LeastExists`, `SetInduction`), since the induction theorems are out of reach.

Two invariants on top of it hold whoever writes. `EndsOK`: a closed record has an
outcome and tells no other, the jobs that save an end are those of closed records,
every row that has an ended status has an ended snapshot and an end date, and so
have the rows that requests hold; until a restart the end of the pipeline's own
record is the pipeline's, unless a cancel closed it (`OwnEnd`). `RestOK`: when the
pipeline is over its record is closed, every save of another object is that of
a closed record, and a row that has not ended in all respects has a save waiting.
This gives the safety half of `EveryRowEnds` for any number of cancels and
crashes: the row at rest has ended if the pipeline is over.

`RowKept` is the refinement of `RunRow`: each step leaves `seen` alone, makes the
row appear, deletes it, or shows an outcome: the snapshot's, or `failed` for a row
whose two writers disagree (`SeenTrue`), reached by `EveryOutcomeTold` and `EndsOK`.
`upsertRecord` is where it could fail, since a save of a record that is still
running comes after the end of another; the coalesced end date keeps the run
inactive. `DeletionIsForGood` needs `Gone`: while nobody's cancel has closed a
record, the pipeline of a deleted run is over, and a chain without its row is empty or
still holds a deletion; `DeletesLast` keeps it when a deletion is run or rejected.
`EndedStaysEnded` is stated by a theorem alone: it speaks of the row's
own status, `KeepsRow` of what is loaded. Results: `TypeCorrect`, `OutcomeAlwaysTrue`,
`RowAlwaysAgreesAtRest`, `EndedAlwaysStaysEnded`, `DeletionIsForGood`, `RowKept`.

**RunQueueProofs.** `IInv` has the types, that the records of both processes have
at most one end (`Sound`), that what the row or its snapshot says of an end has an
end date (`Dated`), that the cancel route goes on only with a record it read as
open (`CancelOpen`), and that the job is removed by that route alone
(`NotRemoved`). `NeverReopened` follows, and is checked by no run since `KeepsRow`
implies it.

The row is compared with a history, for which `HInv` adds three parts. `Remembered`:
what record, cancel and crashes tell of an end is in `reached`.
`SavesOK`: a waiting save of an end is that of a closed record, one of a loaded
record was queued for a row that has an end date and two writers (`~Alone`), and a
worker that has not begun the job (`NotBegun`) has no other to run.
`RowTrue`: a row whose status has ended has an ended snapshot, and while there is
one writer an end date means that the worker's record is closed and the row tells
its status. The first half is needed since a save takes the status from its event
and the snapshot from the record, which differ once two processes write. `RowKept`
then goes through the steps; the revived record overwrites a row that may have
ended only in a run that was interrupted, where `RunRow` allows it.

What is left of the fairness property without fairness is `EndedAtRest`: an accepted
cancel whose save is through has ended the row, whatever the worker wrote and
however often it died; and without a crash so has a job that is done. Its
`EndsOK` follows the end on its way to the row (`EndOnItsWay`: in the row, in a
save of the worker, or with the cancel route). The same invariant gives
`OnlyACrashLosesTheEnd`: the step that completes a job has its end on the way even
after crashes, and only another one loses it, which is the first half of
`Abandoned`. Results: `TypeCorrect`, `NeverReopenedAlways`, `RowKept`,
`AlwaysEndedAtRest`, `EndLostByACrashAlone`.

**WorkspaceSyncProofs.** `IInv` is the types, `Copies` (a version names one
content: whoever holds the current version holds the workspace), `Attempts`
(every failed attempt of a sync is a version it has seen go by) and `SnapshotsOK`
(a requirements run has a text, and only selected diagrams fail). Results: `TypeCorrect`,
`ConflictsTakeTwoSaves`, `NoSaveIsEverLost`, `OlderNeverReplacesANewerRun`.

**RequirementsPipelineProofs.** What a completed run has answered follows from
what the pipeline has awaited, which `IInv` states place by place: nothing is
there before the tasks start (`Begun`), every selected plain diagram has a task
after it (`Asked`) and is drawn or told of when that is over (`Answered`); only
the use cases in question go through the pool, and the pipeline goes on when all
have their model (`Pool`, `Made`); nothing is under way when the run completes
(`Finished`), and which of the given models may be gone (`Kept`). Results: `TypeCorrect`, `EveryDiagramAlwaysAnswered`,
`GivenModelsAlwaysKept`, `AlwaysSettledWhenCompleted`.

Only model-checked: all liveness (`KeepsPromise`, `EveryReservationSettles`,
`EveryStreamCloses`, `EveryCallSettles`, `StreamEnds`, `EveryRowEnds`,
`EveryPaymentLands`, `EveryQueuedRunEnds`, `WatcherSeesTheEnd`, `NothingRunsOn`),
since the proof system does not reason about fairness and `ENABLED`.

## 6. Not modelled

- The design and code pipelines, and the repairs within one generation of the
  requirements pipeline: they run tasks as `RequirementsPipeline` does, and most
  of their lines build prompts and normalize answers.
- Provider limits and generation quotas: counters written in single statements.
- Document library and editor: only that a document run saves its document.
- Sessions, access rules, notices, mail, administration beyond the cancel of a
  run: request-local checks and single-row writes.
- Normalizers, baselines, traceability, code skills, prompts and contracts: pure
  transformations of texts, whose outcome is a choice in the models.
- The web client: it reads the streams and answers modelled here and saves the
  workspace as the `client` of `WorkspaceSync` does; its views keep no other
  shared state. They are more than half of the repository's lines.
- The render service (a stateless request), database access, scripts, harnesses.

Left out of the modelled components: an endless supply of calls to the scheduler
(each call of the model is made once, so a call overtaken for ever is outside it),
the release of credits for runs a restart interrupted (store and billing are
separate models), failures of the settlement itself, and several workers.
