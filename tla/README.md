# Verification of the research agent platform

The repository runs long research jobs for clients of an HTTP API. A client
submits a run, worker processes execute it, and on the way the workers call
language models and search providers through a shared gateway. What has to be
right, and is hard to test, is what several processes do to shared rows in
PostgreSQL or to shared keys in Redis, and what is left behind when one of them
fails half-way. That is what is modelled here: TLA+ modules for the control, TLC
runs on small instances, and TLAPS proofs for every number of tasks, workers,
callers, invocations or items.

In this file paths are relative to the repository's root as it is mounted under
`src/`; `tasks/service.py` is short for `src/packages/tasks/service.py`.

## 1. Inventory

| component | state it keeps | operations | talks to | hard behaviour | what makes it correct |
|---|---|---|---|---|---|
| run admission (`research_gateway/admission.py`, `service.py`) | rows of `runs`, advisory lock | `submit`, `evaluate`, `_resolve_idempotency` | task service, API clients | concurrent duplicates, counting against a cap | cap holds, duplicates replay, submissions look atomic |
| legacy submission (`tasks/service.py`, `tasks/repository.py`) | `runs`, `task_jobs` | `submit_research`, `enqueue_task` | same tables | lookup and insert apart, rollback of a flushed run | one task per key |
| task queue and worker service (`tasks/`) | `task_jobs`, `task_attempts`, `runs` | `claim_next`, `process_next`, `mark_succeeded`, `mark_failed`, cancel and retry requests | handlers, agent, API | two transactions per outcome, stale ORM objects, requests in between | attempts bounded and closed, work not repeated, runs end and obey their life cycle |
| execution plane (`execution/`) | `task_jobs`, `execution_leases`, `runs` | `claim`, heartbeat, `finalize`, `release`, `list_expired`, `recover_expired` | task and run rows, which the requests of `tasks/` write too, database clock | crashes, expiry, revived workers, concurrent sweeps, cancels and retries that write without the generation | fencing, recoverability, cap on active runs, everything comes to rest |
| provider invocation (`capability_gateway/adapters.py`, `circuit.py`, `budget.py`, `redis_stores.py`, `fallback.py`, `wiring.py`) | circuit records, concurrency leases | `invoke`, `allow`, `record_success`, `record_failure`, `acquire`, `release` | providers, PostgreSQL or Redis | read and write of a record apart, expiring leases, store faults, a store per process | calls within the budget, leases come back, circuits open for a reason, calls end |
| registry and router (`capability_gateway/registry.py`, `router.py`) | static metadata | `select`, `route` | invoker | none: a pure function | STRICT has no fallback, order by role and priority |
| run event timeline (`research_gateway/events.py`) | `run_events`, the row lock of the run | `record` | submission, cancellation, worker, agent | sequence numbers of concurrent writers, fail-open | numbers of a run are 1, 2, 3, ... in the order of commits, nothing is lost to a collision |
| deep research agent (`agents/deep_research.py`) | position in its phases, reports | `run`, `_check_cancelled`, `_emit`, `_persist_report_for_run` | timeline, gateway, run row | cancellation between boundaries, overlapping executions | a cancellation is heeded within one section, a success has a report |
| legacy research workflow (`agents/workflow.py`) | a run of its own, `run_steps` | `run`, `_run_step`, `_record_skipped_step`, `_finish_run` | task row, sources, agents | a commit before and after every stage, exceptions between commits | outcomes tell what was done, its own steps and run are closed |
| research graph (`research_harness/runner.py`, `graph.py`, `checkpoints.py`, `evaluation_recorder.py`) | graph state, checkpoints, evaluation store, report, run | `run`, nodes, `chief_gate`, `human_review`, resume, compaction | node implementations, reports | resume at any time, overlapping invocations, failed nodes and checkpoints, crashes, the step limit of the compiled graph | rounds bounded, reports earned, search tasks closed, checkpoints follow the flow of the graph |
| delivery (`delivery/`) | `delivery_jobs`, `delivery_job_items`, `runs` | `approve_job`, `dispatch_job` | connectors, task queue | unlocked validation, a commit per item, partial failure, crash while dispatching | nothing is sent unreviewed, the job tells what happened to its items |
| ingestion (`ingestion/service.py`) | `documents`, `document_chunks`, `runs` | `_ingest` | parsers, storage | replacement of chunks by concurrent requests, unique constraints, broken sessions | the chunks of a document are those of one ingestion |
| sources, content, memory, retrieval, reports, evaluation | their rows | pipelines of one request | providers, files | data, not control | not the subject of this project (section 7) |

Requests, workers and sweeps share no memory. They meet in the database, each
statement or transaction of one lying anywhere between two of another, and this
is the interleaving every module here has: one action is one transaction (or one
statement whose result the program carries into a later one).

How the parts meet: admission inserts the run and its task; the queue
(`TaskQueue`) or the execution plane (`ExecutionCoordinator`) claims the task;
its handler is the agent or the legacy workflow (`ResearchTask` composes the two
with the worker, the timeline and the requests that create and cancel the run);
agent and graph nodes call providers through the gateway (`ProviderGateway`);
the graph (`ResearchGraph`) is invoked by the harness and writes the run and the
report itself; delivery sends finished content, and ingestion feeds retrieval.

## 2. Modules

| module | models | abstract specification it implements |
|---|---|---|
| `ExecutionCoordinator` | PostgreSQL coordinator, lease store, worker loop, client requests | `FencingToken` |
| `TaskQueue` | queue, worker service, client requests | `RunLifecycle` |
| `ProviderGateway` | invoker, breaker, budget, both stores | `CircuitMachine` (for one caller on PostgreSQL) |
| `RunAdmission` | both entry points for runs | `Submissions` |
| `ResearchGraph` | runner, routing, checkpoints, resume, compaction | `ResearchFlow` (while nothing is torn) |
| `Delivery` | approval and dispatch of a job | `DeliveryFlow` (while requests keep apart) |
| `Ingestion` | concurrent ingestions of one content | |
| `RunRow` | the row of a run, conditional updates and the lock on it | |
| `RunTimeline` (extends `RunRow`) | `RunEventRecorder` | |
| `DeepResearch` (extends `RunTimeline`) | the agent | |
| `AgentWorkflow` (extends `RunRow`) | the legacy workflow | |
| `ResearchTask` (extends both) | composition: worker, agent or workflow, submission and cancellation | |
| `...Proofs`, one per component | theorems (section 5) | |
| `MC...`, one per component | the instances for TLC | |

Some definitions come in pairs: the one that is used and, just before it, a
variant with the same parameters that is used nowhere. The variant is the kind of
mistake a change to that line could make; `PROJECT.json` says which property
fails when it takes the place of the other. They show that the properties depend
on the code they are about.

### ExecutionCoordinator

`status`, `generation`, `attempts`, `writer`, `runStatus` and `cancelWanted` are
columns of `task_jobs` and `runs` (`writer` is the generation that stored
`result_json`); `open` and `lapsed` describe `execution_leases`; `pc`, `held`,
`todo` and `plan` are the locals of `process_next` and of the sweep it begins
with. A claim inserts its lease in the transaction that bumps the generation, so
the pair of task and generation names the lease. `call` is where a request of a
client is between the transactions of `tasks/service.py` and `tasks/repository.py`;
`retries` counts the retry requests that requeued a task. These requests write the
row by primary key: they may cancel a task that is executed, or requeue one whose
result is stored, without a look at the generation. `calm` is chosen once: in a calm
behaviour no heartbeat is late and no release of a lease is refused.

| action | code (`execution/coordinator.py` unless said) |
|---|---|
| `ListExpired`, `ReadLeased`, `Recover`, `ReleaseRecovered` | `recover_expired`: the list, then for each lease a read, a conditional UPDATE, the release |
| `ClaimTask`, `ClaimNothing` | `claim` under its advisory lock |
| `Heartbeat`, `Lapse` | `execution_lease.py` heartbeat, and the clock passing `expires_at` |
| `Finalize` (`Publish` or `Fenced`), `ReleaseLease`, `ReleaseFails` | `finalize` and the `except` clause of `worker.py` |
| `RequestCancel`, `CancelSeesQueuedRun`, `CancelRun`, `CancelFindsTask` | `cancel_research_run` of `tasks/service.py` |
| `CancelReadsTask`, `RetryReadsTask`, `CancelTask`, `RetryTask` | `cancel_task` and `retry_task`: the unlocked read and the write |
| `Crash` | the process dies between two transactions |

The non-atomic `active_count` that `claim` consults first only saves a
transaction; a claim that it turns away is a `ClaimNothing`.

### TaskQueue

`status`, `attempts` (the rows of `task_attempts` by number), `moved`
(`source_run_id` was replaced), `runStatus` and `cancelWanted` are columns. `pc`,
`job`, `known` and `plan` are locals of `process_next`; `known` is what the ORM
object of the worker loaded last, because the flush of SQLAlchemy writes only
columns that differ from it, which decides what `mark_failed` does to a task that
a client changed meanwhile. `executor` says who runs a task: the legacy workflow,
when the payload names no strategy, the agent, or an executor injected into the
worker. `done` and `refused` are history: how often the success of a task was
stored, and how often the database then refused the success of its run. Claiming,
both outcomes, retry, dead letter, the cancelled execution and
the three client requests are actions. Tasks of other types have no run: for them
every update of the run matches nothing, and nothing else differs.

### ProviderGateway

Records and leases live in a cell for each pair of store and provider; a process
keeps the store it found at its start (`store`, one of `Deployments`), so two
processes may use different ones. `circuit` is the stored record of each cell,
`orphans` counts leases that nobody will release, `held` says that a caller's own
lease is in the store, `copy` is the record a caller has read and changed but not
yet written. `next_probe_at` and `expires_at` are abstracted to "still to come"
and "passed". The loop body of `invoke` is `Allow`, `SaveProbe`, `Acquire` (or
`GiveUp`, or `LoseAcquire` when Redis does not answer), `Answer`, `ReadFeedback`,
`SaveFeedback`, `Finally`, in that order, with the exits of the code: next
provider, return, exception. An answer is a success, an availability failure
(those of `AVAILABILITY_FAILURES`) or another failure, which also stands for a
cancelled call: it feeds back nothing and does not fall back. Faults differ by
store as in the code: a PostgreSQL store raises, Redis reads the default, drops
the write, refuses the lease or loses the release. A refused acquisition may have
inserted its lease, a failed release may have removed it. `failures` counts up to
the threshold; further ones change nothing the breaker looks at.

Left out: `should_cancel` (no production caller passes it), a provider without an
adapter (skipped like a rejected one), the invoker without a fallback policy, and
telemetry.

### RunAdmission

Each caller makes one submission, chosen initially: entry point, key and body. The
gateway path is `FastPath`, `Lock`, `Recheck`, `Decide`, `Create`; leaving it at
any point gives the lock back with the transaction. The legacy path is
`LegacyLookup` and `LegacyEnqueue`, which hand out the id of the flushed run.
`Lose` is a request that dies; PostgreSQL rolls it back. `Leave` is a run that is
started or cancelled, which frees capacity.

### ResearchGraph

`run` and `reports` are the run's row and its rows in the report table, `saved` is
the state in the latest checkpoint, `snapshot` what a compaction has read. An
invocation of `ResearchGraphRunner.run` has its `state`, a position `pc`, and
`outrun`, which says that another invocation took the version number it was to
write, so that its checkpoint is dropped while it goes on. The state has the
fields that routing and the end of a run read; nodes between two of the modelled
ones leave these fields alone and belong to the next. `compiled` are the
invocations that run in LangGraph's compiled graph (a resume drives the nodes
itself), whose step limit has room for `GraphRounds` whole rounds. `rounds`,
`verdict`, `mishaps` and `abandoned` (the last invocation left without closing the
run) are history.

| action | code (`research_harness/runner.py` unless said) |
|---|---|
| `Start`, `Resume` | `run` with a new run, and `_load_resume_state` with the action of a reviewer (`_apply_human_review_action`, `resume_suspended_tasks`) |
| `RunNode` | `make_node_handler` around one node, and `_next_node_after`; `Plan`, `Evidence`, `Gate` and `Results` are the nodes (`real_nodes.py`, `nodes.py`) |
| `SaveCheckpoint`, `SaveLast` | `_save_db` of `checkpoints.py`: highest version plus one, without a lock |
| `Close`, `SaveReport`, `Finish` | `_finalize_evaluation`, `_save_report_artifact`, `_finish_run` |
| `CompactReads`, `CompactDeletes` | `compact` of `checkpoints.py`: the list, then the deletion of all else |
| `Escape` | `graph.invoke` raises at its step limit (`Overrun`), and the exception leaves `run` past `_finalize_evaluation` |
| `Crash` | the process dies, or another exception leaves `run` |

### Delivery

`job`, `items` and `run` are rows; `known` is what a request has read and will not
read again in its transaction, `result` what it will write. A dispatch is
`DispatchReads` (validation without a lock), `Marks` (DISPATCHING is committed),
`CreatesRun`, `Exports`, then for each item `Sends` and `RecordsItem`, then
`Derives` and `Settles` for the job and `FinishesRun`. An approval is
`ApproveReads` and `Approves`. The connector may accept or refuse each item; the
connectors of the repository are stand-ins that answer alike for all items.

### Ingestion

`doc` and `chunks` are rows, with the author of each chunk; `known` and `found` are
what a request read. `FindDocument`, `CreateDocument`, `Parse`, `SelectChunks`,
`DeleteChunks`, `InsertChunks`, `Commit` and `FinishRun` follow `_ingest`; a DELETE
of rows that another transaction has deleted waits for it, an INSERT that meets
the unique constraint fails, and `Fail` is the exception clause, which writes
nothing when the session's transaction has failed. `schema` tells a database made
from the models from one made by the migrations, where the column `chunk_level`
may not be null and no ingestion can insert.

### RunRow, RunTimeline, DeepResearch, AgentWorkflow, ResearchTask

`RunRow` has what the parts share: the status of the run, the cancellation flag,
`moved` and `fulfilled` of the task, the position of each execution in
`process_next`, the conditional UPDATE (`Cas`) and failures of the database
(`Fault`). `RunTimeline` adds `record()`: `Allocate` locks the row of the run
(PostgreSQL) or not (SQLite) and computes the next number, `Recorded` stores the
event, is refused by the unique constraint, or loses it to a failure that is only
logged. `DeepResearch` is a table of phases, checks, events and the saved report,
in the order of `DeepResearchAgent.run`; `AgentWorkflow` is the list of stages of
the legacy workflow for its three sources of evidence, with the stages recorded
as skipped and its exception clause.

| action of `ResearchTask` | code |
|---|---|
| `Claim`, `MarkRunRunning`, `Announce`, `MarkTaskSucceeded`, `MarkRunSucceeded`, `MarkRunFailed` | `process_next` of `tasks/service.py` |
| `Execute` | `_handle_research` of `tasks/handlers.py`: `Research` of the agent, or `Analyze`, which is the workflow or `RejectPayload` for a payload that is not a research request |
| `Create` | the RUN_CREATED of `submit` |
| `AskToStop`, `SeesQueued`, `CancelRecords`, `CancelQueued` | `cancel_research_run` |
| `Crash` | the worker dies; its open transaction is rolled back |

Executions may overlap, as a client can cancel and retry a task that is being
executed. The rows of the task and its retry budget are the business of
`TaskQueue`; here a claim is possible until the task has succeeded.

## 3. Runs

Twelve runs, none longer than about two and a half minutes with two workers of
TLC.

| run | instance | distinct states | question |
|---|---|---|---|
| `exec_races` | storm: 1 task, 2 workers, 2 attempts, a crash, late heartbeats, refused releases, a client that cancels and may retry once; calm: 2 tasks, a cap of 1, the same client | 1,389,270 | is fencing right, can every running task be recovered, does everything come to rest; in the calm, does the cap hold and does success stay |
| `exec_double_recovery` (violation) | 1 task, 2 workers | | does a sweep touch only the execution that expired |
| `queue_races` | 1 task, 2 workers, 2 clients, 3 executors, a crash, a retry request, refused commits | 2,350,017 | attempts, repeated work, runs, life cycle, coming to rest |
| `queue_retried_run` (violation) | 1 task, 1 worker | | does a succeeded task have a succeeded run |
| `gateway_stores` | 2 callers, 2 providers, one caller falls back, budget 1, threshold 2, crashes, faults; both on PostgreSQL, both on Redis, or one alone on PostgreSQL | 455,876 | leases, budget, records, reasons to open, the end of every call, the documented breaker |
| `gateway_wedged` (violation) | 2 callers, 1 provider | | does an open circuit get its probe |
| `admission` | 3 submissions, 2 entry points, 1 key, 2 bodies, capacity 1 | 275,504 | capacity, replay, atomicity |
| `graph` | 2 invocations, bounds 0 and 3, a step limit of 2 rounds, both strategies, 5 reviewer actions, 2 resumes, 1 accident | 12,245,085 | rounds, reports, search tasks, flow |
| `delivery` | 2 items, 2 clients, 4 requests, 1 crash | 250,118 | what the job tells of its items, flow, no job left dispatching |
| `ingestion` | 3 ingestions, one cut differently, both schemas, 1 crash | 8,751 | are chunks whole, does every ingestion end |
| `ingestion_stuck_run` (violation) | 2 ingestions | | is a failure recorded |
| `research_task` | 2 executions, agent, workflow and refused payload, a cancellation, a submission, up to 1 fault and 1 death, both databases | 4,871,042 | timeline, cancellation, outcomes |

The type invariants of `ProviderGateway`, `Delivery` and `Ingestion` are proved and
not repeated in a run.

**Bounds.** One task suffices where the properties are about one task: tasks meet
only in the cap, which the calm instance of `exec_races` gives two tasks. Two
workers can already be claimer and sweeper, or fenced and fencing; with
`MaxAttempts = 2` a task is claimed, swept, claimed again and given up. `MaxGeneration = 4` never
disables a claim, as the theorem `GenerationsSuffice` says of every value from
`MaxAttempts + Cardinality(Workers) - 1 + MaxRetries` on. `MaxCrashes` lets one
worker be lost, in the storm of `exec_races` only, as its calm is about races of the
living. One retry request lets a task return from every end state; in `exec_races`
one client has it for the first task, and its cancellations and the retry interleave
with two workers, which is where a stored result meets a task that is queued,
executed or cancelled again. Two clients let a cancellation and a retry, or two
cancellations, decide on the same state and write after each other. In the gateway
two callers meet on one provider or on both; with threshold 2 a record passes
through "one failure" on its way to open. In admission three callers let two
duplicates meet a stranger at a capacity of 1.

In the graph a bound of 0 goes to the reviewer at once; a bound of 3 passes
through both places that count and, with a step limit of two rounds, comes to the
end of the compiled graph's steps, which a resumed invocation does not have (in the
code the limit of 25 steps has room for two rounds of ten nodes, and bounds go up to
6); two resumes bring a second action after the first.
The one accident of `MaxAccidents` is a node that raises, a death, a refused
checkpoint, a compaction or an overlapping invocation; an instance with one
invocation, both bounds and two accidents (6.8 million states) was checked as
well. Two items are the least that can fail in part, and four requests are an
approval, a dispatch and two repetitions. Three ingestions let two of them contend
for what a third has left. In `research_task` the five families of instances in
`MCResearchTask` keep the product of disturbances small: overlapping executions of
the agent meet a cancellation without accidents, or the submitting request and one
accident; a single execution meets everything at once; executions of the workflow,
which share little but the run, meet one accident when they overlap. Executions are
symmetric, and the run has no liveness property.

The bounds that stand in guards and not in the code are `MaxRetries`,
`MaxCrashes`, `MaxGeneration`, `MaxResumes`, `MaxAccidents`, `MaxRequests` and
`MaxFaults`.

**Deadlock** is checked for the execution plane and the gateway. The other modules
stop when all work is done, so their runs switch it off; where they have liveness
properties, those say that they stop in the right place.

**Fairness.** Workers: a worker process loops for ever and its handler ends, so
some step of an enabled `Work(w)` is taken; crashes, heartbeats and requests are
never forced. Clock: a lease nobody renews passes its expiry. Gateway: once begun,
a call proceeds, as store calls return and transports have timeouts; `GiveUp` is
part of `Proceed` because the wait for a lease has a deadline. No fault of Redis
is needed to get on (`LoseAcquire` is not part of `Proceed`), and leases need not
expire for `EveryCallAnswers`. `BusySpec`, used by `gateway_wedged` only, adds
that clients keep calling and that time passes. Delivery and ingestion: a request
that has begun goes on, statement by statement. Admission, the graph and the
research task are checked for safety only.

## 4. What the checks show

*Execution plane.* A generation has one executor, a running task always has an
unreleased lease that leads a sweep to it, and a task that reads succeeded carries
the result of its latest generation, which nobody executes any more, and has a
succeeded run, although clients cancel and retry tasks without looking at the
generation. A stored result as such does not keep its task at rest: a retry requeues
a failed or cancelled task (and, as it writes what it decided on an earlier read,
one that succeeded meanwhile) and leaves the old result in the row until the next
generation overwrites it. Grants and publications implement a fencing token, in
which a publication closes the task to further grants until somebody asks for one.
`max_attempts` is not exact: a sweep decides on an unlocked read, so one sweep after
the other may requeue a task, each from the next execution; `ClaimsBounded` says
what is left of the bound, one more claim for every retry and for every further
worker. `ActiveWithinCap` and `SucceededRunStays` hold in the calm only: see section
6.

*Task queue.* Attempts are bounded by `max_attempts` and the accepted retries even
when two workers execute one task. A task is executed to success once, once more for
every accepted retry, and once more whenever the database refuses to record the
success of its run: then the `except` clause takes the success of the task back and
requeues it, and work that was done is done again. `WorkNotRepeated` counts the
successes themselves (`done`), as the attempt row of a repeated success is rewritten
to `retry_scheduled`. A task that gave up has an ended run; one that
succeeded has too, once its worker has made its second commit. Every path closes
its attempt row. Run statuses follow `RunLifecycle` under every interleaving of
workers and clients, and without crashes everything comes to rest.

*Gateway.* No path through `invoke` keeps a lease. If a call does not outlast its
lease, calls in flight never exceed the budget of their store, with crashes and
store faults. A record that is written from a stale copy is still one the breaker
can act on, and no circuit opens before its provider has failed often enough. A
caller alone on PostgreSQL sees exactly `CLOSED -> OPEN -> HALF_OPEN`. The argument
for the liveness is the bounded wait.

*Admission.* Through the gateway, the second lookup under the lock makes duplicates
replay, never run into the unique constraint, and the count under the lock makes
the capacity hard. Submissions implement `Submissions`, where each takes one step.

*Research graph.* The counter of rounds is advanced by the gate and by the planner,
carried over by checkpoints, and compared with a bound that every resume may change;
still an invocation collects evidence at most once more than its bound. Invocations
that overlap, and checkpoints that are lost to each other or to a compaction, do not
lead to a report of a draft that nobody cleared; they can lead to a second report,
and so can a death between the report and the end of the run. Search tasks are
closed when an invocation succeeds, fails at a node, pauses, is refused or resumed,
but not when the compiled graph exceeds its step limit: that exception skips all
that `run` does at its end (section 6). `TasksAreClosed` says this of every state in
which nobody is at work on the run, not only of the step that closes the tasks; it
excuses torn checkpoints, and a run that was abandoned, by a death or by the step
limit, until some invocation closes it. While nothing is torn, the chain of
checkpoints follows `ResearchFlow` through failures, crashes and resumes.

*Delivery.* Nothing is sent before the review, and "dispatched" is never said of an
item that was not sent, whatever overlaps or dies. While requests keep apart, a
job tells the outcome of its items, an item is sent again only by a repeated
dispatch, and the job follows `DeliveryFlow`; and without a death no job stays
dispatching.

*Ingestion.* Although nobody locks the document, its chunks are always all of one
ingestion and none of another: the unique constraint and the rows that a DELETE
waits for see to it. Transactions wait for each other in one direction only, so
none waits for ever.

*Research task.* The lock on the run makes the numbers of a timeline 1, 2, 3, ... in
the order of commits, so a client that polls with the last number it saw misses
nothing; on SQLite, where the lock is not taken, a collision drops an event but
leaves no gap. A cancellation that is in the timeline lets every agent at work
finish at most the section it is in, plus one for each check that the database
fails. What task and run read is what was done: a succeeded run has a report
(the task of a workflow has moved to the workflow's run), a result of the workflow
stands on a complete record of steps, a permanent failure on a failed record or on a
payload that was refused before any record was made, and the workflow's own run is
not left running behind an execution that is over, unless the database failed or a
worker died. The submitted run is another matter: the end of an execution closes it,
unless the task has moved to the workflow's run, and then it stays running with no
failure at all (section 6).

## 5. What is proved

The proofs hold for all constants allowed by the named assumptions
(`CoordinatorAssumption`, `QueueAssumption` and so on), which say of sizes only
that they are finite or positive, and for all interleavings, crashes and faults of
the model without the instances of section 3. None of the properties is inductive
alone; each module has an invariant `IInv` that is.

`ExecutionCoordinatorProofs`. `IInv` adds that leases in use were issued by a claim
(`Issued`: their generation is not above the task's, so the lease of the next claim
is new), that a sweep that is about to write has chosen a branch (`Planned`),
that whoever is about to release the current lease of a task has left the task not
running (`Settled`, which is why `RunningIsLeased` survives the release), and that
the generation of a running task has no result yet (`Unpublished`, which is what a
client that requeues a finished task cannot disturb, as the next claim takes a new
generation). What requests of clients write is collected in one lemma
(`WhatClientsWrite`). From it
follow `TypeCorrect`, `RunningTasksAreRecoverable`, `GenerationsAreExclusive`,
`StaleResultsAreFenced`, `SuccessReachesTheRun` and the refinement
`ImplementsFencingToken`. For calm behaviours, `SuccessIsFinal` adds that a worker
that executes the latest generation has not published, and `CapacityIsRespected`
that open leases are finite.

Further results rest on `IInv`. `ClaimsStayBounded` counts: the claims of a task,
its place in the queue and the sweeps that have decided to requeue it (`Requeues`)
together stay within `ClaimsBounded`, which grows with each retry, or every worker
is such a sweep (`ClaimsLeft`), because a sweep decides only while an attempt is
left and a worker sweeps one lease at a time. `GenerationsSuffice` follows, as each
claim is one generation (`AttemptsAreClaims`). `EndsAreShared` says that a task that
has ended has an ended run, unless a client cancelled the task alone, and gives
`EndedRunsStayEnded` and `RestIsSettled`: what is neither in the queue nor behind an
unreleased lease has ended. `EveryPassIsShort` counts the transactions of
`process_next`, three for each lease of the snapshot and four.

`TaskQueueProofs`. `Carrying` says what each position of a worker knows of its task
and attempt; `RunHasEnded` that a worker past its first commit has an ended run
behind it; `OneExecution` that a success leaves nothing that could succeed again,
apart from what retries allow; `DoneIsRecorded` that every success has a row that
keeps it, or was refused by the database; `AttemptsLeft` counts, for each task, the
attempts made, those a worker is about to requeue and the queue entry itself against
`MaxAttempts` and the retries; `LossesCounted` that only a crash leaves an attempt
without its worker. They give `AttemptsStayBounded`, `WorkIsNotRepeated`,
`AttemptsGetClosed`, `TasksEndTheirRuns` and the refinement
`RunsFollowTheirLifecycle`. `NoTaskIsForgotten` says that without crashes somebody
will still write the outcome of a running task (`WillWrite`), which needs what the
ORM object of each worker knows: an UPDATE that the session leaves out must not be
the last one. `EveryAttemptIsShort` bounds an attempt by four transactions.

`ProviderGatewayProofs`. `IInv` adds that unexpired leases, those of callers and
the lost ones, stay within the budget (`LeasesWithinBudget`), that a caller in a
call holds its lease unless calls may be long (`CallersHoldLeases`), and that
copies are as well-formed as stored records (`Records`). The first needs counting
of finite sets: `HoldersShrink`, `OrphanFits`, `GrantFits` and `LossKeepsCount` are the
only ways leases change. `BudgetHolds` follows because calls in flight are a
subset of the holders; it assumes `~LongCalls`. `RecordsStayWellFormed` rests on
two facts about `AfterSuccess` and `AfterFailure` as functions of any well-formed
record, so it does not matter which record was read. All of it holds for every
assignment of stores to processes.

`OpeningsHaveReasons` accounts for the failures behind each record
(`FailuresAccounted`): what a record counts, be it stored or a copy, and the failures
of callers that have still to read it add up to no more than the provider has given.
Callers that have read since are not in the sum, because writing an older copy takes
their failures away. `ImplementsCircuitMachine` is about a call that is alone on
PostgreSQL: what it has in its copy is a step of `CircuitMachine` from what is stored
(`LoneCopiesFollow`), so that writing it is that step, and a fault or a death is no
step. `EveryCallIsShort`: seven steps for each provider of the plan.

`RunAdmissionProofs`. At most one request is inside the lock (`OneInside`); for it
the key is still new (`KeyIsNew`) and the count it made is an upper bound of the
queue (`HasRoom`), as runs only leave meanwhile. `CapacityIsRespected`,
`DuplicatesAreAnswered` and the refinement `SubmissionsTakeOneStep`, in which the
creation, or the lookup that answers, is the step. The refinement then earns its
keep: `SameKeySameRun`, that all who submit a key get one run and one of them at most
is told it is new, is an invariant of `Submissions` (`KeyInv`), shown from its steps
without a look at locks or flushes. `EverySubmissionIsShort` adds that whoever holds
the lock has three statements before it and waits for nobody.

`ResearchGraphProofs`. An invocation is right (`InvocationsAreRight`) when its
rounds are paid for by its counter and its state may be where it is; a checkpoint
is sound when it may be resumed from (`CheckpointsAreSound`); nothing torn means
that at most one invocation is at work and that the checkpoint is its last or next
to last state (`Calm`); without any mishap the run knows its report
(`ReportKnown`). Lemmas about the nodes as functions of any right state
(`NodeReturns`, `NodeFails`, `NodeFollows`) carry `RoundsStayBounded`,
`TasksGetClosed`, `ReportsGetEarned` and the refinement `FlowIsFollowed`.
`EveryInvocationIsShort` turns the loop counter into a bound on steps: going round
again costs a round, because the gate counts it (`NodesGetFewer`), whatever the
coverage is, wherever a reviewer sends the run and whichever node is retried.

`DeliveryProofs`. `Recorded` and `Reviewed` say what a request at each position has
sent and seen; `Calm`, which holds until requests overlap, relates the only request
to job and items. `JobsTellTheirItems`, and the safety part of
`FollowsDeliveryFlow`. `NoJobIsForgotten`: while nobody has died, a dispatching job
has a request that will settle it, which is subtle when dispatches overlap, as the
session writes only a status that differs from what it has loaded.
`EveryRequestIsShort`: two steps for each item and six.

`IngestionProofs`. What a request has selected are the chunks of one ingestion
(`SelectionsAreWhole`), two requests never have rows to commit at once
(`CommitsAlone`), and the one that has replaces all that is there
(`CommitReplacesAll`). They give `ChunksStayWhole`. `NoDeadlock`: whoever is waited for
does not wait, because who holds rows or index entries has passed the statements that
wait; `EveryIngestionIsShort`: eight steps.

`ResearchTaskProofs`. `Numbered` says that numbers and rows agree and that where
rows are locked only the holder of the lock has a number; `Cancelling` that the flag
is set before the request is in the timeline, and that an agent which stored events
in a section behind the request has failed every check it has passed since; `Told`
relates, for each position of a worker, the rows of its workflow to the result it
carries; `RunGetsClosed` says that the submitted run is closed once an execution has
ended, or that the task has moved to a finished workflow. `TimelineStaysWhole`,
`CancelGetsHeeded`, `OutcomesStayTrue`. `EveryExecutionIsShort`: forty-five steps at
most, of which the handler has thirteen operations of the agent or seventeen stages
of the workflow, each in two steps; a collision in the timeline or a failure of the
database does not repeat any. `LockGetsReleased` says where the lock on the run is
held: only between the number of an event and its commit, so that no phase of work
keeps cancellations and outcomes waiting. `EventsComeInOrder` is what a polling
client relies on.

Only model-checked: liveness, since fairness and ENABLED are out of the prover's
reach: `EverythingSettles`, `EverythingRests`, `EveryCallAnswers`,
`EveryIngestionEnds` and the second half of `FollowsDeliveryFlow`. What they rest on
is proved, for every size: that steps of a worker, call, request or ingestion are
bounded and nobody adds to them (the `Every...IsShort` theorems), that somebody works
on what is not at rest (`RestIsSettled`, `NoTaskIsForgotten`, `NoJobIsForgotten`), and
that nobody waits in a circle (`NoDeadlock`, `LockGetsReleased`, and the lock of
`EverySubmissionIsShort`).
What is left to TLC is that a step which may be taken is taken. Every invariant and
every action property of a passing run is a theorem.

## 6. Where the code and its documents disagree

Four disagreements are runs whose property is violated: a sweep recovers the next
execution of a task (`exec_double_recovery`), the run of a retried task stays
failed (`queue_retried_run`), a success that arrives at an open circuit takes its
probe time away (`gateway_wedged`), and an ingestion that runs into a unique
constraint leaves its run running (`ingestion_stuck_run`). The traces are the
counterexamples TLC prints.

Others shape the assumptions and exceptions of passing properties, and should be
known to who reads them.

*Execution plane and queue.*

- A heartbeat does not ask whether its lease has expired
  (`execution/execution_lease.py:193`), so a late one takes the cap on active
  runs above its limit: `ActiveWithinCap` needs `calm`.
- An exception of the lease release reaches the `except` clause of
  `execution/worker.py:36` after the success was committed and turns the run into
  a failed one: `SucceededRunStays` needs `calm`.
- `cancel_task` and `retry_task` (`tasks/repository.py:199-230`) write the row of a
  task whatever happened to it since it was read, and look at neither generation nor
  lease: a cancelled task is executed to its end and may then read succeeded, a
  retried one starts a second execution beside the first (the fence decides which of
  them publishes), and a retry leaves `attempt_count`, `result_json` and the run as
  they are. `SucceededRunStays` therefore speaks of later executions that a client
  asked for, and `SuccessIsVisible` of succeeded tasks only: a task that a client
  cancelled may keep a run in any status.
- A worker that revives after a sweep gave its task up still publishes, because
  giving up does not bump the generation (`execution/coordinator.py:350`).
- A run that is cancelled while queued can be overwritten by the worker that
  claimed its task during the cancellation (`execution/coordinator.py:275`), and
  on the queue's side a worker can claim the task of a run already cancelled
  (`tasks/service.py:427`).
- A task of a crashed queue worker stays running, as nothing looks for it:
  `EverythingRests` excludes crashes.
- A cancellation that the agent has observed comes back from the handler as an
  ordinary, retryable error (`tasks/handlers.py:118`), so the task is requeued
  unless the cancelling request has meanwhile cancelled it.
- The legacy workflow repoints the task to its own run before the worker ends the
  submitted one (`tasks/repository.py:143`), so the update that is to end it finds
  the workflow's finished run, and the submitted one stays running although nothing
  has failed. `tests/test_gateway_run_lifecycle.py:3` says that the life cycle of a
  run is owned by the worker. Hence the exceptions for `moved` in `TaskEndsRun`,
  `EverythingRests` and `OutcomesTellWork`, which say that there are no others.
- When the second commit of a success fails, the worker treats it as a failure of
  the task (`tasks/service.py:505-552`), which is executed again: hence `refused`.

*Admission.*

- A legacy duplicate that loses its insert is told the id of a run that the same
  transaction rolled back (`tasks/service.py:260`).
- `POST /tasks/research/analyze` adds runs without asking for the capacity, so
  `QueueWithinCap` and the refusal in `Submissions` speak of services whose only
  entry is the gateway.

*Gateway.*

- A call may outlast its lease (90 s against a timeout of 180 s for one provider):
  `CallsWithinBudget` needs `LongCalls = FALSE`.
- The circuit is asked before the wait for a lease and not after it, so a call can
  be made while the circuit is open; and a record written back whole can close an
  open circuit without a probe. `RecordsWellFormed` and `OpenNeedsFailures` are
  what is left of the documented machine for overlapping calls.
- After a provider's success, a PostgreSQL fault in `record_success` or in the
  release replaces the result by an exception.
- Processes that fell back to PostgreSQL because Redis did not answer at their start
  (`capability_gateway/wiring.py:130`) have a budget and a circuit of their own,
  beside those of the others.

*Research graph.*

- A reviewer's `override_p0` sets the decision to PASS, but `_next_node_after`
  (`research_harness/runner.py:820`) has no successor for it, so the run ends
  without a report;
  `docs/superpowers/plans/2026-06-17-phase4-p0-gate-consumption.md:446` says that
  the override lets the run go on.
- `runner.py:92` closes or suspends search tasks "on EVERY termination path", and
  `evaluation_recorder.py:171` wants none to stay planned for ever. But
  `graph.invoke` (`runner.py:91`) raises when the compiled graph exceeds LangGraph's
  default limit of 25 steps, as a third round of ten nodes does, which is possible
  from a `max_loop_count` of 2 on (`schemas.py:15` allows 6), and the exception leaves
  `run` before `_finalize_evaluation`: planned tasks stay in the latest checkpoint,
  the run stays running. `Escape` is this exception, and `abandoned` the exception of
  `TasksAreClosed` for it.
- A resume does not look at the status of the run, so a finished or running run can
  be resumed; compaction can delete the newest checkpoint. These are the `Torn`
  kinds of `mishaps`.
- `collect_sources_provider_backed` records its planned tasks in a copy of the state
  that is dropped; `Evidence` adds them where they are kept.

*Delivery and ingestion.*

- A second approver can set a job that is already dispatched back to READY, and two
  dispatches can both pass the validation: hence `overlap`. A death after the
  commit of DISPATCHING leaves a job that no request may touch again.
- A repeated dispatch sends every item again, the delivered ones included.
- The migration `a7b8c9d0e1f2` makes `chunk_level` NOT NULL, the model of the table
  does not have the column: on a migrated database no chunk can be inserted. A
  failed repetition of an ingestion marks an INDEXED document as FAILED, although
  its chunks are still there.

*Research task.*

- The generation that is to keep a stale execution from saving its report is read
  from the run, which has no such column, and no caller passes an expected one
  (`agents/deep_research.py:1000`): each overlapping or retried execution saves a
  report.
- A cancellation of a queued run that races the claim cancels a running run without
  setting `cancel_requested_at`, so its agent works on (`tasks/service.py:427`).
- RUN_COMPLETED is recorded even when the conditional update of the run matched
  nothing; for a legacy task it goes to the workflow's run, and the submitted run
  stays RUNNING. RUN_CREATED may come after WORKER_CLAIMED, as it is recorded after
  the commit that makes the task claimable.
- Failing model calls are swallowed, so a run can succeed with a report that says it
  could not be assembled; the sources of the disclosure search are appended after
  the collected ones were copied (`agents/deep_research.py:443`) and do not reach
  the report; what the counter-evidence phase finds is not used in it.
- The workflow's own run stays RUNNING when its worker dies or its session breaks,
  and the memo of a failed workflow points to run steps that may not exist when the
  provider could not be resolved.

## 7. Not modelled

- The implementations of the graph's nodes (`research_harness/real_nodes.py`,
  `caliber_expander.py` and others, the largest files of the repository), source
  collection (`sources/`), content, memory, retrieval, reports, evaluation and
  training: sequential transformations of text and scores of one request, driven by
  answers of language models. Their control is that of the pipelines that call them;
  a model of what they compute would repeat it.
- The capability registry and router are pure functions from a request to a plan,
  which `ProviderGateway` takes as a constant; the front ends of the gateway choose
  a plan and call the invoker; telemetry and shadow routing append records.
- Providers are external; connectors of delivery are stand-ins.
- In-memory coordinators, budgets, circuit stores and the in-process admission guard
  are doubles for tests in one process.
- In `ResearchGraph`, the dossier, the deletion of runtime documents, and the file
  that serves as checkpoint without a database; in `Delivery`, exported files and
  listing; in `Ingestion`, citations, which are written and deleted with their
  chunks, and the raw file.
- Equality of `expires_at` and `now()` is not an instant of its own.

## 8. What could follow

Concurrent upserts of memories by key, and the lanes of source collection with
their retries, are the remaining places where several actors or attempts meet in
one row. A composition of `TaskQueue` with `ResearchTask` would tie the retry
budget to the reports of overlapping executions.
