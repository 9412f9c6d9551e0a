# A TLA+ development of the Stepflow orchestrator

Stepflow runs workflows ("flows"): a flow is a list of steps whose inputs are
expressions over the results of earlier steps, and a run executes a flow for one
or more items. The orchestrator (`src/stepflow-rs`) discovers which steps are
needed, dispatches them to workers (`src/sdks`), journals what happens, and
recovers its runs after a crash. This directory holds TLA+ models of it, the TLC
configurations that check them, and TLAPS proofs. Paths below are relative to
`src/stepflow-rs/crates/` unless they start with `sdks/`.

## Inventory

| Component | State | Operations | Hard part | Correct when |
|---|---|---|---|---|
| Value expressions (`stepflow-flow/.../value_expr.rs`) | none | `needed_steps`, `resolve` | two walks over one expression must agree in every order of completions | an expression that needs nothing more resolves to its final value; branches not taken are not demanded |
| Item state (`stepflow-execution/.../item_state.rs`) | needed, completed, results, `waiting_on`, `waiters` | `add_or_update_needed`, `mark_completed`, checkpoint and restore | dependencies change as results arrive | the two directions of waiting agree; nothing waits for what will not run |
| Items state (`items_state.rs`) | items, `incomplete_count` | `initialize_all`, `complete_task_and_get_ready` | incremental counting, ready tasks reported once | every schedulable step reaches the scheduler exactly once |
| Run state, replay, checkpoints (`run_state.rs`, `checkpoint.rs`, `recovery/restore.rs`) | the items, rebuilt from the journal | `apply_event`, `to_checkpoint`, `from_checkpoint`, `replay_events` | any prefix of the journal and any checkpoint | a recovered run is one that was never interrupted |
| Flow executor (`flow_executor.rs`, `scheduler/`, `step_runner.rs`) | runs, in-flight futures, retry counts, subflow map, task ids | submit, dispatch, complete, retry, end of a run | async interleaving, several durable writes per handler | journal before effect; nothing lost, nothing twice; the run ends |
| Subflows (`stepflow-plugin/.../subflow.rs`, `context.rs`) | a request channel | submit, wait | a parent holds its place while its subflow needs one | parents and subflows do not starve each other |
| Run ownership (`lease_manager.rs`, `recovery.rs`, `orphan_recovery.rs`, `-etcd`) | leases, heartbeats, `orchestrator_id`, `ActiveExecutions`, `ActiveRecoveries` | submit, acquire, release, claim, recover, sweep | a lease expires under a live executor; claims race submissions and releases | one live executor per protected run; every run is claimed again; gates are cleared |
| Task registry and pending tasks (`task_registry.rs`, `stepflow-grpc/.../pending_tasks.rs`) | channel, entry, heartbeat mark, timers per task id | register, track, heartbeat, complete, time out | the same id for every attempt; four concurrent maps | every attempt gets one answer |
| Pull queue and worker streams (`pull_task_queue.rs`, `tasks_service.rs`) | queue, wait set | push, pop, wait | lost wakeups, lost workers | a pushed task is pulled or times out |
| Workers (`sdks/python/stepflow-py/.../worker`, `sdks/rust/crates/stepflow-worker`) | slots, sessions, handlers, heartbeat loops | pull, claim, execute, complete, reconnect, shut down | slots on every error path, signals while waiting | no slot lost, the limit holds, a signal stops the worker |
| Metadata store (`stepflow-state`, `-state-sql`) | rows of runs and items, completion channel | `create_run`, `record_item_result`, `update_run_status`, `cancel_run`, `wait_for_completion` | several statements per call; it completes runs by itself | whoever is told that a run is over finds its results |
| Execution journal (`stepflow-state`, `-state-sql`, `stepflow-nats`) | entries with sequence numbers | `write`, `stream_from`, `follow` | two writers, pages, lost acknowledgements | acknowledged entries stay; readers miss none |
| Type checking (`stepflow-typecheck`, `stepflow-cli/src/infer.rs`) | types of steps, constraints on the input | subtyping, synthesis, checks, inference | three-valued answers, unions, optional parts | a value has the type found for it |
| NATS transport, blob stores, routing, built-ins, MCP, CLI, configuration | – | – | – | not modelled, see the end |

How they interact: the executor owns the `RunState`s, calls `ItemsState` to learn
of new ready tasks, hands those to the scheduler, and keeps a future per
dispatched task. A future registers its task id in `TaskRegistry` and calls the
plugin; the queue plugin tracks the id in `PendingTasks` and pushes it on the pull
queue; a worker pulls it, heartbeats, and completes it, which answers the future
through the registry. A step may submit a subflow over the request channel; the
executor adds its run to the tree and the step waits for the metadata store to
show it terminal. Every change that recovery needs is an event in the journal,
written by the executor's handlers between their steps. An orchestrator executes
a tree under a lease; the others watch for orchestrators that no longer
heartbeat, take their runs, and recover them from the journal.

The hazards of this code, each with its line and the properties for it, are in
`PROJECT.json`.

## Modules

| Module | Models | Used by |
|---|---|---|
| `ValueExpr` | expressions, `needed_steps`, `resolve`; a reference definition of laziness | `LazyEvaluation`, `MCItemsState` |
| `LazyEvaluation` | the ask, run, ask again loop around one expression | run `lazy` |
| `ItemState` | one item: records and operators, no variables | `ItemsState`, `UninterruptedRun` |
| `ItemsState` | the items of a run, the counter, the scheduler's tasks | runs `items`, `lost_step` |
| `RunRecovery` | `ItemsState` with journal, checkpoint, crash and replay | run `recovery` |
| `UninterruptedRun` | abstract: the results of a run are recorded one by one | `RunRecovery` implements it |
| `FlowExecutor` | an execution tree with subflows, retries, metadata and crashes | runs `executor`, `executor_stuck` |
| `ExecutionTree` | abstract: steps complete once, subflows begin and end, nothing crashes | `FlowExecutor` implements it |
| `PendingTasks` | one task id between executor, timeouts, queue and workers | run `pending` |
| `TaskWorker` | a worker process of one of four SDKs | run `worker` |
| `RunOwnership` | orchestrators, leases, submission, claiming, recovery, sweeps | run `ownership` |
| `ExecutionJournal` | three journals, writers, replay, watching clients | run `journal` |
| `RunMetadata` | two metadata stores, their writers, waiters | run `metadata` |
| `Subtyping` | schemas, what they accept, subtyping | `TypeCheck` |
| `TypeCheck` | checking, inference, annotation and execution of a flow | run `typecheck` |
| `LazyEvaluationProofs`, `RunRecoveryProofs` (with `ItemsState`), `FlowExecutorProofs`, `PendingTasksProofs`, `TaskWorkerProofs`, `ExecutionJournalProofs`, `RunOwnershipProofs`, `RunMetadataProofs` | the proofs | – |

Each `MC...` module gives the constants of its specification their values for TLC.
Definitions marked "Faulty variant" are not part of a specification: each stands
for a plausible bug in the definition below it and is what the properties have
been tested against (the "mutants" of `PROJECT.json`). Type invariants are proved,
so no run repeats them.

### ValueExpr and LazyEvaluation

A JSON value is reduced to what the two functions tell apart: null, false, another
scalar, an object with one field. A result is a value or the kind of failure.
`Collect` is the inner function of `needed_steps`, including its test of whether
the set has grown. An expression carries its depth, and the list of a `$coalesce`
or an array, which the code walks in a loop, is a cell of its first element and
the expression of the rest; so every walk is a recursive function over the
constant set `Exprs` of expressions (closed under parts, of any size) that can be
proved about. `needed_steps` does not look into the default of a variable,
`resolve` does: `HiddenSteps` are the steps that defaults mention, and the
properties of `LazyEvaluation` say what holds once these have completed (see
"Findings and divergences" for what does not otherwise). `ItemState` takes the analysis as a
constant operator with assumptions; `MCItemsState` instantiates it with
`NeededSteps`, so TLC checks them of the flows of the model, and
`LazyEvaluationProofs` proves them of every expression (stability of those without
hidden steps).

### ItemState and ItemsState

`ItemState` is a record with the four maps of the struct; `completed` is the
domain of the results. `Visited` is the worklist of `add_or_update_needed`, given
as a least fixed point. Actions: `InitializeAll` (`initialize_all` with every call
it makes) and `CompleteTask` (`complete_task_and_get_ready` and the executor's
`notify_new_tasks`). `notified` is a history variable.

### RunRecovery and UninterruptedRun

The executor changes memory, then appends to the journal; `unwritten` holds what
a handler has still to append, so a crash can fall before any of the appends.
A run is `up`, `replaying` or `down`; replay, from the start or from a
checkpoint, applies one event per action, and a crash may fall between any two.
`TakeCheckpoint` may happen whenever the handler of a task is over: the interval
of the configuration is abstracted to a choice. Whether a subflow's checkpoint
lists it as recovered depends on the deduplication map (see `FlowExecutor`) and
is a choice in the recovery. `UninterruptedRun` knows no scheduler, journal or
crash; under the refinement mapping a step has the result that the journal
records for it.

### FlowExecutor and ExecutionTree

A handler decides in one action and leaves in `todo` the durable writes it makes
in order; each write is an action of its own, so components run, and a crash may
fall, between any two. `mem` is the struct `FlowExecutor`, lost in a crash;
`recoverable` is what replay would rebuild at this moment (checkpoint plus
events after it), so it is updated by each journal write and replaced by each
checkpoint; `store` is the metadata. `past` is history only.

`ExecutionTree` is what the executor promises: a step completes once, after what
it depends on; it succeeds on a failed one only where its input tolerates that
and, when it runs a subflow, only after one that was begun for it has a result or
by a default; a run gets a result when its steps are complete, and keeps it.
Under the refinement mapping (`Tree` in `FlowExecutor`) a completion is a `TaskCompleted` in the journal, a
failure is what replay would count as failed, a subflow begins with its
`SubRunCreated`, and the result of a run is that of a row with a terminal status.
Dispatch, attempts, retries, checkpoints, crashes and all that memory holds do
not show, and a recovery shows only where it records results that a crash cut
off. The abstract specification has no fairness: that a tree ends is
`EndsWithoutCrash`.

What a component may answer is `StepResult`, and what comes of it follows the
code. A failed condition counts as false, so a step that mentions others in a
condition only (`Tolerant`) may run although one of them failed; otherwise the
failure is handed on as the step's own with its code, so that a transport error
upstream is retried downstream too (`HandedOn`). With `onError: useDefault`
(`UsesDefault`) a failure of the component becomes a success, one of the input or
the routing does not. A subflow step submits and waits; the components that do so
(`eval.rs`, `map.rs`) succeed with whatever the subflow came to. `StepResult` is
the environment's choice, but a subflow step succeeds only in these ways.
`OutputStep` are the steps whose failure makes the output of the run a failure;
an output whose conditionals decide that is left out.

Simplifications: a run has one item and fixed dependencies (the other two modules
look inside items); component retries (`onError: retry`) take the same path as
transport retries and are not counted separately; subflows without items or
steps are left out (one with items and no steps records its results, which end
it in the store, before it journals `RunCompleted`, `flow_executor.rs:677-715`:
it does not have the order that `SubflowsEndInOrder` states, nor the one that its
own comment does); recovery itself is atomic (its metadata writes may be
repeated, and `RunMetadata` takes them apart); the deletion of old checkpoints
concerns finished runs only.

### PendingTasks

One task id, whose retries use it again. Registry, entries, heartbeat marks and
queue are changed one access at a time, so a worker of an earlier attempt, a
timer that is never cancelled and a scan that has collected its victims can all
meet a later attempt. Time is abstracted: a timer fires at any moment after it
was set, timers of equal timeout in the order they were set. An execution is
`young` until one scan has seen it, which stands for the grace period.
Component health counters are left out: they only feed metrics.

### TaskWorker

One worker of any of four implementations (Python and Rust, gRPC and NATS),
chosen by `Init`: its pull loop with semaphore or in-flight set, reconnects and
shutdown, and the handlers that claim, execute beside a heartbeat loop, and
complete. The orchestrator is the environment: it assigns any task at any time,
also one that is still running here, and gives any answer to a call. Every way
out of a handler (`Exit`) does what that SDK does with its slot. Where the SDKs
differ the actions say so: a semaphore per session (Rust NATS), permits that a
failed session does not give back (Python NATS), a shutdown future that is used
up (Rust gRPC). Component code, payloads and backoff times are left out.

### RunOwnership

Orchestrators with etcd leases, root runs, and everything that decides who
executes a run. Each await of the lease service, the metadata store or the
journal ends an action. `submit_run` is five actions; an executor runs, appends
its end, writes its status, reads and deletes its lease in separate actions;
claiming and recovery are one action per call of the loop, with the marks of
`ActiveRecoveries`. The lease of a process that is gone expires at any time. That
the lease of a live process expires, a crash, an exit and a failed submission,
execution or recovery are the `Fault`s; `FaultPlans` says which of them may come,
and in which order (the theorems hold for all plans). Nothing tells the executor
of a lost lease, so `unprotected` notes the runs whose key then became free, or
which a periodic recovery met between `create_run` and their lease: for those two executors at
once are possible, and the properties say what holds of the others. What an
execution does inside is `FlowExecutor`'s, and that two executors may write one
journal is where `ExecutionJournal` starts.

### ExecutionJournal

One journal per root, for the in-memory, SQL and NATS implementations of the
trait, chosen by `Init`. SQL writes are two statements (the next number, the
insert, which a unique key may refuse); a NATS publish may be stored and its
acknowledgement lost; entries of other roots share the stream's numbers. Readers
are replays (`stream_from`) and clients that follow one run through the runs
service, in batches, from a number, and again after a lost connection. An event
is reduced to the runs it tells of and the run it completes.

### RunMetadata

The rows of runs and items in the two stores, `record_item_result` statement by
statement in SQL and under the lock in memory, the executor's and the recovery's
writes in their order, cancellation, and `wait_for_completion` over a broadcast
channel of bounded capacity whose receivers lag. The results that a run comes to
are its `fate`, chosen at the start. The `excused` runs are those of cancelled
trees, those that were not created wholly, and those with a statement that failed
and was only logged.

### Subtyping and TypeCheck

A schema is a record with the keywords it has; a value is a tuple with its type.
`Validates` is the reference definition of JSON Schema, `IsSubtype` the code's
three-valued answer. `TypeCheck` checks a flow step by step, annotates it as
`stepflow infer` does, then executes it with every input the annotated flow
accepts and every result a step's type allows, and compares. The properties are
about what the code can be held to: `Exact` leaves out unions that have forgotten
a side, defaults that stand in for a path and steps that may be null, and
`YesIsTrusted` the shapes of schema for which subtyping says yes without looking
(see "Findings and divergences").

## Runs

| Run | Shows | Instance | States |
|---|---|---|---|
| `items` | five invariants of dependency tracking | 2 items, 7 flows of 3 steps, 3 results | 35,018 |
| `lost_step` | a schedulable step is never reported | the same | – |
| `lazy` | demanded steps suffice; readiness is stable; laziness if no step is mentioned twice | all expressions of a grammar of depth 2 over 3 steps, defaults that mention a step among them, 4 outcomes | 346,144 |
| `recovery` | replay restores results, waiting relation and counter, and forgets no step that can run; refinement of `UninterruptedRun` | 1 item, 7 flows, 1 result, 2 crashes, checkpoints at any time | 78,129 |
| `executor` | refinement of `ExecutionTree`; journal order, attempts, no loss, no duplicate subflow, termination | root with a step that runs a subflow of two steps and one that needs it, a failure tolerated and defaulted in the subflow, 1 retry, 1 crash, 2 run ids | 1,146,259 |
| `executor_stuck` | a crash leaves a parent waiting for ever | the same, no retry | – |
| `pending` | every attempt is answered and watched | 2 workers, 2 attempts | 155,480 |
| `worker` | slots, limit, the signal to stop, progress | 4 SDKs, 2 slots, 3 handlers, 2 tasks, 3 failures, 2 claim tries, 1 repeated completion | 142,974 |
| `ownership` | one live executor, leases, marks, every run ends | 2 orchestrators, 1 run, 1 claim per check, any fault alone or an expiry before a failed execution | 500,515 |
| `journal` | nothing acknowledged is lost, nothing is missed, watches end | 3 journals, 2 writers, 1 reader, a tree of two runs, batches of 1, 3 entries, 1 reconnect | 757,232 |
| `metadata` | who is told that a run is over finds its results | 2 stores, a root with 1 item and a subflow with 2, 1 waiter, capacity 1, 1 cancellation, 2 faults | 389,980 |
| `typecheck` | types describe values, accepted inputs fit, the inferred schema asks for what is used | 3,985 flows: 23 x 23 pairs of schemas, 46 expressions, 100 pairs of uses of the input; 13 values | 961,667 |

Why the bounds suffice. Three steps are the least in which a step waits for two
others, a step unblocks one that makes a third needed, and a branch has an
alternative; two items are the least for which counting items differs from
counting tasks. In `recovery` two crashes let a recovery recover what a recovery
wrote, or interrupt a replay; one item, because what `RunRecoveryProofs` shows of
several does not depend on it. In `executor` the parent alone fills
`max_in_flight` (1), a subflow of two steps has a last one, and its output refers
to one of the two, so that a failure can count for the run and not for its
output. The first step of the subflow fails, the second tolerates that and has a
default, and the root goes on after its subflow, so that each way to succeed over
a failure is taken. Two run ids let a submission be duplicated. One crash is enough there
because each window it can fall into lies within a handler. In `pending` two
attempts are the least for which something of an earlier one can meet a later
one, and two workers for which they differ. In `worker` three handlers for two
slots let the limit be exceeded, and three failures let the Python NATS worker
lose both slots. In `ownership` one fault is a crash, an orderly exit or a failed
operation, and two are the expiry of the lease of a live process and then a failed
execution, after which the run needs somebody to claim it while one process has
lost its lease for good; abandoned leases expire at any time. With one expiry the
exception in `EveryRunEnds`, that every process has lost its lease, does not
occur, so there it says that the run ends. On one node the exception is needed:
after an expiry and a failed execution nobody claims the run until a restart. In `journal`
batches of one make every entry a page boundary, and a subflow's entries lie
between those of its root. In `metadata` a channel of capacity one lags at the
second completion, and two faults let a recovery be interrupted.
`ItemsState`, `LazyEvaluation`, `RunRecovery`, `RunOwnership`,
`ExecutionJournal`, `RunMetadata`, `TaskWorker` and `TypeCheck` are not checked
for deadlock because what they model ends (the run is complete, the bound of
entries or faults is used up, the worker has exited); `FlowExecutor` and
`PendingTasks` are.

Fairness. Weak, and only of what the process itself does:

* `FlowExecutor`: the executor's loop runs, a component answers or times out (see
  `PendingTasks`), and a node that is down comes back. Nothing of crashes or lost
  workers. `EndsWithoutCrash` is about behaviours without a crash, because of
  the finding of `executor_stuck`.
* `PendingTasks`: the step runner, the scanner and calls that have been accepted;
  strong fairness of timers, which compete with scans in one `select!`. Workers
  promise nothing, so the property excepts one that heartbeats for ever.
* `TaskWorker`: a waiting loop that has a slot, tasks that ended, the pause of the
  Python gRPC worker before its next session, shutdown, and each handler
  (components return, calls are answered). Not of tasks, nor of streams that end:
  the Python gRPC worker looks for the signal only when its stream yields, ends or
  fails, so `SignalStopsWorker` excepts one whose stream stays silent for ever.
* `RunOwnership`: executors, the recovery loop and the heartbeat loop of each live
  process, and, jointly, the exit of one that is stopping, the restart of one that
  is down and the expiry of a lease that nobody keeps alive. Not of faults, nor of
  a submission under way: if it hangs after `create_run`, the recovery loop of its
  own process claims the run.
* `ExecutionJournal`: a stream that can go on does. Writers promise nothing.
* `RunMetadata`: the writer of each run, the announcement of a cancellation, each
  waiter.

The other specifications state safety only.

## Findings and divergences

Two disagreements between the code and what the repository says of it are shown
by violation runs; `PROJECT.json` quotes the text each contradicts:

* `lost_step`: dynamic dependencies can be discovered and never scheduled.
* `executor_stuck`: nobody ends a subflow whose end fell into a crash.

Other behaviours that a reader of the code may not expect, which shaped the
models and the exceptions in the properties:

* The output expression is analysed once, before anything has run, and no
  completion asks again. With the output `$coalesce: [A, B]` and A null, B never
  becomes needed, the item counts as complete and its result is the failure
  "Step not completed" (hence the restriction in `UnconditionalRunsSucceed`;
  the flow `FallbackOutput` of `MCItemsState` is of this kind).
* `needed_steps` never names the steps that the default of a variable mentions,
  though its doc says that an empty set means ready: the default then resolves to a
  failure unless something else has run the step (hence the condition on
  `HiddenSteps` in `ResolvesWhenReady` and `ReadyIsStable`).
* When a step is mentioned twice, an undecided condition can pass for a decided
  one and a branch that is not taken is demanded (hence `LazyWhenMentionedOnce`).
* Checkpoints drop the deduplication entries of live subflows, so a crash after a
  checkpoint can duplicate a subflow (hence `~past.checkpointed` in
  `CrashesDuplicateNoSubflow`).
* The metadata store completes a run by itself when its last item is recorded;
  after a crash before `update_run_status` that status stays, also when the run
  failed (hence `faults = 0` in `OverMeansRecorded`).
* A queue timer that fires late erases the heartbeat mark of an executing task,
  which can then be timed out as silent.
* A periodic recovery that runs between `create_run` and the lease of a
  submission claims the run; its lease does not stop the submission's executor
  (`unprotected`). The mark of a run that had ended before its recovery stays. A
  process whose etcd lease has expired keeps the dead id and claims nothing more.
* Worker SDKs: the Python NATS worker loses a permit with each failed session;
  the Rust NATS worker has a new semaphore per session, so executions of the last
  one come on top of the limit; the Rust gRPC worker polls its shutdown future
  again after it has completed, and panics; a component that panics in the Rust
  worker leaves its heartbeat loop running, and in the Rust gRPC worker the task
  stays in `in_flight`; the Python gRPC worker does not wait at shutdown for an
  execution whose registry entry a second one of the same task has replaced, and
  does not stop on a silent stream; `grpc_worker.py` says that tasks beyond the grace period
  are reported as failed, but they are cancelled.
* Type checking: `is_subtype` documents yes as "any value that validates…", but
  yes also comes for a required property that the subtype names and does not
  require, for a subtype without a type, for an object that is not closed and may
  have properties it does not name, and for overlapping options of a `oneOf`; an
  integer is told not to be a number. `union_types` takes two different schemas
  of the same type for one. The default of a path into a declared variable does
  not count in its type. In the inferred input, a use above another one with a
  known type shadows it, and array elements are not looked into.

## Proofs

Each theorem holds for every value of the constants that meets the assumptions of
its modules.

`LazyEvaluationProofs`: an expression that needs nothing resolves to its final
value and keeps needing nothing, and only what lazy evaluation reads is demanded
of one that mentions no step twice, for every finite set of steps, every set of
expressions closed under parts, and all outcomes. TLA+ defines a recursive function
by `CHOOSE`, so that its equation has a solution must be shown first:
`RecursionHasSolution` does, for any right-hand side that rests on smaller
arguments, by taking the least size at which no partial solution exists.
`ExprInduction` is induction over parts in the same way (a set of good expressions
instead of a predicate, and the least depth of a bad one). On these rest, in order:
collecting keeps what was gathered and adds pending steps the expression mentions
(`CollectAddsPending`), so the size test of the code sees what it should
(`GrewIfAdded`); an expression whose steps have all completed is final
(`ResolveIsFinal`), which the defaults need; one that needs nothing is final and
stays so (`ReadyIsFinal`); with no step mentioned twice, what was gathered
elsewhere changes nothing here (`CollectsApart`), which is where the shared set of
`collect` matters, and what is gathered is read (`CollectsOnlyRead`). The invariant
of the loop is then that the context holds outcomes and that the demanded steps
are read by an evaluation that knows all results. `NeedsArePending` and
`NothingNeededIsStable` are what `ItemState` assumes.

`RunRecoveryProofs`, first part: the invariants of `ItemsState`, for every finite
set of items, every number of steps, every set of flows and every expression
language in which `needed_steps` names steps that have not completed and precede
the step (flow validation), an empty answer stays empty, and for flows without
conditionals the answer is fixed less what has completed. They are not inductive
one by one. That a ready task keeps its inputs rests on waiting being exact for
every pending step; that counting by differences is exact rests on a completion
never making a complete item incomplete again, which rests on the last pending
step waiting for nothing and no visited step remaining. `IInv` therefore joins:
types; for each item that the waiting relation is mirrored, that only pending
steps wait and on pending steps, and that a step evaluated with an empty answer
still has one; the exact count; that ready tasks are schedulable; that each task
was notified exactly as often as it is ready or completed; and, for unconditional
flows, that the needed set is closed and contains what the output needs. The
lemmas on the operators of `ItemState` come first (`Visited` is closed and least,
`MarkCompleted` and `AddOrUpdateNeeded` keep the relation). Progress of an
incomplete item follows from the order of the steps: the least pending step waits
for nothing. `LosesNothing`, `OutputResolvable` and `UnconditionalRunsEnd` are stated
for unconditional flows only; the run `lost_step` shows why.

Second part: memory equals journal, a task completes once across crashes,
a scheduled step has its inputs after any recovery, no step that could run is
missing from the scheduler, the needed set survives, and `RunSpec` implements
`UninterruptedRun`. The invariant relates the results in memory to a prefix of the
journal (all of it when the run is up, what has been replayed otherwise), less
what is about to be appended, and the checkpoint to its own prefix; each item is
`Sound` throughout, which the lemmas about `MarkCompleted` keep for live
completions and replayed ones alike. The refinement step is the append of a
`TaskCompleted`: its inputs were recorded before because a step is ready only
then, and it is in the journal only once. `WaitsInv` is what makes recovery lose
nothing: in memory and in the checkpoint each needed step waits for exactly what
its input still needs, an equation that replay keeps although it applies
completions to items that do not need the step yet. `NeededInv` follows the
`StepsNeeded` events: all of an item's name the same steps, one of them precedes
every completion of the item, and it is in the journal, or about to be, whenever
memory or a checkpoint relies on it. Both are about flows without conditionals,
for which the answer of the first analysis is final.

`FlowExecutorProofs`: a dispatched task is known to recovery, attempts are numbered
without gaps, no step is forgotten, runs end in order, crashes duplicate no subflow
before a checkpoint, and `Spec` implements `ExecutionTree` (so a task completes
once), for any steps, dependencies, limits, retries, subflows and crashes. What
makes this hard is that memory runs ahead of the journal by what is still in
`todo`. `ExecutorInv` says that only the first write of a handler is one that
recovery counts, and that memory is the journal plus that event (`MemoryInv`), so
that at each crash point replay gives memory back, and at each checkpoint capture
does. The rest follows from who is responsible for a step: it is queued, about to
be spawned or in flight, one of the three (`ActiveInv`), only while it is not
complete and its run has been created (`RunsInv`, `RequestsInv`: a requested run
has not, so its steps are queued once); its id is in the journal before its
future exists (`IdsInv`). `EndInv` adds that a run which is over, in store, journal
or `todo`, has all its completions in the journal. `SubflowInv` counts the subflows
of a step that exist, are being created or have been requested, plus one while the
step may still submit, minus one while a recovered subflow waits to be taken by
`handle_submit_request`; that sum stays within one plus the retries of the step.
A crash drops requests and permits, and recovery grants one permit together with
the recovered subflow, which the journal knows if there is any. The refinement
needs `TreeInv`, which follows each fact that a step of the tree relies on from
where it is observed to where it is written, many writes and possibly a crash
later: a request is for a step whose dependencies are complete (`WantedInv`,
`CreationInv`), and its subflow is acknowledged to that step and no other
(`NamesInv`); an answer is a success over a failed dependency only if the step
tolerates it, and of a subflow step only if a subflow of its has a result or the
step has a default (`AnswersInv`), and still is when `TaskCompleted` is written
(`CompletionsInv`), since a task in flight depends on nothing that can still
complete; what memory counts as failed is what the journal does, plus the
completion that is about to be written (`FailuresInv`), so the result of a run is
the same whether the executor or a recovery records it, and a status written
after it contradicts nothing (`OutputsInv`, `WritesInv`).

`PendingTasksProofs`: no double registration, and a waiting attempt is watched, for
any number of workers and attempts. The invariant `WatchInv` says at each point
between two accesses who is responsible for the entry: who removed it (the scan,
or exactly one worker) answers, a queued entry has its attempt's timer ahead or
being handled, and timers of earlier attempts never outlive their order.

`TaskWorkerProofs`: slots are accounted for and the limit holds, for any number of
slots, handlers and tasks. The invariant counts free permits, the one the loop
holds and the handlers that hold one of this session's, for each SDK.

`ExecutionJournalProofs`: acknowledged entries stay, readers miss nothing, and a
replay hands over all that was acknowledged before it, for any number of roots,
writers and readers and all three journals. The invariant says that sequence
numbers are unique and lie below the next one, that a writer's chosen number was
free or is refused, and that a cursor never lies beyond what has been written.

`RunOwnershipProofs`: one live executor per protected run, which holds the key, and
exact marks of recoveries, for any number of orchestrators and runs. No single
step guards these: a process that writes a key does not look at it again, and an
executor never looks. `OInv` therefore says for each owner at each await what
nobody else can have: a process has one lease in its life and nothing before it
(`LeaseInv`, `MemoryInv`); a submission is alone with its run until it is over
(`SubmissionInv`); a tree that is claimed or being recovered has its key on the
lease of the process and no executor there yet (`RecoveryInv`); an executor holds
the key until its status is written, and is the only one of its process
(`ExecutorInv`); the marks are those of trees in recovery and of executors before
their first event (`MarkInv`). Two owners would both have the key on their own
lease. All of this is said of runs that are not `unprotected`, and a step that
takes a key from an owner adds the run there.

`RunMetadataProofs`: who is told that a run is over finds its results, and a run
whose writer is through is recorded as it ended, for both stores, any forest of
runs, items, fates, waiters, crashes and cancellations. `MInv` relates, for each
run that is not excused, the stage of its writer to its rows: results are absent
or those of the fate and the missing ones are still to do (`RowsInv`,
`ResultsInv`), and a terminal status implies that all are there, whichever of
`record_item_result` and `update_run_status` wrote it (`StatusInv`). A waiter that
has seen the end, by a notification, by polling or after a lag, reads after that
(`WaiterInv`).

Assumptions on constants. All are named and TLC evaluates them on the instances of
the runs. Those that are more than types: dependencies lie within a run
(`ConstantsAssumption`), `needed_steps` names earlier steps and is stable
(`ItemState`; stable is proved of expressions whose defaults mention no step, and
does not hold of others), the parts of an expression are expressions of smaller
depth (`ExprsAssumption`), a step that has completed did not fail for want of
itself (`OutcomesAssumption`), a fate gives each item a result and ends as
`Completed` or `Failed` (`FateAssumption`; `execute_to_completion` records every
item before it ends a run), and the placeholder for no owner is no process and no
lease (`OwnershipAssumption`).

Only model-checked: type checking (`TypeCheck`: recursion over schemas, expressions
and values at once, written with recursive operators), and all liveness (fairness
and `ENABLED` are beyond the prover).

## Not modelled

* Transports and storage with no protocol of their own beyond what is modelled:
  the NATS task queue, blob stores (content-addressed, written once), migrations
  and queries of the SQL store.
* Plugin routing, the environment, built-in components, the MCP and mock
  plugins: configuration and the answers of components. `FlowExecutor` lets a
  component give any answer of its `StepResult`; of the built-in ones that run a
  subflow it models that they submit, wait and succeed with what came of it.
* Command line, configuration and observability: input and output.
* Test support: the compliance suites of journal, metadata and leases. The modules
  are what the suites test by example.
* The vsock worker, the isolation proxy, registration and discovery of worker
  components, LangChain and Langflow integrations, generated clients.

## Plan

Left for later, in this order:

1. `TaskWorker` composed with `PendingTasks`: heartbeats of a handler that is dead,
   answers of workers of a former orchestrator.
2. An abstract specification of a task (requested, answered once) that
   `PendingTasks` implements.
3. The NATS task transport, with redelivery of unacknowledged messages.
