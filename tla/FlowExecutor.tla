---------------------------- MODULE FlowExecutor ----------------------------
(***************************************************************************)
(* The executor of one execution tree: a root run whose steps may submit   *)
(* subflows, with dispatch, transport retries, checkpoints, crashes and    *)
(* recovery (stepflow-execution/src/flow_executor.rs, checkpointer.rs,     *)
(* recovery/restore.rs, recovery/tree.rs).                                 *)
(*                                                                         *)
(* A run has one item, and its dependencies are fixed; ItemsState and      *)
(* RunRecovery look inside the items.  A handler of the executor decides   *)
(* in one action and leaves in todo the durable writes it makes in turn,   *)
(* so that the components run, and a crash may fall, between any two.      *)
(***************************************************************************)
EXTENDS Integers, SequencesExt

CONSTANTS
    Root,
    SubRun,             \* run ids for subflows; bounds the submissions
    RootStep,
    SubflowStep,        \* the steps of the root that run a subflow
    SubStep,            \* the steps of a subflow
    DependsOn,          \* the steps a step depends on, in its run
    OutputStep,         \* the steps whose failure fails the output of a run
    StepResult,         \* what a step may meet: "ok", "error", "transport"
    Tolerant,           \* steps that mention others in a condition only: a failed
                        \* condition is false, and the input may resolve
    UsesDefault,        \* steps with onError: useDefault
    MaxInFlight,        \* max_in_flight
    MaxTransportRetries,    \* transport_max_retries
    Checkpointing,      \* whether checkpoints are configured
    MaxCrashes          \* bounds the crashes

None == "none"
Run == {Root} \union SubRun
StepsOf(r) == IF r = Root THEN RootStep ELSE SubStep
Task == ({Root} \X RootStep) \union (SubRun \X SubStep)

(* A subflow has steps: one without any ends while it is submitted, and is *)
(* left out.                                                               *)
ASSUME ConstantsAssumption ==
    /\ Root \notin SubRun
    /\ IsFiniteSet(SubRun)
    /\ None \notin RootStep \union SubRun
    /\ RootStep # {} /\ SubStep # {}
    /\ SubflowStep \subseteq RootStep
    /\ \A s \in RootStep : DependsOn[s] \subseteq RootStep
    /\ \A s \in SubStep : DependsOn[s] \subseteq SubStep
    /\ \A s \in RootStep \union SubStep : StepResult[s] \subseteq {"ok", "error", "transport"}
    /\ Tolerant \union UsesDefault \subseteq RootStep \union SubStep
    /\ MaxInFlight \in Nat /\ MaxTransportRetries \in Nat /\ MaxCrashes \in Nat
    /\ Checkpointing \in BOOLEAN

VARIABLES
    mode,           \* where the executor is in its loop
    mem,            \* the state of the executor
    todo,           \* the rest of the handler that is running
    futures,        \* in_flight: what the future of a task is doing
    requests,       \* the subflow submission channel
    store,          \* the metadata store
    recoverable,    \* what replaying checkpoint and journal gives now
    past,           \* what has been journalled (history)
    crashes

vars == <<mode, mem, todo, futures, requests, store, recoverable, past, crashes>>

Terminal == {"Completed", "Failed"}

FreshMemory ==
    [runs |-> {Root},                           \* runs with a RunState
     completed |-> [r \in Run |-> {}],
     failed |-> [r \in Run |-> {}],
     attempts |-> [t \in Task |-> 0],
     retries |-> [t \in Task |-> 0],            \* transport_retries
     queue |-> {},                              \* the scheduler
     subflows |-> [s \in SubflowStep |-> None], \* recovered_subflows
     recovered |-> {},                          \* recovered_run_ids
     needing |-> {},                            \* runs_needing_step_updates
     recovered_ids |-> [t \in Task |-> 0],      \* recovered_task_ids
     live_ids |-> [t \in Task |-> 0]]           \* in_flight_task_ids

(* RecoveredState of recovery/restore.rs.                                  *)
FreshRecoverable ==
    [runs |-> {Root},
     completed |-> [r \in Run |-> {}],
     failed |-> [r \in Run |-> {}],
     attempts |-> [t \in Task |-> 0],
     subflows |-> [s \in SubflowStep |-> None],
     needing |-> {},
     task_ids |-> [t \in Task |-> 0],
     ended |-> [r \in Run |-> None]]            \* RunCompleted in the window

Idle == [phase |-> "idle"]

InFlight == {t \in Task : futures[t] # Idle}

(* The run has been submitted; no handler has run.                         *)
Init ==
    /\ mode = "starting"
    /\ mem = FreshMemory
    /\ todo = <<>>
    /\ futures = [t \in Task |-> Idle]
    /\ requests = <<>>
    /\ store = [status |-> [r \in Run |-> IF r = Root THEN "Running" ELSE None],
                result |-> [r \in Run |-> None]]
    /\ recoverable = FreshRecoverable
    /\ past = [issued |-> [t \in Task |-> 0],
               attempt |-> [t \in Task |-> 0],
               retries |-> [t \in Task |-> 0],
               checkpointed |-> FALSE,
               completions |-> [t \in Task |-> 0],
               created |-> [r \in SubRun |-> None],
               ended |-> [r \in Run |-> None]]
    /\ crashes = 0

-----------------------------------------------------------------------------
(* Results of runs.  The root fails if its output does; a subflow fails if *)
(* any step of it does (is_failed).                                        *)
OutputOf(r, failed) == IF failed[r] \intersect OutputStep = {} THEN "ok" ELSE "error"
FinalStatus(r, failed) ==
    LET bad == IF r = Root THEN OutputOf(r, failed) = "error" ELSE failed[r] # {}
    IN  IF bad THEN "Failed" ELSE "Completed"

ReadyTasks(r, completed) ==
    {<<r, s>> : s \in {x \in StepsOf(r) \ completed[r] : DependsOn[x] \subseteq completed[r]}}

(* The writes of a handler.                                                *)
Journal(event) == [op |-> "journal", event |-> event]
CreateRun(r) == [op |-> "create", run |-> r]
RecordResult(r, result) == [op |-> "record", run |-> r, result |-> result]
UpdateStatus(r, status) == [op |-> "status", run |-> r, status |-> status]
Spawn(tasks) == [op |-> "spawn", tasks |-> tasks]
Initialize(r) == [op |-> "initialize", run |-> r]
Evict(r) == [op |-> "evict", run |-> r]
Acknowledge(request, r) == [op |-> "acknowledge", request |-> request, run |-> r]
TakeCheckpoint == [op |-> "checkpoint"]

SubRunCreated(r, s) == [type |-> "SubRunCreated", run |-> r, step |-> s]
StepsNeeded(r) == [type |-> "StepsNeeded", run |-> r]
TasksStarted(tasks, attempts, ids) ==
    [type |-> "TasksStarted", tasks |-> tasks, attempts |-> attempts, ids |-> ids]
TaskCompleted(t, result) == [type |-> "TaskCompleted", task |-> t, result |-> result]
RunCompleted(r, status) == [type |-> "RunCompleted", run |-> r, status |-> status]

(* Faulty variant, to test the properties: the metadata is always first.   *)
EndOfRunMetadataFirst(r, failed) ==
    <<RecordResult(r, OutputOf(r, failed)), UpdateStatus(r, FinalStatus(r, failed)),
      Journal(RunCompleted(r, FinalStatus(r, failed)))>>

(* A completed run.  A subflow has RunCompleted in the journal before the   *)
(* metadata changes; the root records its result first.                    *)
EndOfRun(r, failed) ==
    LET record == RecordResult(r, OutputOf(r, failed))
        ended  == Journal(RunCompleted(r, FinalStatus(r, failed)))
        status == UpdateStatus(r, FinalStatus(r, failed))
    IN  IF r = Root THEN <<record, ended, status>> ELSE <<ended, record, status>>

-----------------------------------------------------------------------------
(* Faulty variant, to test the properties: replay forgets the attempts.    *)
ReplayStartedWithoutAttempts(rec, event) ==
    [rec EXCEPT !.task_ids = [t \in Task |-> IF t \in event.tasks THEN event.ids[t] ELSE @[t]]]

(* What an event changes in the state that replay rebuilds.                *)
ReplayStarted(rec, event) ==
    [rec EXCEPT !.attempts = [t \in Task |->
                    IF t \in event.tasks THEN Max({@[t], event.attempts[t]}) ELSE @[t]],
                !.task_ids = [t \in Task |->
                    IF t \in event.tasks THEN event.ids[t] ELSE @[t]]]

ReplayCompleted(rec, event) ==
    [rec EXCEPT !.completed[event.task[1]] = @ \union {event.task[2]},
                !.failed[event.task[1]] = @ \union
                    IF event.result = "ok" THEN {} ELSE {event.task[2]},
                !.task_ids[event.task] = 0]

Replay(rec, event) ==
    CASE event.type = "SubRunCreated" ->
            [rec EXCEPT !.runs = @ \union {event.run},
                        !.subflows[event.step] = event.run,
                        !.needing = @ \union {event.run}]
      [] event.type = "StepsNeeded" -> [rec EXCEPT !.needing = @ \ {event.run}]
      [] event.type = "TasksStarted" -> ReplayStarted(rec, event)
      [] event.type = "TaskCompleted" -> ReplayCompleted(rec, event)
      [] event.type = "RunCompleted" ->
            [rec EXCEPT !.runs = @ \ ({event.run} \ {Root}),
                        !.needing = @ \ {event.run},
                        !.ended[event.run] = event.status]

(* CheckpointData::capture: the runs in memory, recovered_subflows and     *)
(* in_flight_task_ids.                                                     *)
Captured ==
    [runs |-> mem.runs, completed |-> mem.completed, failed |-> mem.failed,
     attempts |-> mem.attempts, subflows |-> mem.subflows, needing |-> {},
     task_ids |-> mem.live_ids, ended |-> [r \in Run |-> None]]

Remember(event) ==
    CASE event.type = "SubRunCreated" -> [past EXCEPT !.created[event.run] = event.step]
      [] event.type = "TasksStarted" ->
            [past EXCEPT !.attempt = [t \in Task |->
                IF t \in event.tasks THEN event.attempts[t] ELSE @[t]]]
      [] event.type = "TaskCompleted" -> [past EXCEPT !.completions[event.task] = @ + 1]
      [] event.type = "RunCompleted" -> [past EXCEPT !.ended[event.run] = event.status]
      [] OTHER -> past

(* The effects of the writes, one action each.                             *)
Doing(op) == todo # <<>> /\ Head(todo).op = op
Done == todo' = Tail(todo) /\ UNCHANGED <<mode, requests, crashes>>

WriteJournal ==
    /\ Doing("journal")
    /\ recoverable' = Replay(recoverable, Head(todo).event)
    /\ past' = Remember(Head(todo).event)
    /\ Done /\ UNCHANGED <<mem, futures, store>>

WriteCreateRun ==
    /\ Doing("create")
    /\ store' = [store EXCEPT !.status[Head(todo).run] = "Running"]
    /\ Done /\ UNCHANGED <<mem, futures, recoverable, past>>

(* record_item_result: the last item of a run completes it.                *)
WriteResult ==
    /\ Doing("record")
    /\ store' = [store EXCEPT
            !.result[Head(todo).run] = Head(todo).result,
            !.status[Head(todo).run] = IF Head(todo).result = "ok" THEN "Completed" ELSE "Failed"]
    /\ Done /\ UNCHANGED <<mem, futures, recoverable, past>>

WriteStatus ==
    /\ Doing("status")
    /\ store' = [store EXCEPT !.status[Head(todo).run] = Head(todo).status]
    /\ Done /\ UNCHANGED <<mem, futures, recoverable, past>>

SpawnFutures ==
    /\ Doing("spawn")
    /\ futures' = [t \in Task |-> IF t \in Head(todo).tasks THEN [phase |-> "running"]
                                  ELSE futures[t]]
    /\ Done /\ UNCHANGED <<mem, store, recoverable, past>>

(* Faulty variant, to test the properties: the scheduler is not told.      *)
InitializeWithoutNotify ==
    /\ Doing("initialize")
    /\ Done /\ UNCHANGED <<mem, futures, store, recoverable, past>>

InitializeSubflow ==
    /\ Doing("initialize")
    /\ mem' = [mem EXCEPT !.queue = @ \union ReadyTasks(Head(todo).run, mem.completed)]
    /\ Done /\ UNCHANGED <<futures, store, recoverable, past>>

EvictRun ==
    /\ Doing("evict")
    /\ mem' = [mem EXCEPT !.runs = @ \ {Head(todo).run}]
    /\ Done /\ UNCHANGED <<futures, store, recoverable, past>>

(* The answer reaches the attempt that asked, if its future still waits.   *)
AcknowledgeRequest ==
    /\ Doing("acknowledge")
    /\ LET t == Head(todo).request.task
       IN  futures' = IF /\ futures[t].phase = "submitting"
                         /\ mem.attempts[t] = Head(todo).request.attempt
                      THEN [futures EXCEPT ![t] = [phase |-> "waiting", run |-> Head(todo).run]]
                      ELSE futures
    /\ Done /\ UNCHANGED <<mem, store, recoverable, past>>

WriteCheckpoint ==
    /\ Doing("checkpoint")
    /\ recoverable' = Captured
    /\ past' = [past EXCEPT !.checkpointed = TRUE]
    /\ Done /\ UNCHANGED <<mem, futures, store>>

Write ==
    \/ WriteJournal \/ WriteCreateRun \/ WriteResult \/ WriteStatus \/ SpawnFutures
    \/ InitializeSubflow \/ EvictRun \/ AcknowledgeRequest \/ WriteCheckpoint

-----------------------------------------------------------------------------
(* The loop of the executor.                                               *)
Handling(where) == mode = where /\ todo = <<>>

(* execute_to_completion: initialize every run, and journal StepsNeeded    *)
(* unless it is known to be in the journal.                                *)
Start ==
    /\ Handling("starting")
    /\ LET announced == mem.runs \ (mem.recovered \ mem.needing)
       IN  todo' = SetToSeq({Journal(StepsNeeded(r)) : r \in announced})
    /\ mem' = [mem EXCEPT !.queue = UNION {ReadyTasks(r, mem.completed) : r \in mem.runs}]
    /\ mode' = "select"
    /\ UNCHANGED <<futures, requests, store, recoverable, past, crashes>>

(* Faulty variant, to test the properties: waiting parents fill the limit. *)
MaxToStartOrNone == Max({MaxInFlight - Cardinality(InFlight), 0})

(* At least one, so that subflows run when their parents fill max_in_flight. *)
MaxToStart == Max({MaxInFlight - Cardinality(InFlight), 1})

(* A recovered task id is used again; otherwise the task gets a new one.   *)
TaskId(t) == IF mem.recovered_ids[t] # 0 THEN mem.recovered_ids[t] ELSE past.issued[t] + 1

(* Faulty variant, to test the properties: the order swapped.              *)
SpawnThenJournal(tasks, attempts, ids) ==
    <<Spawn(tasks), Journal(TasksStarted(tasks, attempts, ids))>>

(* Dispatch: TasksStarted is durable before the futures are created.       *)
Dispatch(tasks, attempts, ids) ==
    <<Journal(TasksStarted(tasks, attempts, ids)), Spawn(tasks)>>

SelectTasks ==
    /\ Handling("select")
    /\ mem.queue # {}
    /\ \E tasks \in kSubset(Min({MaxToStart, Cardinality(mem.queue)}), mem.queue) :
        LET attempts == [t \in Task |-> mem.attempts[t] + IF t \in tasks THEN 1 ELSE 0]
            ids == [t \in Task |-> IF t \in tasks THEN TaskId(t) ELSE mem.live_ids[t]]
        IN  /\ mem' = [mem EXCEPT !.queue = @ \ tasks,
                                  !.attempts = attempts,
                                  !.live_ids = ids,
                                  !.recovered_ids = [t \in Task |->
                                        IF t \in tasks THEN 0 ELSE @[t]]]
            /\ past' = [past EXCEPT !.issued = [t \in Task |->
                    IF t \in tasks THEN Max({@[t], ids[t]}) ELSE @[t]]]
            /\ todo' = Dispatch(tasks, attempts, ids)
    /\ mode' = "wait"
    /\ UNCHANGED <<futures, requests, store, recoverable, crashes>>

SelectNothing ==
    /\ Handling("select")
    /\ mem.queue = {} /\ InFlight # {}
    /\ mode' = "wait"
    /\ UNCHANGED <<mem, todo, futures, requests, store, recoverable, past, crashes>>

(* Nothing is queued or in flight: the end of execute_to_completion.       *)
FinishRoot ==
    /\ Handling("select")
    /\ mem.queue = {} /\ InFlight = {}
    /\ IF mem.completed[Root] = RootStep
       THEN mode' = "done" /\ todo' = EndOfRun(Root, mem.failed)
       ELSE mode' = "deadlocked" /\ todo' = <<>>
    /\ UNCHANGED <<mem, futures, requests, store, recoverable, past, crashes>>

RetriesLeft(t) == mem.retries[t] < MaxTransportRetries
Finished(t) == futures[t].phase = "finished"

MayCheckpoint(writes) ==
    \/ todo' = writes
    \/ Checkpointing /\ todo' = Append(writes, TakeCheckpoint)

(* complete_task on its retry path: the task keeps its id.                 *)
RetryTask(t) ==
    /\ Handling("wait")
    /\ Finished(t) /\ futures[t].result = "transport" /\ RetriesLeft(t)
    /\ mem' = [mem EXCEPT !.retries[t] = @ + 1, !.attempts[t] = @ + 1]
    /\ futures' = [futures EXCEPT ![t] = Idle]
    /\ past' = [past EXCEPT !.retries[t] = @ + 1]
    /\ MayCheckpoint(Dispatch({t}, mem'.attempts, mem.live_ids))
    /\ mode' = "select"
    /\ UNCHANGED <<requests, store, recoverable, crashes>>

SubflowEnds(r, completed) == r # Root /\ completed[r] = SubStep

(* complete_task otherwise; the last task of a subflow completes its run.  *)
CompleteTask(t) ==
    /\ Handling("wait")
    /\ Finished(t) /\ ~(futures[t].result = "transport" /\ RetriesLeft(t))
    /\ LET r == t[1]
           completed == [mem.completed EXCEPT ![r] = @ \union {t[2]}]
           failed == [mem.failed EXCEPT ![r] = @ \union
                        IF futures[t].result = "ok" THEN {} ELSE {t[2]}]
           ready == ReadyTasks(r, completed) \ ReadyTasks(r, mem.completed)
       IN  /\ mem' = [mem EXCEPT !.completed = completed, !.failed = failed,
                                 !.queue = @ \union ready, !.live_ids[t] = 0]
           /\ MayCheckpoint(<<Journal(TaskCompleted(t, futures[t].result))>>
                             \o IF SubflowEnds(r, completed) THEN EndOfRun(r, failed) \o <<Evict(r)>> ELSE <<>>)
    /\ futures' = [futures EXCEPT ![t] = Idle]
    /\ mode' = "select"
    /\ UNCHANGED <<requests, store, recoverable, past, crashes>>

(* handle_submit_request: a subflow recovered for this step, or a new one. *)
HandleSubmit ==
    /\ Handling("wait")
    /\ requests # <<>>
    /\ LET request == Head(requests)
           step == request.task[2]
           recovered == mem.subflows[step]
       IN  IF recovered # None
           THEN /\ mem' = [mem EXCEPT !.subflows[step] = None]
                /\ todo' = <<Acknowledge(request, recovered)>>
           ELSE LET r == request.run
                IN  /\ mem' = [mem EXCEPT !.runs = @ \union {r}]
                    /\ todo' = <<Journal(SubRunCreated(r, step)), CreateRun(r), Journal(StepsNeeded(r)),
                                 Initialize(r), Acknowledge(request, r)>>
    /\ requests' = Tail(requests)
    /\ mode' = "select"
    /\ UNCHANGED <<futures, store, recoverable, past, crashes>>

Loop ==
    \/ Start \/ SelectTasks \/ SelectNothing \/ FinishRoot \/ HandleSubmit
    \/ \E t \in Task : RetryTask(t) \/ CompleteTask(t)

-----------------------------------------------------------------------------
(* The components.  A subflow step does nothing but submit and wait.       *)
IsSubflow(t) == t[1] = Root /\ t[2] \in SubflowStep
DependencyFailed(t) == DependsOn[t[2]] \intersect mem.failed[t[1]] # {}
MayRun(t) == ~DependencyFailed(t) \/ t[2] \in Tolerant

(* A failed input hands on the failure of the step it mentions, code and   *)
(* all, and so a failure that some step of the run has met.                *)
HandedOn(r) == (UNION {StepResult[s] : s \in StepsOf(r)}) \ {"ok"}

(* useDefault makes a success of a failure of the component, its loss      *)
(* included.                                                               *)
WithDefault(t, result) == IF t[2] \in UsesDefault THEN "ok" ELSE result

(* The results of a task.  An error may also be that of the input (a path  *)
(* that does not exist) or of the routing, which no default replaces.      *)
Outcomes(t) ==
    LET answers == StepResult[t[2]] \ IF IsSubflow(t) THEN {"ok"} ELSE {}
    IN  (IF DependencyFailed(t) THEN HandedOn(t[1]) ELSE {})
        \union (IF MayRun(t) THEN {WithDefault(t, x) : x \in answers} \union (answers \intersect {"error"})
                ELSE {})

FutureEnds(t, result) ==
    /\ futures' = [futures EXCEPT ![t] = [phase |-> "finished", result |-> result]]
    /\ UNCHANGED <<mode, mem, todo, requests, store, recoverable, past, crashes>>

Answer(t) ==
    /\ futures[t].phase = "running"
    /\ \E result \in Outcomes(t) : FutureEnds(t, result)

FreeRuns == {r \in SubRun : /\ past.created[r] = None
                            /\ \A i \in DOMAIN requests : requests[i].run # r
                            /\ \A i \in DOMAIN todo : todo[i].op # "acknowledge" \/ todo[i].run # r}

(* SubflowSubmitter::submit: a new run id, and the context of the attempt. *)
Submit(t) ==
    /\ futures[t].phase = "running" /\ IsSubflow(t) /\ MayRun(t)
    /\ FreeRuns # {}
    /\ futures' = [futures EXCEPT ![t] = [phase |-> "submitting"]]
    /\ requests' = Append(requests, [task |-> t, attempt |-> mem.attempts[t],
                                     run |-> CHOOSE r \in FreeRuns : TRUE])
    /\ UNCHANGED <<mode, mem, todo, store, recoverable, past, crashes>>

(* wait_for_completion, and get_item_results.  The components that run     *)
(* subflows succeed with whatever results these had; a run without a       *)
(* result is an error of the dispatch.                                     *)
SubflowAnswers(t) ==
    /\ futures[t].phase = "waiting"
    /\ store.status[futures[t].run] \in Terminal
    /\ FutureEnds(t, WithDefault(t, IF store.result[futures[t].run] = None THEN "transport" ELSE "ok"))

(* The worker of a step that waits for its subflow is lost.                *)
LoseWorker(t) ==
    /\ futures[t].phase \in {"submitting", "waiting"}
    /\ "transport" \in StepResult[t[2]]
    /\ FutureEnds(t, WithDefault(t, "transport"))

-----------------------------------------------------------------------------
(* A crash keeps the journal, the checkpoints and the metadata.            *)
Crash ==
    /\ mode \notin {"down", "deadlocked"}
    /\ crashes < MaxCrashes
    /\ mode' = "down"
    /\ mem' = FreshMemory
    /\ todo' = <<>>
    /\ futures' = [t \in Task |-> Idle]
    /\ requests' = <<>>
    /\ crashes' = crashes + 1
    /\ UNCHANGED <<store, recoverable, past>>

(* Replay creates the run records that are missing, and writes the results *)
(* of the runs that ended, unless their status is terminal already.        *)
SyncedStore ==
    LET seen(r) == recoverable.ended[r] # None /\ store.status[r] \notin Terminal
    IN  [status |-> [r \in Run |-> IF seen(r) THEN recoverable.ended[r]
                                   ELSE IF store.status[r] = None /\ r \in recoverable.runs
                                   THEN "Running" ELSE store.status[r]],
         result |-> [r \in Run |-> IF seen(r) THEN OutputOf(r, recoverable.failed)
                                   ELSE store.result[r]]]

(* Faulty variants, to test the properties: the subflow map is not passed, *)
(* or which of the completed steps have failed.                            *)
RecoveredWithoutSubflows ==
    [FreshMemory EXCEPT !.runs = recoverable.runs, !.completed = recoverable.completed,
                        !.failed = recoverable.failed, !.attempts = recoverable.attempts,
                        !.recovered_ids = recoverable.task_ids]
RecoveredWithoutFailures ==
    [FreshMemory EXCEPT !.runs = recoverable.runs, !.completed = recoverable.completed,
                        !.attempts = recoverable.attempts, !.subflows = recoverable.subflows,
                        !.recovered = {recoverable.subflows[s] : s \in SubflowStep} \ {None},
                        !.needing = recoverable.needing,
                        !.recovered_ids = recoverable.task_ids]

RecoveredMemory ==
    [FreshMemory EXCEPT !.runs = recoverable.runs,
                        !.completed = recoverable.completed,
                        !.failed = recoverable.failed,
                        !.attempts = recoverable.attempts,
                        !.subflows = recoverable.subflows,
                        !.recovered = {recoverable.subflows[s] : s \in SubflowStep} \ {None},
                        !.needing = recoverable.needing,
                        !.recovered_ids = recoverable.task_ids]

(* recover_execution_tree, for a root run that is still Running.           *)
Recover ==
    /\ mode \in {"down", "deadlocked"}
    /\ store.status[Root] = "Running"
    /\ store' = SyncedStore
    /\ IF recoverable.ended[Root] # None
       THEN mode' = "done" /\ mem' = mem
       ELSE mode' = "starting" /\ mem' = RecoveredMemory
    /\ requests' = <<>>
    /\ UNCHANGED <<todo, futures, recoverable, past, crashes>>

Stopped ==
    /\ mode \in {"done", "down"} /\ todo = <<>>
    /\ store.status[Root] \in Terminal
    /\ UNCHANGED vars

Progress ==
    \/ Write \/ Loop \/ Recover
    \/ \E t \in Task : Answer(t) \/ Submit(t) \/ SubflowAnswers(t)

Next == Progress \/ Crash \/ Stopped \/ \E t \in Task : LoseWorker(t)

(* The executor runs, a component answers or times out, and a node that    *)
(* comes back recovers.                                                    *)
Spec == Init /\ [][Next]_vars /\ WF_vars(Progress)

-----------------------------------------------------------------------------
(* The types of the state, of the writes of a handler and of the events.   *)
Step == RootStep \union SubStep
Request == [task : {Root} \X SubflowStep, attempt : Nat, run : SubRun]
Event ==
    [type : {"SubRunCreated"}, run : SubRun, step : RootStep]
    \union [type : {"StepsNeeded"}, run : Run]
    \union [type : {"TasksStarted"}, tasks : SUBSET Task, attempts : [Task -> Nat], ids : [Task -> Nat]]
    \union [type : {"TaskCompleted"}, task : Task, result : {"ok", "error", "transport", None}]
    \union [type : {"RunCompleted"}, run : Run, status : Terminal]
Op ==
    [op : {"journal"}, event : Event]
    \union [op : {"create", "initialize", "evict"}, run : Run]
    \union [op : {"record"}, run : Run, result : {"ok", "error"}]
    \union [op : {"status"}, run : Run, status : Terminal]
    \union [op : {"spawn"}, tasks : SUBSET Task]
    \union [op : {"acknowledge"}, request : Request, run : SubRun]
    \union [op : {"checkpoint"}]
Future ==
    [phase : {"idle", "running", "submitting"}]
    \union [phase : {"waiting"}, run : SubRun]
    \union [phase : {"finished"}, result : {"ok", "error", "transport", None}]
Memory ==
    [runs : SUBSET Run, completed : [Run -> SUBSET Step], failed : [Run -> SUBSET Step],
     attempts : [Task -> Nat], retries : [Task -> Nat], queue : SUBSET Task,
     subflows : [SubflowStep -> SubRun \union {None}], recovered : SUBSET SubRun,
     needing : SUBSET Run, recovered_ids : [Task -> Nat], live_ids : [Task -> Nat]]
Recoverable ==
    [runs : SUBSET Run, completed : [Run -> SUBSET Step], failed : [Run -> SUBSET Step],
     attempts : [Task -> Nat], subflows : [SubflowStep -> SubRun \union {None}],
     needing : SUBSET Run, task_ids : [Task -> Nat], ended : [Run -> Terminal \union {None}]]

ExecutorTypeOK ==
    /\ mode \in {"starting", "select", "wait", "done", "deadlocked", "down"}
    /\ mem \in Memory
    /\ todo \in Seq(Op)
    /\ futures \in [Task -> Future]
    /\ requests \in Seq(Request)
    /\ store \in [status : [Run -> Terminal \union {"Running", None}],
                  result : [Run -> {"ok", "error", None}]]
    /\ recoverable \in Recoverable
    /\ past \in [issued : [Task -> Nat], attempt : [Task -> Nat], retries : [Task -> Nat],
                 checkpointed : BOOLEAN, completions : [Task -> Nat],
                 created : [SubRun -> RootStep \union {None}],
                 ended : [Run -> Terminal \union {None}]]
    /\ crashes \in Nat

(* No task is journalled as completed twice, across crashes, recoveries    *)
(* and checkpoints.                                                        *)
CompletesAtMostOnce == \A t \in Task : past.completions[t] <= 1

(* Attempt numbers are journalled without gaps or repetitions: an attempt  *)
(* that was counted in memory only is numbered again after a crash.        *)
AttemptsAreConsecutive ==
    [][\A t \in Task : past'.attempt[t] \in {past.attempt[t], past.attempt[t] + 1}]_vars

(* A step that has been dispatched is known to recovery, with the id its   *)
(* worker will answer to.                                                  *)
DispatchIsJournalled ==
    \A t \in Task : futures[t].phase \in {"running", "submitting", "waiting"} =>
        recoverable.task_ids[t] = mem.live_ids[t] /\ mem.live_ids[t] # 0

(* No lost work: between handlers, each step of a run in memory is         *)
(* completed, queued, in flight, or waits for another step of its run.     *)
NoStepIsForgotten ==
    Handling("wait") \/ Handling("select") =>
        \A r \in mem.runs : \A s \in StepsOf(r) \ mem.completed[r] :
            \/ <<r, s>> \in mem.queue \union InFlight
            \/ ~(DependsOn[s] \subseteq mem.completed[r])

(* The writes that end a run come in an order from which a crash leaves no *)
(* lie: a run is terminal in the metadata only when the journal has every  *)
(* completion of its steps and, for a subflow, its RunCompleted.  (Not so  *)
(* for a subflow without steps, whose results are recorded first.)         *)
SubflowsEndInOrder ==
    \A r \in Run : store.status[r] \in Terminal =>
        /\ r \in SubRun => past.ended[r] # None
        /\ \A s \in StepsOf(r) : past.completions[<<r, s>>] >= 1

(* Until a checkpoint is taken, each subflow beyond the first of a step is *)
(* accounted for by a retry of that step: crashes duplicate none.          *)
SubflowsOf(s) == {r \in SubRun : past.created[r] = s}
CrashesDuplicateNoSubflow ==
    ~past.checkpointed =>
        \A s \in SubflowStep : Cardinality(SubflowsOf(s)) <= 1 + past.retries[<<Root, s>>]

(* Without a crash the run ends: parents that fill max_in_flight do not    *)
(* starve the subflows they wait for.                                      *)
EndsWithoutCrash == [](mode # "down") => <>(store.status[Root] \in Terminal)

-----------------------------------------------------------------------------
(* "wait_for_completion will pick up the existing subflow": a run that a   *)
(* step waits for has ended or has a task that is queued or in flight.     *)
AwaitedRunsProgress ==
    Handling("wait") =>
        \A t \in Task : futures[t].phase = "waiting" =>
            \/ store.status[futures[t].run] \in Terminal
            \/ \E s \in SubStep : <<futures[t].run, s>> \in mem.queue \union InFlight

-----------------------------------------------------------------------------
(* The tree that the journal and the metadata tell of.                     *)
JournalledFailures == {t \in Task : t[2] \in recoverable.failed[t[1]]}
RecordedResults ==
    [r \in Run |-> IF store.status[r] \in Terminal THEN store.result[r] ELSE None]

Tree == INSTANCE ExecutionTree
            WITH completed <- past.completions, failed <- JournalledFailures,
                 begun <- past.created, result <- RecordedResults

(* Crashes, retries, late answers of lost workers and recovered subflows   *)
(* do not show: what is journalled and recorded is what an execution tree  *)
(* does that runs each step once.  No step is journalled as a success that *)
(* needed a step the journal has as failed, nor one that waited for a      *)
(* subflow of which the metadata has no result.                            *)
ImplementsExecutionTree == Tree!TreeSpec
=============================================================================
