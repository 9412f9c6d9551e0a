----------------------------- MODULE ItemsState -----------------------------
(***************************************************************************)
(* The items of one run and the tasks they make ready                      *)
(* (stepflow-execution/src/state/items_state.rs), together with the part   *)
(* of the flow executor that hands those tasks to the scheduler and feeds  *)
(* completions back.  There is no restart here: see RunRecovery.             *)
(***************************************************************************)
EXTENDS ItemState

CONSTANTS
    Item,                   \* the items of the run
    UnconditionalInputs,    \* flows whose step inputs hold no conditional
    UnconditionalOutput     \* flows whose output holds no conditional

ASSUME ItemAssumption == IsFiniteSet(Item)

(* Without conditionals, what an expression needs is fixed, less what has  *)
(* completed.                                                              *)
NothingRun == [s \in Step |-> NotRun]

ASSUME UnconditionalInputsAssumption ==
    /\ UnconditionalInputs \subseteq Flow
    /\ \A f \in UnconditionalInputs, s \in Step, r \in Results :
         InputNeeds(f, s, r) = InputNeeds(f, s, NothingRun) \ CompletedIn(r)

ASSUME UnconditionalOutputAssumption ==
    /\ UnconditionalOutput \subseteq Flow
    /\ \A f \in UnconditionalOutput, r \in Results :
         OutputNeeds(f, r) = OutputNeeds(f, NothingRun) \ CompletedIn(r)

VARIABLES
    flow,               \* the flow (and input) of each item
    items,              \* the dependency state of each item
    incomplete_count,   \* the O(1) count of incomplete items
    initialized,        \* whether initialize_all has run
    ready,              \* tasks given to the scheduler and not yet completed
    notified            \* how often each task was given to the scheduler

itemsVars == <<flow, items, incomplete_count, initialized, ready, notified>>

Task == Item \X Step

(* The state of a run before initialize_all.                               *)
Init ==
    /\ flow \in [Item -> Flow]
    /\ items = [i \in Item |-> NewItem]
    /\ incomplete_count = 0
    /\ initialized = FALSE
    /\ ready = {}
    /\ notified = [t \in Task |-> 0]

(* Scheduler::notify_new_tasks.                                            *)
Notify(tasks) == [t \in Task |-> notified[t] + IF t \in tasks THEN 1 ELSE 0]

(* initialize_all: every item is initialised from its output expression    *)
(* and its must_execute steps; an item that becomes incomplete is counted; *)
(* every schedulable step becomes a task.                                  *)
InitializedItem(i) ==
    AddOrUpdateNeeded(flow[i], items[i], InitialSteps(flow[i], items[i]))

BecomeIncomplete(before, after) ==
    {i \in Item : IsComplete(before[i]) /\ ~IsComplete(after[i])}

SchedulableTasks(its) == {t \in Task : t[2] \in SchedulableSteps(its[t[1]])}

InitializeAll ==
    /\ ~initialized
    /\ initialized' = TRUE
    /\ items' = [i \in Item |-> InitializedItem(i)]
    /\ incomplete_count' =
         incomplete_count + Cardinality(BecomeIncomplete(items, items'))
    /\ ready' = SchedulableTasks(items')
    /\ notified' = Notify(SchedulableTasks(items'))
    /\ UNCHANGED flow

(* complete_task_and_get_ready: the completion is recorded, the steps it   *)
(* unblocks are evaluated again, and those of them that are schedulable    *)
(* become tasks.                                                           *)
(* Faulty variant, to test the properties: the counter never falls.        *)
CountNeverFalls(before, after) == incomplete_count

CountAfterCompletion(before, after) ==
    IF ~IsComplete(before) /\ IsComplete(after) THEN incomplete_count - 1
    ELSE incomplete_count

CompleteTaskAndGetReady(i, s, result) ==
    LET unblocked == NewlyUnblocked(items[i], s)
        marked    == MarkCompleted(items[i], s, result)
        updated   == AddOrUpdateNeeded(flow[i], marked, unblocked)
        newReady  == {i} \X (unblocked \intersect SchedulableSteps(updated))
    IN  /\ items' = [items EXCEPT ![i] = updated]
        /\ incomplete_count' = CountAfterCompletion(items[i], marked)
        /\ ready' = (ready \ {<<i, s>>}) \union newReady
        /\ notified' = Notify(newReady)
        /\ UNCHANGED <<flow, initialized>>

CompleteTask(i, s, result) ==
    /\ <<i, s>> \in ready
    /\ CompleteTaskAndGetReady(i, s, result)

Next ==
    \/ InitializeAll
    \/ \E i \in Item, s \in Step, result \in FlowResult : CompleteTask(i, s, result)

Spec == Init /\ [][Next]_itemsVars

-----------------------------------------------------------------------------
TypeOK ==
    /\ flow \in [Item -> Flow]
    /\ items \in [Item -> ItemRecord]
    /\ incomplete_count \in Nat
    /\ initialized \in BOOLEAN
    /\ ready \subseteq Task
    /\ notified \in [Task -> Nat]

(* waiters is the inverse of waiting_on: mark_completed finds through      *)
(* waiters the steps to unblock, so a missing entry would leave a step     *)
(* waiting for ever and a stale one would unblock it for the wrong step.   *)
WaitersMirrorWaitingOn == \A i \in Item : Mirror(items[i])

(* A step waits only on steps that are needed and still to run, and only a *)
(* step that is itself needed and still to run waits: nothing waits for    *)
(* something nobody will run.                                              *)
WaitsOnlyOnPendingSteps == \A i \in Item : Pending(items[i])

(* The counter the executor reads to decide whether a run is over agrees   *)
(* with the items at all times, although a completion can both finish      *)
(* steps and make further steps needed.                                    *)
IncompleteItems == {i \in Item : ~IsComplete(items[i])}
IncompleteCountIsExact == incomplete_count = Cardinality(IncompleteItems)

(* Executor contract 2 (scheduler.rs): a task given to the scheduler has   *)
(* all its dependencies satisfied, and keeps them until it completes.      *)
ReadyTasksHaveTheirInputs ==
    \A t \in ready :
        /\ t[2] \in items[t[1]].needed \ Completed(items[t[1]])
        /\ InputNeeds(flow[t[1]], t[2], items[t[1]].results) = {}

(* Executor contract 1 (scheduler.rs): each task is given to the scheduler *)
(* once, and what was given and is not ready any more has completed.       *)
NotifiedExactlyOnce ==
    \A t \in Task :
        notified[t] = IF t \in ready \/ t[2] \in Completed(items[t[1]]) THEN 1 ELSE 0

(* Dependencies cannot deadlock: an incomplete item has a step that could  *)
(* run.                                                                    *)
IncompleteItemsCanProgress ==
    \A i \in Item : ~IsComplete(items[i]) => SchedulableSteps(items[i]) # {}

(* Every step that could run has been given to the scheduler.              *)
NothingLost(i) == SchedulableTasks(items) \intersect ({i} \X Step) \subseteq ready

(* When the inputs of a flow hold no conditional, every schedulable step   *)
(* has been given to the scheduler: complete_task_and_get_ready need not   *)
(* look beyond the steps that the completion unblocked.                    *)
UnconditionalLosesNothing ==
    initialized =>
        \A i \in Item : flow[i] \in UnconditionalInputs => NothingLost(i)

(* The same for every flow (items_state.rs: "Returns the list of tasks     *)
(* that are now ready to execute").                                        *)
EverySchedulableStepIsReady == initialized => \A i \in Item : NothingLost(i)

(* When all needed steps of an item have completed, its output expression  *)
(* can be resolved (get_item_result evaluates it then), if it holds no     *)
(* conditional: the output is analysed once, before any step has run.      *)
UnconditionalOutputIsResolvable ==
    initialized => \A i \in Item :
        flow[i] \in UnconditionalOutput /\ IsComplete(items[i])
            => OutputNeeds(flow[i], items[i].results) = {}

(* When the scheduler has nothing left, a run whose inputs hold no         *)
(* conditional is complete, so execute_to_completion cannot report         *)
(* ExecutionError::Deadlock, and each item whose output holds no           *)
(* conditional can resolve it.                                             *)
UnconditionalRunsSucceed ==
    initialized /\ ready = {} /\ (\A i \in Item : flow[i] \in UnconditionalInputs)
        => /\ incomplete_count = 0
           /\ \A i \in Item : flow[i] \in UnconditionalOutput
                => OutputNeeds(flow[i], items[i].results) = {}
=============================================================================
