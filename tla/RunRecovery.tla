---------------------------- MODULE RunRecovery ----------------------------
(***************************************************************************)
(* One run of an execution tree across crashes of the orchestrator: the    *)
(* journal of its events, its checkpoints, and the replay that rebuilds    *)
(* its items (stepflow-execution/src/run_state.rs, recovery/restore.rs and *)
(* checkpointer.rs) around the items of ItemsState.                        *)
(*                                                                         *)
(* The executor changes its state first and then appends to the journal,   *)
(* so a crash may fall between: unwritten holds the events it has still to *)
(* append before it does anything else.  Replay applies one event at a     *)
(* time, and a crash may fall between any two.                             *)
(***************************************************************************)
EXTENDS ItemsState, Sequences, SequencesExt

CONSTANT MaxCrashes     \* bounds the crashes

ASSUME MaxCrashesAssumption == MaxCrashes \in Nat

VARIABLES
    is_root,            \* the root of its tree, or a subflow
    mode,               \* the run is "up", "replaying", or "down" (not in memory)
    journal,            \* the durable events of the run
    replayed,           \* while replaying, how many of them memory reflects
    unwritten,          \* events to be appended next
    checkpoint,         \* the latest checkpoint
    writes_steps_needed,  \* whether initialize_all is journalled
    crashes

recoveryVars ==
    <<is_root, mode, journal, replayed, unwritten, checkpoint, writes_steps_needed, crashes>>
vars == <<itemsVars, recoveryVars>>

StepsNeeded(i, steps) == [type |-> "StepsNeeded", item |-> i, steps |-> steps]
TaskCompleted(i, s, result) ==
    [type |-> "TaskCompleted", item |-> i, step |-> s, result |-> result]

(* The items of a checkpoint are stored without their reverse index.       *)
ToCheckpoint(item) ==
    [needed |-> item.needed, results |-> item.results, waiting_on |-> item.waiting_on]

NoCheckpoint == [taken |-> FALSE, at |-> 0, items |-> [i \in Item |-> ToCheckpoint(NewItem)]]

RunInit ==
    /\ Init
    /\ is_root \in BOOLEAN
    /\ mode = "up"
    /\ journal = <<>>
    /\ replayed = 0
    /\ unwritten = <<>>
    /\ checkpoint = NoCheckpoint
    /\ writes_steps_needed = TRUE
    /\ crashes = 0

-----------------------------------------------------------------------------
(* write_steps_needed_events: one event for each item that needs a step.   *)
StepsNeededEvents(its) ==
    SetToSeq({StepsNeeded(i, its[i].needed) : i \in {j \in Item : its[j].needed # {}}})

(* The start of execute_to_completion.                                     *)
Start ==
    /\ mode = "up"
    /\ InitializeAll
    /\ unwritten' = IF writes_steps_needed THEN StepsNeededEvents(items') ELSE <<>>
    /\ UNCHANGED <<is_root, mode, journal, replayed, checkpoint, writes_steps_needed, crashes>>

(* complete_task, up to its append of TaskCompleted.                       *)
CompleteAndJournal(i, s, result) ==
    /\ unwritten = <<>>
    /\ CompleteTask(i, s, result)
    /\ unwritten' = <<TaskCompleted(i, s, result)>>
    /\ UNCHANGED <<is_root, mode, journal, replayed, checkpoint, writes_steps_needed, crashes>>

(* write_journal returns.                                                  *)
WriteJournal ==
    /\ unwritten # <<>>
    /\ journal' = Append(journal, Head(unwritten))
    /\ unwritten' = Tail(unwritten)
    /\ UNCHANGED <<itemsVars, is_root, mode, replayed, checkpoint, writes_steps_needed, crashes>>

(* maybe_checkpoint, after some task of the tree.                          *)
TakeCheckpoint ==
    /\ initialized
    /\ unwritten = <<>>
    /\ checkpoint' = [taken |-> TRUE, at |-> Len(journal),
                      items |-> [i \in Item |-> ToCheckpoint(items[i])]]
    /\ UNCHANGED <<itemsVars, is_root, mode, journal, replayed, unwritten, writes_steps_needed,
                   crashes>>

(* The orchestrator stops, at work or during a replay: what was in memory  *)
(* is lost.                                                                *)
Crash ==
    /\ mode # "down"
    /\ crashes < MaxCrashes
    /\ crashes' = crashes + 1
    /\ mode' = "down"
    /\ items' = [i \in Item |-> NewItem]
    /\ incomplete_count' = 0
    /\ initialized' = FALSE
    /\ ready' = {}
    /\ notified' = [t \in Task |-> 0]
    /\ unwritten' = <<>>
    /\ UNCHANGED <<flow, is_root, journal, replayed, checkpoint, writes_steps_needed>>

-----------------------------------------------------------------------------
(* Faulty variants, to test the properties: waiters is not computed; what  *)
(* the steps wait on is not restored.                                      *)
FromCheckpointWithoutWaiters(saved) ==
    [needed |-> saved.needed, results |-> saved.results,
     waiting_on |-> saved.waiting_on, waiters |-> [d \in Step |-> {}]]
FromCheckpointWithoutWaits(saved) ==
    [needed |-> saved.needed, results |-> saved.results,
     waiting_on |-> [s \in Step |-> {}], waiters |-> [d \in Step |-> {}]]

(* restore_from_checkpoint computes waiters.                               *)
FromCheckpoint(saved) ==
    [needed |-> saved.needed,
     results |-> saved.results,
     waiting_on |-> saved.waiting_on,
     waiters |-> [d \in Step |-> {w \in Step : d \in saved.waiting_on[w]}]]

(* restore_from_checkpoint, which counts the incomplete items, or the      *)
(* fresh run of restore_from_journal.                                      *)
Restore ==
    /\ mode = "down"
    /\ mode' = "replaying"
    /\ items' = IF checkpoint.taken THEN [i \in Item |-> FromCheckpoint(checkpoint.items[i])]
                ELSE [i \in Item |-> NewItem]
    /\ incomplete_count' = Cardinality({i \in Item : ~IsComplete(items'[i])})
    /\ replayed' = checkpoint.at
    /\ UNCHANGED <<flow, initialized, ready, notified,
                   is_root, journal, unwritten, checkpoint, writes_steps_needed, crashes>>

(* Faulty variant, to test the properties: the event is skipped.           *)
SkipStepsNeeded(event) == UNCHANGED <<items, incomplete_count>>

(* apply_event: StepsNeeded is initialize_item_with_steps, TaskCompleted   *)
(* is complete_task_and_get_ready.                                         *)
ApplyStepsNeeded(event) ==
    LET before == items[event.item]
        after  == AddOrUpdateNeeded(flow[event.item], before, event.steps)
    IN  /\ items' = [items EXCEPT ![event.item] = after]
        /\ incomplete_count' = IF IsComplete(before) /\ ~IsComplete(after)
                               THEN incomplete_count + 1 ELSE incomplete_count

ApplyTaskCompleted(event) ==
    LET before == items[event.item]
        marked == MarkCompleted(before, event.step, event.result)
        after  == AddOrUpdateNeeded(flow[event.item], marked, NewlyUnblocked(before, event.step))
    IN  /\ items' = [items EXCEPT ![event.item] = after]
        /\ incomplete_count' = CountAfterCompletion(before, marked)

(* Faulty variant, to test the properties: the event after the checkpoint  *)
(* is skipped.                                                             *)
ReplaySkippingOne ==
    /\ mode = "replaying" /\ replayed < Len(journal)
    /\ replayed' = replayed + 1
    /\ LET event == journal[replayed + 1] IN
         IF replayed = checkpoint.at /\ checkpoint.taken THEN UNCHANGED <<items, incomplete_count>>
         ELSE \/ event.type = "StepsNeeded" /\ ApplyStepsNeeded(event)
              \/ event.type = "TaskCompleted" /\ ApplyTaskCompleted(event)
    /\ UNCHANGED <<flow, initialized, ready, notified,
                   is_root, mode, journal, unwritten, checkpoint, writes_steps_needed, crashes>>

(* One turn of the loop of replay_events.                                  *)
ReplayEvent ==
    /\ mode = "replaying" /\ replayed < Len(journal)
    /\ replayed' = replayed + 1
    /\ LET event == journal[replayed + 1] IN
         \/ event.type = "StepsNeeded" /\ ApplyStepsNeeded(event)
         \/ event.type = "TaskCompleted" /\ ApplyTaskCompleted(event)
    /\ UNCHANGED <<flow, initialized, ready, notified,
                   is_root, mode, journal, unwritten, checkpoint, writes_steps_needed, crashes>>

(* execute_to_completion does not journal the steps of a recovered subflow *)
(* again if replay saw a StepsNeeded of it, or if it comes from a          *)
(* checkpoint; whether such a subflow counts as recovered depends on       *)
(* whether the checkpoint has its deduplication entry (FlowExecutor).      *)
StepsNeededSeen == \E n \in DOMAIN journal : journal[n].type = "StepsNeeded"

FinishReplay ==
    /\ mode = "replaying" /\ replayed = Len(journal)
    /\ mode' = "up"
    /\ \E listed \in IF checkpoint.taken THEN BOOLEAN ELSE {TRUE} :
         writes_steps_needed' =
           (is_root \/ ~listed \/ (~checkpoint.taken /\ ~StepsNeededSeen))
    /\ UNCHANGED <<itemsVars, is_root, journal, replayed, unwritten, checkpoint, crashes>>

RunNext ==
    \/ Start
    \/ \E i \in Item, s \in Step, result \in FlowResult : CompleteAndJournal(i, s, result)
    \/ WriteJournal
    \/ TakeCheckpoint
    \/ Crash
    \/ Restore
    \/ ReplayEvent
    \/ FinishReplay

RunSpec == RunInit /\ [][RunNext]_vars

-----------------------------------------------------------------------------
RunTypeOK ==
    /\ TypeOK
    /\ is_root \in BOOLEAN /\ mode \in {"up", "replaying", "down"}
    /\ writes_steps_needed \in BOOLEAN
    /\ \A n \in DOMAIN journal : journal[n].type \in {"StepsNeeded", "TaskCompleted"}
    /\ checkpoint.at \in 0..Len(journal) /\ replayed \in 0..Len(journal)
    /\ crashes \in 0..MaxCrashes

(* The results that the first n of some events record of a task.           *)
Completes(event, t) == event.type = "TaskCompleted" /\ <<event.item, event.step>> = t
ResultsIn(events, n, t) == {events[m].result : m \in {k \in 1..n : Completes(events[k], t)}}
ResultOf(t) == items[t[1]].results[t[2]]

(* The results in memory are exactly those in the journal and in what is   *)
(* about to be appended: recovery, from the whole journal or from a        *)
(* checkpoint and the events after it, forgets no result, invents none,    *)
(* and keeps their values.                                                 *)
MemoryMatchesJournal ==
    mode = "up" => \A t \in Task :
        {ResultOf(t)} \ {NotRun} =
            ResultsIn(journal, Len(journal), t) \union ResultsIn(unwritten, Len(unwritten), t)

(* A task completes at most once, over all incarnations of the run: no     *)
(* completed step is executed again after a restart.                       *)
CompletesOnce ==
    \A m, n \in DOMAIN journal :
        /\ m < n
        /\ journal[m].type = "TaskCompleted"
        /\ journal[n].type = "TaskCompleted"
        => <<journal[m].item, journal[m].step>> # <<journal[n].item, journal[n].step>>

(* When the inputs of a flow hold no conditional, every needed step whose  *)
(* input needs nothing more is with the scheduler, whatever crashes and    *)
(* checkpoints came before: recovery leaves no step waiting on a step      *)
(* that has completed.                                                     *)
RecoveryLosesNothing ==
    initialized => \A i \in Item : flow[i] \in UnconditionalInputs =>
        \A s \in items[i].needed \ Completed(items[i]) :
            InputNeeds(flow[i], s, items[i].results) = {} => <<i, s>> \in ready

(* For a flow without conditionals the needed steps are those found at the *)
(* first start, whatever crashes and checkpoints come between.             *)
AllNeeded(f) == Visited(f, NewItem, InitialSteps(f, NewItem))
NeededIsKept ==
    initialized => \A i \in Item :
        flow[i] \in UnconditionalInputs \intersect UnconditionalOutput
            => items[i].needed = AllNeeded(flow[i])

(* This holds of the root of a tree, whose steps are journalled again      *)
(* after every restart, and of a subflow with one item.  With more items a *)
(* crash between their StepsNeeded events leaves the later ones without    *)
(* steps: the first event takes the run from runs_needing_step_updates.    *)
NeededSurvivesRecovery == is_root \/ Cardinality(Item) = 1 => NeededIsKept

-----------------------------------------------------------------------------
(* A run whose orchestrators crash and replay implements one that is never *)
(* interrupted: what the journal holds grows as if results were recorded   *)
(* one by one, each once, for good, and only of steps whose inputs were    *)
(* recorded before.                                                        *)
JournalledResult(t) ==
    IF \E n \in DOMAIN journal : Completes(journal[n], t)
    THEN (CHOOSE v \in FlowResult : \E n \in DOMAIN journal :
                 Completes(journal[n], t) /\ journal[n].result = v)
    ELSE NotRun

Recorded == [i \in Item |-> [s \in Step |-> JournalledResult(<<i, s>>)]]

Uninterrupted == INSTANCE UninterruptedRun WITH recorded <- Recorded

ImplementsUninterruptedRun == Uninterrupted!RunSpec
=============================================================================
