---------------------------- MODULE PendingTasks ----------------------------
(***************************************************************************)
(* The life of one task id between the executor and the workers: the       *)
(* oneshot channel of TaskRegistry, the entry and the timeouts of          *)
(* PendingTasks, the pull queue, and workers that heartbeat, complete, and *)
(* get lost (stepflow-grpc/src/pending_tasks.rs, pull_task_queue.rs,       *)
(* queue_plugin.rs, services/tasks_service.rs; stepflow-plugin/src/        *)
(* task_registry.rs).                                                      *)
(*                                                                         *)
(* A retry uses the same task id again, so a worker, a timer or a scan of  *)
(* an earlier attempt can meet a later one.  Each access to a concurrent   *)
(* map is one action.  Time is abstracted: a timer fires at any moment     *)
(* after it was set, and timers fire in the order they were set.           *)
(***************************************************************************)
EXTENDS Integers, FiniteSetsExt, SequencesExt

CONSTANTS
    Worker,
    MaxAttempts,        \* attempts the retry budget allows
    ExecutionCap        \* whether an execution_timeout is configured

ASSUME ConstantsAssumption ==
    /\ MaxAttempts \in Nat \ {0}
    /\ ExecutionCap \in BOOLEAN

VARIABLES
    executor,       \* where the step runner is with the task
    attempt,        \* the attempt it is at
    registered,     \* TaskRegistry holds the sender of the channel
    answer,         \* what was sent on the channel
    entry,          \* the entry of PendingTasks
    seen,           \* the task is in the HeartbeatTracker
    deadlines,      \* attempts whose queue timeout has still to fire
    queue,          \* PullTaskQueue: attempts to be assigned
    worker,         \* the pull loop of a worker and what it works on
    scanner         \* where the scanner task is

vars == <<executor, attempt, registered, answer, entry, seen, deadlines, queue,
          worker, scanner>>

None == "none"
Free == [state |-> "polling", result |-> None]
ScannerIdle == [step |-> "idle", victim |-> None, removed |-> FALSE]
NoEntry == [phase |-> None, worker |-> None, young |-> FALSE]

Init ==
    /\ executor = "idle"
    /\ attempt = 0
    /\ registered = FALSE
    /\ answer = None
    /\ entry = NoEntry
    /\ seen = FALSE
    /\ deadlines = {}
    /\ queue = <<>>
    /\ worker = [w \in Worker |-> Free]
    /\ scanner = ScannerIdle

Queued == entry.phase = "queued"
Executing == entry.phase = "executing"
Tracked == Queued \/ Executing

(* Faulty variant, to test the properties: the sender is left behind.      *)
SendAndKeep(result) ==
    /\ answer' = IF registered THEN result ELSE answer
    /\ UNCHANGED registered

(* TaskRegistry::complete.                                                 *)
Deliver(result) ==
    IF registered THEN registered' = FALSE /\ answer' = result
    ELSE UNCHANGED <<registered, answer>>

-----------------------------------------------------------------------------
(* The step runner and start_task.                                         *)
Register ==
    /\ executor = "idle" /\ attempt < MaxAttempts
    /\ executor' = "tracking"
    /\ attempt' = attempt + 1
    /\ registered' = TRUE
    /\ answer' = None
    /\ UNCHANGED <<entry, seen, deadlines, queue, worker, scanner>>

NewEntry == [phase |-> "queued", worker |-> None, young |-> TRUE]

(* Faulty variant, to test the properties: no timer is set.                *)
TrackWithoutDeadline ==
    /\ executor = "tracking"
    /\ executor' = "sending"
    /\ entry' = NewEntry
    /\ UNCHANGED <<attempt, registered, answer, seen, deadlines, queue, worker, scanner>>

Track ==
    /\ executor = "tracking"
    /\ executor' = "sending"
    /\ entry' = NewEntry
    /\ deadlines' = deadlines \union {attempt}
    /\ UNCHANGED <<attempt, registered, answer, seen, queue, worker, scanner>>

(* push_task: notify_waiters wakes only the loops that are parked.         *)
Send ==
    /\ executor = "sending"
    /\ executor' = "waiting"
    /\ queue' = Append(queue, attempt)
    /\ worker' = [w \in Worker |-> IF worker[w].state = "parked" THEN Free ELSE worker[w]]
    /\ UNCHANGED <<attempt, registered, answer, entry, seen, deadlines, scanner>>

AfterFailure == IF attempt < MaxAttempts THEN "idle" ELSE "done"

SendFails ==
    /\ executor = "sending"
    /\ executor' = AfterFailure
    /\ registered' = FALSE /\ answer' = None
    /\ entry' = NoEntry /\ seen' = FALSE
    /\ UNCHANGED <<attempt, deadlines, queue, worker, scanner>>

(* rx.await, and the retry decision of the executor.                       *)
Receive ==
    /\ executor = "waiting" /\ answer # None
    /\ executor' = IF answer = "success" THEN "done" ELSE AfterFailure
    /\ answer' = None
    /\ UNCHANGED <<attempt, registered, entry, seen, deadlines, queue, worker, scanner>>

-----------------------------------------------------------------------------
(* The pull loop of a worker's stream: pop, or wait to be notified.        *)
Pull(w) ==
    /\ worker[w].state = "polling" /\ queue # <<>>
    /\ queue' = Tail(queue)
    /\ worker' = [worker EXCEPT ![w].state = "pulled"]
    /\ UNCHANGED <<executor, attempt, registered, answer, entry, seen, deadlines, scanner>>

FindEmpty(w) ==
    /\ worker[w].state = "polling" /\ queue = <<>>
    /\ worker' = [worker EXCEPT ![w].state = "parking"]
    /\ UNCHANGED <<executor, attempt, registered, answer, entry, seen, deadlines, queue,
                   scanner>>

Park(w) ==
    /\ worker[w].state = "parking"
    /\ worker' = [worker EXCEPT ![w].state = "parked"]
    /\ UNCHANGED <<executor, attempt, registered, answer, entry, seen, deadlines, queue,
                   scanner>>

HasTask(w) == worker[w].state \in {"pulled", "executing"}
Drop(w) == worker' = [worker EXCEPT ![w] = Free]
Work(w) == worker' = [worker EXCEPT ![w].state = "executing"]

(* heartbeat: the first one claims the entry for the worker.               *)
Accepts(w) == Queued \/ (Executing /\ entry.worker = w)

Claimed(w) == IF Queued THEN [entry EXCEPT !.phase = "executing", !.worker = w] ELSE entry

HeartbeatAccepted(w) ==
    /\ HasTask(w) /\ Accepts(w)
    /\ entry' = Claimed(w)
    /\ seen' = TRUE
    /\ Work(w)
    /\ UNCHANGED <<executor, attempt, registered, answer, deadlines, queue, scanner>>

(* AlreadyClaimed: should_abort.                                           *)
HeartbeatRefused(w) ==
    /\ HasTask(w) /\ Executing /\ entry.worker # w
    /\ Drop(w)
    /\ UNCHANGED <<executor, attempt, registered, answer, entry, seen, deadlines, queue,
                   scanner>>

(* NotFound: the worker gives up, or works on to deliver its result.       *)
HeartbeatUnknown(w) ==
    /\ HasTask(w) /\ ~Tracked
    /\ Drop(w) \/ Work(w)
    /\ UNCHANGED <<executor, attempt, registered, answer, entry, seen, deadlines, queue,
                   scanner>>

(* complete: the entry, the mark, then the channel.                        *)
CompleteEntry(w, result) ==
    /\ HasTask(w)
    /\ entry' = NoEntry
    /\ worker' = [worker EXCEPT ![w] = [state |-> "clearing", result |-> result]]
    /\ UNCHANGED <<executor, attempt, registered, answer, seen, deadlines, queue, scanner>>

CompleteMark(w) ==
    /\ worker[w].state = "clearing"
    /\ seen' = FALSE
    /\ worker' = [worker EXCEPT ![w].state = "completing"]
    /\ UNCHANGED <<executor, attempt, registered, answer, entry, deadlines, queue, scanner>>

(* The worker calls again when it does not get the response.               *)
CompleteChannel(w) ==
    /\ worker[w].state = "completing"
    /\ Deliver(worker[w].result)
    /\ Drop(w) \/ Work(w)
    /\ UNCHANGED <<executor, attempt, entry, seen, deadlines, queue, scanner>>

(* A worker dies or disconnects with its task; another takes its place.    *)
LoseWorker(w) ==
    /\ HasTask(w)
    /\ Drop(w)
    /\ UNCHANGED <<executor, attempt, registered, answer, entry, seen, deadlines, queue,
                   scanner>>

-----------------------------------------------------------------------------
(* scan_heartbeats: collect, reset the tracker, then time out.             *)
Victims ==
    IF ~Executing THEN {None}
    ELSE (IF ExecutionCap THEN {"execution"} ELSE {})
           \union {IF entry.young \/ seen THEN None ELSE "heartbeat"}

Collect ==
    /\ scanner.step = "idle"
    /\ \E victim \in Victims :
        scanner' = [scanner EXCEPT !.step = "reset", !.victim = victim]
    /\ entry' = [entry EXCEPT !.young = @ /\ ~Executing]
    /\ UNCHANGED <<executor, attempt, registered, answer, seen, deadlines, queue, worker>>

ResetTracker ==
    /\ scanner.step = "reset"
    /\ seen' = FALSE
    /\ scanner' = IF scanner.victim = None THEN ScannerIdle
                  ELSE [scanner EXCEPT !.step = "remove"]
    /\ UNCHANGED <<executor, attempt, registered, answer, entry, deadlines, queue, worker>>

(* A timer of the DelayQueue fires: timeout_task for Queue.                *)
DeadlineFires ==
    /\ scanner.step = "idle" /\ deadlines # {}
    /\ deadlines' = deadlines \ {Min(deadlines)}
    /\ scanner' = [scanner EXCEPT !.step = "remove", !.victim = "queue"]
    /\ UNCHANGED <<executor, attempt, registered, answer, entry, seen, queue, worker>>

(* timeout_task: the entry of a task that waits in the queue too long only *)
(* if it still does, that of a victim of the scan whichever it is by now;  *)
(* then the mark in any case; then the answer, if there was an entry.      *)
Expired == IF scanner.victim = "queue" THEN Queued ELSE Tracked

RemoveEntry ==
    /\ scanner.step = "remove"
    /\ entry' = IF Expired THEN NoEntry ELSE entry
    /\ scanner' = [scanner EXCEPT !.step = "clear", !.removed = Expired]
    /\ UNCHANGED <<executor, attempt, registered, answer, seen, deadlines, queue, worker>>

ClearMark ==
    /\ scanner.step = "clear"
    /\ seen' = FALSE
    /\ scanner' = IF scanner.removed THEN [scanner EXCEPT !.step = "deliver"] ELSE ScannerIdle
    /\ UNCHANGED <<executor, attempt, registered, answer, entry, deadlines, queue, worker>>

(* Faulty variant, to test the properties: the task just disappears.       *)
DropTimeout ==
    /\ scanner.step = "deliver"
    /\ scanner' = ScannerIdle
    /\ UNCHANGED <<executor, attempt, registered, answer, entry, seen, deadlines, queue,
                   worker>>

DeliverTimeout ==
    /\ scanner.step = "deliver"
    /\ Deliver("timeout")
    /\ scanner' = ScannerIdle
    /\ UNCHANGED <<executor, attempt, entry, seen, deadlines, queue, worker>>

-----------------------------------------------------------------------------
Runner == Register \/ Track \/ Send \/ SendFails \/ Receive
Scan == Collect \/ ResetTracker \/ RemoveEntry \/ ClearMark \/ DeliverTimeout
Heartbeat(w) == HeartbeatAccepted(w) \/ HeartbeatRefused(w) \/ HeartbeatUnknown(w)
WorkerStep(w) ==
    \/ Pull(w) \/ FindEmpty(w) \/ Park(w) \/ Heartbeat(w)
    \/ \E result \in {"success", "failure"} : CompleteEntry(w, result)
    \/ CompleteMark(w) \/ CompleteChannel(w) \/ LoseWorker(w)

Next == Runner \/ Scan \/ DeadlineFires \/ \E w \in Worker : WorkerStep(w)

(* The orchestrator runs its own steps: the runner, the scanner, whose     *)
(* select! is fair to its timers, and the calls it has accepted.  Workers  *)
(* promise nothing.                                                        *)
Spec ==
    /\ Init /\ [][Next]_vars
    /\ WF_vars(Runner)
    /\ WF_vars(Scan)
    /\ SF_vars(DeadlineFires)
    /\ \A w \in Worker : WF_vars(CompleteMark(w) \/ CompleteChannel(w))

-----------------------------------------------------------------------------
TypeOK ==
    /\ executor \in {"idle", "tracking", "sending", "waiting", "done"}
    /\ attempt \in 0..MaxAttempts
    /\ registered \in BOOLEAN /\ seen \in BOOLEAN
    /\ answer \in {None, "success", "failure", "timeout"}
    /\ entry.phase \in {None, "queued", "executing"}
    /\ IF Executing THEN entry.worker \in Worker ELSE entry.worker = None
    /\ deadlines \subseteq 1..attempt
    /\ scanner.step \in {"idle", "reset", "remove", "clear", "deliver"}
    /\ scanner.victim \in {None, "heartbeat", "execution", "queue"}
    /\ \A w \in Worker : worker[w].state \in
            {"polling", "parking", "parked", "pulled", "executing", "clearing", "completing"}

(* A task is never registered while its previous attempt still is, which   *)
(* would panic ("previous waiter will hang").                              *)
NeverRegisteredTwice == executor \in {"idle", "done"} => ~registered

(* An executor that waits and has no answer is watched - its task executes *)
(* and is scanned, or is queued and a timer is running or being handled -  *)
(* or somebody who removed its entry is about to answer: no order of late  *)
(* completions, stale timers and retries leaves it waiting for nothing.    *)
Watched ==
    \/ Executing
    \/ Queued /\ \/ attempt \in deadlines
                 \/ scanner.step = "remove" /\ scanner.victim = "queue"
AboutToAnswer ==
    \/ scanner.removed
    \/ \E w \in Worker : worker[w].state \in {"clearing", "completing"}
WaitingIsWatched ==
    executor = "waiting" /\ answer = None => registered /\ (Watched \/ AboutToAnswer)

(* Whatever workers do, unless one goes on with heartbeats for ever, each  *)
(* attempt is answered: lost wakeups, lost workers and stale completions   *)
(* delay a task but never strand it.                                       *)
EveryAttemptIsAnswered ==
    \/ []<><<\E w \in Worker : HeartbeatAccepted(w)>>_vars
    \/ executor = "waiting" ~> executor # "waiting"
=============================================================================
