----------------------------- MODULE RunMetadata -----------------------------
(***************************************************************************)
(* The rows that the metadata store keeps for a run and its items, and     *)
(* those who wait for the run to end: the in-memory store                  *)
(* (stepflow-state/src/in_memory.rs), which changes a run under its lock,  *)
(* and the SQL store (stepflow-state-sql/src/sql_state_store.rs), which    *)
(* runs one statement after another; the writes of the executor and of     *)
(* recovery in their order; cancel_run; and wait_for_completion over the   *)
(* broadcast channel of RunCompletionNotifier.                             *)
(*                                                                         *)
(* How steps come to have results is FlowExecutor's.  Here a run has a     *)
(* fate: the results of its items and the status that is journalled.       *)
(***************************************************************************)
EXTENDS Naturals, Sequences, FiniteSets

CONSTANTS
    Backend,        \* the implementations to consider
    Run,
    RootOf,         \* the root of the execution tree of a run
    Items,          \* the items of a run
    Fate,           \* of a run, the possible [results, status]
    Waiter,         \* calls of wait_for_completion
    None,
    Capacity,       \* of the broadcast channel (256)
    MaxCancels,     \* bounds the calls of cancel_run
    MaxFaults       \* bounds crashes and failed statements

ASSUME MetadataAssumption ==
    /\ Backend \subseteq {"memory", "sql"}
    /\ RootOf \in [Run -> Run] /\ \A r \in Run : RootOf[RootOf[r]] = RootOf[r]
    /\ \A r \in Run : IsFiniteSet(Items[r])
    /\ Capacity \in Nat \ {0}
    /\ MaxCancels \in Nat /\ MaxFaults \in Nat

VARIABLES
    backend,
    fate,           \* what each run comes to
    journal,        \* of a run: "none", "created" or "ended"
    status,         \* of a run: "none" (no row) or its status
    result,         \* of an item of a run: "none" (no row), "running", or its result
    writer,         \* where the executor or the recovery of a run is
    waiters,        \* where each wait is
    cancels,        \* runs whose cancellation is still to be announced
    excused,        \* history: runs of trees that were cancelled, not created
                    \*          wholly, or had a statement that failed
    faults

store == <<status, result>>
vars == <<backend, fate, journal, store, writer, waiters, cancels, excused, faults>>

Terminal == {"Completed", "Failed", "Cancelled"}
IsRoot(r) == RootOf[r] = r
Tree(r) == {q \in Run : RootOf[q] = RootOf[r]}
Recorded == {"completed", "failed"}

(* execute_to_completion ends a run with a result for every item.          *)
ASSUME FateAssumption ==
    \A r \in Run : Fate[r] \subseteq [results : [Items[r] -> Recorded],
                                      status : {"Completed", "Failed"}]

(* recovering: what the run does is part of a recovery, whose errors are   *)
(* not just logged.                                                        *)
Absent == [at |-> "none", todo |-> {}, recovering |-> FALSE]
NotWaiting == [at |-> "idle", run |-> None, unread |-> <<>>, lagged |-> FALSE, got |-> {}]

Init ==
    /\ backend \in Backend
    /\ fate \in [Run -> UNION {Fate[r] : r \in Run}] /\ \A r \in Run : fate[r] \in Fate[r]
    /\ journal = [r \in Run |-> "none"]
    /\ status = [r \in Run |-> "none"]
    /\ result = [r \in Run |-> [i \in Items[r] |-> "none"]]
    /\ writer = [r \in Run |-> Absent]
    /\ waiters = [w \in Waiter |-> NotWaiting]
    /\ cancels = {}
    /\ excused = {}
    /\ faults = 0

GoTo(r, at, todo) == writer' = [writer EXCEPT ![r].at = at, ![r].todo = todo]
Fault == faults < MaxFaults /\ faults' = faults + 1
Excuse(r) == excused' = excused \union Tree(r)

-----------------------------------------------------------------------------
(* RunCompletionNotifier: a receiver that is behind by more than the       *)
(* capacity has lost the oldest messages.                                  *)
Listening(w) == waiters[w].at \in {"subscribed", "waiting"}

Notify(r) ==
    waiters' = [w \in Waiter |->
        IF ~Listening(w) THEN waiters[w]
        ELSE IF Len(waiters[w].unread) < Capacity
        THEN [waiters[w] EXCEPT !.unread = Append(@, r)]
        ELSE [waiters[w] EXCEPT !.unread = Append(Tail(@), r), !.lagged = TRUE]]

-----------------------------------------------------------------------------
(* create_run.  The journal says first that the run exists.                *)
MayCreate(r) ==
    writer[r].at = "none" /\ journal[r] = "none"
        /\ (IsRoot(r) \/ writer[RootOf[r]].at = "running")

JournalCreated(r) ==
    /\ MayCreate(r)
    /\ journal' = [journal EXCEPT ![r] = "created"]
    /\ GoTo(r, "creating", {})
    /\ UNCHANGED <<backend, fate, store, waiters, cancels, excused, faults>>

(* A run whose rows are there goes on; in recovery with the replay.        *)
Created(r) ==
    IF ~writer[r].recovering THEN GoTo(r, "running", {})
    ELSE IF journal[r] = "ended" THEN GoTo(r, "recording", Items[r])
    ELSE GoTo(r, "known", {})

(* Existing rows are kept: or_insert_with, ON CONFLICT DO NOTHING.         *)
InsertRun(r) ==
    /\ writer[r].at = "creating"
    /\ status' = [status EXCEPT ![r] = IF @ = "none" THEN "Running" ELSE @]
    /\ IF backend = "memory"
       THEN result' = [result EXCEPT ![r] = [i \in Items[r] |-> "running"]] /\ Created(r)
       ELSE GoTo(r, "inserting", Items[r]) /\ UNCHANGED result
    /\ UNCHANGED <<backend, fate, journal, waiters, cancels, excused, faults>>

(* SQL: the items follow one by one, without a transaction.                *)
InsertItem(r) ==
    /\ writer[r].at = "inserting"
    /\ IF writer[r].todo = {} THEN Created(r) /\ UNCHANGED result
       ELSE \E i \in writer[r].todo :
              /\ result' = [result EXCEPT ![r][i] = IF @ = "none" THEN "running" ELSE @]
              /\ GoTo(r, "inserting", writer[r].todo \ {i})
    /\ UNCHANGED <<backend, fate, journal, status, waiters, cancels, excused, faults>>

(* A statement of it fails: the submission of a root does, a subflow goes  *)
(* on without its rows.                                                    *)
CreationFails(r) ==
    /\ backend = "sql"
    /\ writer[r].at \in {"creating", "inserting"}
    /\ Fault /\ Excuse(r)
    /\ IF IsRoot(r) THEN GoTo(r, "none", {}) ELSE Created(r)
    /\ UNCHANGED <<backend, fate, journal, store, waiters, cancels>>

-----------------------------------------------------------------------------
(* The end of a run.  A subflow is journalled as completed before its      *)
(* results are recorded, a root after (execute_to_completion); both are    *)
(* journalled before update_run_status.                                    *)
Execute(r) ==
    /\ writer[r].at = "running"
    /\ IsRoot(r) => \A q \in Tree(r) \ {r} : writer[q].at \in {"none", "over"}
    /\ GoTo(r, IF IsRoot(r) THEN "recording" ELSE "journalling", Items[r])
    /\ UNCHANGED <<backend, fate, journal, store, waiters, cancels, excused, faults>>

JournalCompleted(r) ==
    /\ writer[r].at = "journalling"
    /\ journal' = [journal EXCEPT ![r] = "ended"]
    /\ GoTo(r, IF writer[r].todo = {} THEN "status" ELSE "recording", writer[r].todo)
    /\ UNCHANGED <<backend, fate, store, waiters, cancels, excused, faults>>

(* After the last item: the status if the journal has it already.          *)
Onward(r, todo) ==
    GoTo(r, IF todo # {} THEN "recording"
            ELSE IF journal[r] = "ended" THEN "status" ELSE "journalling", todo)

FailedAny(results) == \E i \in DOMAIN results : results[i] = "failed"
ByItems(results) == IF FailedAny(results) THEN "Failed" ELSE "Completed"
AllRecorded(results) == \A i \in DOMAIN results : results[i] # "running"

(* record_item_result, in memory.                                          *)
RecordInMemory(r, i) ==
    LET results == [result[r] EXCEPT ![i] = fate[r].results[i]] IN
    /\ backend = "memory"
    /\ writer[r].at = "recording" /\ i \in writer[r].todo
    /\ result' = [result EXCEPT ![r] = results]
    /\ IF AllRecorded(results)
       THEN /\ status' = [status EXCEPT ![r] = ByItems(results)]
            /\ GoTo(r, "notifying", writer[r].todo \ {i})
       ELSE UNCHANGED status /\ Onward(r, writer[r].todo \ {i})
    /\ UNCHANGED <<backend, fate, journal, waiters, cancels, excused, faults>>

(* In SQL: update the item, ...                                            *)
Missing(r) == {i \in Items[r] : result[r][i] = "none"}

UpdateItem(r, i) ==
    /\ backend = "sql"
    /\ writer[r].at = "recording" /\ i \in writer[r].todo \ Missing(r)
    /\ result' = [result EXCEPT ![r][i] = fate[r].results[i]]
    /\ GoTo(r, "counting", writer[r].todo \ {i})
    /\ UNCHANGED <<backend, fate, journal, status, waiters, cancels, excused, faults>>

(* Faulty variant, to test the properties: one item is left out.           *)
CountItemsButOne(r) ==
    LET open == {i \in Items[r] : result[r][i] = "running"} IN
    /\ writer[r].at = "counting"
    /\ IF Cardinality(open) <= 1 THEN GoTo(r, "completing", writer[r].todo)
       ELSE Onward(r, writer[r].todo)
    /\ UNCHANGED <<backend, fate, journal, store, waiters, cancels, excused, faults>>

(* ... count its rows, ...                                                 *)
CountItems(r) ==
    /\ writer[r].at = "counting"
    /\ IF AllRecorded(result[r]) THEN GoTo(r, "completing", writer[r].todo)
       ELSE Onward(r, writer[r].todo)
    /\ UNCHANGED <<backend, fate, journal, store, waiters, cancels, excused, faults>>

(* ... and complete the run.                                               *)
CompleteRun(r) ==
    /\ writer[r].at = "completing"
    /\ status' = [status EXCEPT ![r] = ByItems(result[r])]
    /\ GoTo(r, "notifying", writer[r].todo)
    /\ UNCHANGED <<backend, fate, journal, result, waiters, cancels, excused, faults>>

NotifyRecorded(r) ==
    /\ writer[r].at = "notifying"
    /\ Notify(r)
    /\ Onward(r, writer[r].todo)
    /\ UNCHANGED <<backend, fate, journal, store, cancels, excused, faults>>

(* update_run_status, which overwrites whatever is there.                  *)
UpdateStatus(r) ==
    /\ writer[r].at = "status"
    /\ status' = [status EXCEPT ![r] = IF @ = "none" THEN @ ELSE fate[r].status]
    /\ GoTo(r, "announcing", {})
    /\ UNCHANGED <<backend, fate, journal, result, waiters, cancels, excused, faults>>

NotifyStatus(r) ==
    /\ writer[r].at = "announcing"
    /\ Notify(r)
    /\ GoTo(r, "over", {})
    /\ UNCHANGED <<backend, fate, journal, store, cancels, excused, faults>>

(* A statement of record_item_result fails, or finds no row to update: an  *)
(* executor logs that and goes on with the next item; a recovery gives up, *)
(* and the root is failed.                                                 *)
GiveUp(r) ==
    writer' = [q \in Run |-> 
        IF q \notin Tree(r) THEN writer[q]
        ELSE [Absent EXCEPT !.at = IF q = RootOf[r] THEN "failing" ELSE "abandoned"]]

NotRecorded(r, i) ==
    IF writer[r].recovering THEN GiveUp(r) ELSE Onward(r, writer[r].todo \ {i})

FindNoItem(r, i) ==
    /\ backend = "sql"
    /\ writer[r].at = "recording" /\ i \in writer[r].todo \intersect Missing(r)
    /\ NotRecorded(r, i)
    /\ UNCHANGED <<backend, fate, journal, store, waiters, cancels, excused, faults>>

RecordFails(r, i) ==
    /\ backend = "sql"
    /\ writer[r].at = "recording" /\ i \in writer[r].todo
    /\ Fault /\ Excuse(r)
    /\ NotRecorded(r, i)
    /\ UNCHANGED <<backend, fate, journal, store, waiters, cancels>>

FailRecovery(r) ==
    /\ writer[r].at = "failing"
    /\ status' = [status EXCEPT ![r] = "Failed"]
    /\ Notify(r)
    /\ GoTo(r, "abandoned", {})
    /\ UNCHANGED <<backend, fate, journal, result, cancels, excused, faults>>

(* cancel_run: only the status changes; the executor goes on.              *)
Cancel(r) ==
    /\ status[r] # "none"
    /\ r \notin cancels
    /\ Cardinality(excused) < MaxCancels
    /\ status' = [status EXCEPT ![r] = "Cancelled"]
    /\ cancels' = cancels \union {r}
    /\ Excuse(r)
    /\ UNCHANGED <<backend, fate, journal, result, writer, waiters, faults>>

NotifyCancelled(r) ==
    /\ r \in cancels
    /\ Notify(r)
    /\ cancels' = cancels \ {r}
    /\ UNCHANGED <<backend, fate, journal, store, writer, excused, faults>>

-----------------------------------------------------------------------------
(* A crash, and recover_execution_tree for a root that is listed as        *)
(* Running.  What the metadata knows of the subflows is read once.         *)
Crash ==
    /\ backend = "sql"
    /\ Fault
    /\ writer' = [r \in Run |-> Absent]
    /\ waiters' = [w \in Waiter |-> NotWaiting]
    /\ cancels' = {}
    /\ excused' = excused \union {r \in Run : \E q \in Tree(r) :
                     writer[q].at \in {"creating", "inserting"}}
    /\ UNCHANGED <<backend, fate, journal, store>>

(* Faulty variant, to test the properties: the row is taken as it is.      *)
ReplayedWithoutSync(r) ==
    CASE journal[r] = "none" -> Absent
      [] journal[r] # "none" /\ IsRoot(r) -> [at |-> "replaying", todo |-> {}, recovering |-> TRUE]
      [] journal[r] # "none" /\ ~IsRoot(r) /\ status[r] = "none" ->
           [at |-> "creating", todo |-> {}, recovering |-> TRUE]
      [] journal[r] = "ended" /\ ~IsRoot(r) /\ status[r] # "none" ->
           [at |-> "over", todo |-> {}, recovering |-> FALSE]
      [] OTHER -> [at |-> "known", todo |-> {}, recovering |-> TRUE]

Replayed(r) ==
    CASE journal[r] = "none" -> Absent
      [] journal[r] # "none" /\ IsRoot(r) -> [at |-> "replaying", todo |-> {}, recovering |-> TRUE]
      [] journal[r] # "none" /\ ~IsRoot(r) /\ status[r] = "none" ->
           [at |-> "creating", todo |-> {}, recovering |-> TRUE]
      [] journal[r] = "ended" /\ ~IsRoot(r) /\ status[r] \in {"Completed", "Failed"} ->
           [at |-> "over", todo |-> {}, recovering |-> FALSE]
      [] journal[r] = "ended" /\ ~IsRoot(r) /\ status[r] \in {"Running", "Cancelled"} ->
           [at |-> "recording", todo |-> Items[r], recovering |-> TRUE]
      [] OTHER -> [at |-> "known", todo |-> {}, recovering |-> TRUE]

Recover(r) ==
    /\ IsRoot(r) /\ status[r] = "Running"
    /\ \A q \in Tree(r) : writer[q].at = "none"
    /\ writer' = [q \in Run |-> IF q \in Tree(r) THEN Replayed(q) ELSE writer[q]]
    /\ UNCHANGED <<backend, fate, journal, store, waiters, cancels, excused, faults>>

(* After the replay, a root that had ended is recorded; else an executor   *)
(* is spawned for the tree.                                                *)
FinishReplay(r) ==
    /\ writer[r].at = "replaying"
    /\ \A q \in Tree(r) \ {r} : writer[q].at \in {"none", "known", "over"}
    /\ IF journal[r] = "ended" THEN GoTo(r, "recording", Items[r])
       ELSE writer' = [q \in Run |->
              IF q = r \/ (q \in Tree(r) /\ writer[q].at = "known")
              THEN [at |-> "running", todo |-> {}, recovering |-> FALSE] ELSE writer[q]]
    /\ UNCHANGED <<backend, fate, journal, store, waiters, cancels, excused, faults>>

-----------------------------------------------------------------------------
(* wait_for_completion.  It subscribes before it reads the status.         *)
SetWaiter(w, s) == waiters' = [waiters EXCEPT ![w] = s]

Subscribe(w, r) ==
    /\ waiters[w].at = "idle"
    /\ SetWaiter(w, [NotWaiting EXCEPT !.at = "subscribed", !.run = r])
    /\ UNCHANGED <<backend, fate, journal, store, writer, cancels, excused, faults>>

(* What the row says: there is none, it is over, or else wait or read it   *)
(* again.                                                                  *)
Seen(w, otherwise) ==
    LET s == status[waiters[w].run] IN
    IF s = "none" THEN "notfound" ELSE IF s \in Terminal THEN "ended" ELSE otherwise

ReadStatus(w) ==
    /\ waiters[w].at = "subscribed"
    /\ SetWaiter(w, [waiters[w] EXCEPT !.at = Seen(w, "waiting")])
    /\ UNCHANGED <<backend, fate, journal, store, writer, cancels, excused, faults>>

(* Faulty variant, to test the properties: a lagging receiver goes on.     *)
ReceiveDespiteLag(w) ==
    /\ waiters[w].at = "waiting" /\ waiters[w].unread # <<>>
    /\ SetWaiter(w, IF Head(waiters[w].unread) = waiters[w].run
                    THEN [waiters[w] EXCEPT !.at = "polling", !.unread = <<>>, !.lagged = FALSE]
                    ELSE [waiters[w] EXCEPT !.unread = Tail(@), !.lagged = FALSE])
    /\ UNCHANGED <<backend, fate, journal, store, writer, cancels, excused, faults>>

(* Its run, or messages lost: read the row until it says so.               *)
Receive(w) ==
    /\ waiters[w].at = "waiting" /\ waiters[w].unread # <<>>
    /\ SetWaiter(w, IF waiters[w].lagged \/ Head(waiters[w].unread) = waiters[w].run
                    THEN [waiters[w] EXCEPT !.at = "polling", !.unread = <<>>, !.lagged = FALSE]
                    ELSE [waiters[w] EXCEPT !.unread = Tail(@)])
    /\ UNCHANGED <<backend, fate, journal, store, writer, cancels, excused, faults>>

Poll(w) ==
    /\ waiters[w].at = "polling"
    /\ Seen(w, "polling") # "polling"
    /\ SetWaiter(w, [waiters[w] EXCEPT !.at = Seen(w, "polling")])
    /\ UNCHANGED <<backend, fate, journal, store, writer, cancels, excused, faults>>

(* get_item_results, once the wait is over.                                *)
GetResults(w) ==
    LET results == result[waiters[w].run] IN
    /\ waiters[w].at = "ended"
    /\ SetWaiter(w, [waiters[w] EXCEPT !.at = "done",
                                       !.got = {i \in DOMAIN results : results[i] \in Recorded}])
    /\ UNCHANGED <<backend, fate, journal, store, writer, cancels, excused, faults>>

-----------------------------------------------------------------------------
WriteRun(r) ==
    \/ InsertRun(r) \/ InsertItem(r)
    \/ Execute(r) \/ JournalCompleted(r)
    \/ \E i \in Items[r] : RecordInMemory(r, i) \/ UpdateItem(r, i) \/ FindNoItem(r, i)
    \/ CountItems(r) \/ CompleteRun(r) \/ NotifyRecorded(r)
    \/ UpdateStatus(r) \/ NotifyStatus(r)
    \/ FailRecovery(r) \/ Recover(r) \/ FinishReplay(r)

Wait(w) == ReadStatus(w) \/ Receive(w) \/ Poll(w) \/ GetResults(w)

Next ==
    \/ \E r \in Run :
         \/ JournalCreated(r) \/ WriteRun(r)
         \/ CreationFails(r) \/ \E i \in Items[r] : RecordFails(r, i)
         \/ Cancel(r) \/ NotifyCancelled(r)
    \/ Crash
    \/ \E w \in Waiter : Wait(w) \/ \E r \in Run : Subscribe(w, r)

Fairness ==
    /\ \A r \in Run : WF_vars(WriteRun(r)) /\ WF_vars(NotifyCancelled(r))
    /\ \A w \in Waiter : WF_vars(Wait(w))

Spec == Init /\ [][Next]_vars /\ Fairness

-----------------------------------------------------------------------------
(* A wait that returns finds the results of all items (the parent of a     *)
(* subflow and create_run read them next), unless the run was cancelled or *)
(* a statement did not get through.                                        *)
WaitersGetAllResults ==
    \A w \in Waiter :
        waiters[w].at = "done" /\ waiters[w].run \notin excused
            => waiters[w].got = Items[waiters[w].run]

(* When its executor or its recovery is through with a run, the metadata   *)
(* has the results that the journal leads to, and without a crash between  *)
(* also the status.                                                        *)
OverMeansRecorded ==
    \A r \in Run \ excused : writer[r].at = "over" =>
        /\ result[r] = fate[r].results
        /\ status[r] \in {"Completed", "Failed"}
        /\ faults = 0 => status[r] = fate[r].status

(* Each wait for a run that is being executed or recovered comes to an     *)
(* end, however many completions of other runs fill the channel.           *)
(* Excused runs are excepted, among them those of cancelled trees.         *)
IsWaiting(w) == waiters[w].at \in {"subscribed", "waiting", "polling", "ended"}

EveryWaitEnds ==
    \A w \in Waiter : \A r \in Run :
        IsWaiting(w) /\ waiters[w].run = r ~> ~IsWaiting(w) \/ r \in excused
=============================================================================
