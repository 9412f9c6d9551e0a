------------------------- MODULE FlowExecutorProofs -------------------------
(***************************************************************************)
(* What the executor of a tree keeps across crashes, recoveries, retries   *)
(* and checkpoints, for any steps, dependencies, limits and crashes: types,*)
(* that memory, journal and checkpoint agree on what is completed, how     *)
(* often it was attempted and which worker may answer, that a step gets no *)
(* second subflow but by a retry or after a checkpoint, and that all this  *)
(* implements an execution tree without crashes or retries.                *)
(***************************************************************************)
EXTENDS FlowExecutor, TLAPS, FiniteSetTheorems, SequenceTheorems

LEMMA OpCases ==
    ASSUME NEW h \in Op
    PROVE  /\ h.op = "journal" => h.event \in Event
           /\ h.op \in {"create", "initialize", "evict"} => h.run \in Run
           /\ h.op = "record" => h.run \in Run /\ h.result \in {"ok", "error"}
           /\ h.op = "status" => h.run \in Run /\ h.status \in Terminal
           /\ h.op = "spawn" => h.tasks \in SUBSET Task
           /\ h.op = "acknowledge" => h.request \in Request /\ h.run \in SubRun
BY DEF Op

LEMMA EventCases ==
    ASSUME NEW e \in Event
    PROVE  /\ e.type \in {"SubRunCreated", "StepsNeeded", "TasksStarted", "TaskCompleted", "RunCompleted"}
           /\ e.type = "SubRunCreated" => e.run \in SubRun /\ e.step \in RootStep
           /\ e.type = "StepsNeeded" => e.run \in Run
           /\ e.type = "TasksStarted" => /\ e.tasks \in SUBSET Task
                                         /\ e.attempts \in [Task -> Nat] /\ e.ids \in [Task -> Nat]
           /\ e.type = "TaskCompleted" => /\ e.task \in Task
                                          /\ e.result \in {"ok", "error", "transport", None}
           /\ e.type = "RunCompleted" => e.run \in Run /\ e.status \in Terminal
BY DEF Event

LEMMA WritesAreTyped ==
    /\ \A e \in Event : Journal(e) \in Op
    /\ \A r \in Run : CreateRun(r) \in Op /\ Initialize(r) \in Op /\ Evict(r) \in Op
    /\ \A r \in Run, result \in {"ok", "error"} : RecordResult(r, result) \in Op
    /\ \A r \in Run, status \in Terminal : UpdateStatus(r, status) \in Op
    /\ \A tasks \in SUBSET Task : Spawn(tasks) \in Op
    /\ \A request \in Request, r \in SubRun : Acknowledge(request, r) \in Op
    /\ TakeCheckpoint \in Op
<1>1. \A e \in Event : Journal(e) \in Op
  BY DEF Journal, Op
<1>2. \A r \in Run : CreateRun(r) \in Op /\ Initialize(r) \in Op /\ Evict(r) \in Op
  BY DEF CreateRun, Initialize, Evict, Op
<1>3. \A r \in Run, result \in {"ok", "error"} : RecordResult(r, result) \in Op
  BY DEF RecordResult, Op
<1>4. \A r \in Run, status \in Terminal : UpdateStatus(r, status) \in Op
  BY DEF UpdateStatus, Op
<1>5. \A tasks \in SUBSET Task : Spawn(tasks) \in Op
  BY DEF Spawn, Op
<1>6. \A request \in Request, r \in SubRun : Acknowledge(request, r) \in Op
  BY DEF Acknowledge, Op
<1>7. TakeCheckpoint \in Op
  BY DEF TakeCheckpoint, Op
<1> QED BY <1>1, <1>2, <1>3, <1>4, <1>5, <1>6, <1>7

LEMMA EventsAreTyped ==
    /\ \A r \in SubRun, s \in RootStep : SubRunCreated(r, s) \in Event
    /\ \A r \in Run : StepsNeeded(r) \in Event
    /\ \A tasks \in SUBSET Task, attempts, ids \in [Task -> Nat] :
         TasksStarted(tasks, attempts, ids) \in Event
    /\ \A t \in Task, result \in {"ok", "error", "transport", None} : TaskCompleted(t, result) \in Event
    /\ \A r \in Run, status \in Terminal : RunCompleted(r, status) \in Event
<1>1. \A r \in SubRun, s \in RootStep : SubRunCreated(r, s) \in Event
  BY DEF SubRunCreated, Event
<1>2. \A r \in Run : StepsNeeded(r) \in Event
  BY DEF StepsNeeded, Event
<1>3. \A tasks \in SUBSET Task, attempts, ids \in [Task -> Nat] :
         TasksStarted(tasks, attempts, ids) \in Event
  BY DEF TasksStarted, Event
<1>4. \A t \in Task, result \in {"ok", "error", "transport", None} : TaskCompleted(t, result) \in Event
  BY DEF TaskCompleted, Event
<1>5. \A r \in Run, status \in Terminal : RunCompleted(r, status) \in Event
  BY DEF RunCompleted, Event
<1> QED BY <1>1, <1>2, <1>3, <1>4, <1>5

LEMMA TaskParts ==
    /\ \A t \in Task : t[1] \in Run /\ t[2] \in Step /\ t = <<t[1], t[2]>> /\ t[2] \in StepsOf(t[1])
    /\ \A r \in Run : \A s \in StepsOf(r) : <<r, s>> \in Task
    /\ Root \in Run /\ SubRun \subseteq Run /\ SubflowStep \subseteq RootStep
    /\ {Root} \X SubflowStep \subseteq Task
BY ConstantsAssumption DEF Task, Run, Step, StepsOf

LEMMA ReadyTasksAreTasks ==
    ASSUME NEW r \in Run, NEW completed
    PROVE  /\ ReadyTasks(r, completed) \subseteq Task
           /\ \A t \in Task : t \in ReadyTasks(r, completed) <=>
                t[1] = r /\ t[2] \notin completed[r] /\ DependsOn[t[2]] \subseteq completed[r]
BY TaskParts DEF ReadyTasks

(* What remains of a handler after a write.                                *)
LEMMA AfterWrite ==
    ASSUME todo \in Seq(Op), todo # <<>>
    PROVE  /\ Head(todo) = todo[1] /\ todo[1] \in Op /\ 1 \in DOMAIN todo
           /\ Tail(todo) \in Seq(Op)
           /\ DOMAIN Tail(todo) = {i \in Nat : i >= 1 /\ i + 1 \in DOMAIN todo}
           /\ \A i \in DOMAIN Tail(todo) : Tail(todo)[i] = todo[i + 1] /\ i + 1 > 1
OBVIOUS

(* SetToSeq of a finite set is a sequence of its elements.                 *)
LEMMA SetToSeqIsSeq ==
    ASSUME NEW S, IsFiniteSet(S)
    PROVE  SetToSeq(S) \in Seq(S)
<1>1. PICK f \in Bijection(1..Cardinality(S), S) : TRUE
  BY FS_CardinalityType DEF ExistsBijection
<1>2. f \in [1..Cardinality(S) -> S] /\ IsInjective(f)
  BY <1>1 DEF Bijection, Injection, IsInjective
<1>3. SetToSeq(S) \in [1..Cardinality(S) -> S]
  BY <1>2 DEF SetToSeq
<1> QED BY <1>3, FS_CardinalityType DEF Seq

LEMMA StepsNeededSeq ==
    ASSUME NEW R \in SUBSET Run
    PROVE  LET E == {Journal(StepsNeeded(r)) : r \in R}
           IN  SetToSeq(E) \in Seq(E) /\ E \subseteq Op
<1> DEFINE E == {Journal(StepsNeeded(r)) : r \in R}
           event == [r \in R |-> Journal(StepsNeeded(r))]
<1>1. IsFiniteSet(Run)
  BY ConstantsAssumption, FS_Singleton, FS_Union DEF Run
<1>2. IsFiniteSet(R)
  BY <1>1, FS_Subset
<1>3. event \in Surjection(R, E)
  BY DEF Surjection
<1>4. IsFiniteSet(E)
  BY <1>2, <1>3, FS_Surjection DEF ExistsSurjection
<1>5. E \subseteq Op
  BY EventsAreTyped, WritesAreTyped
<1> QED BY <1>4, <1>5, SetToSeqIsSeq

LEMMA MaxOfTwo ==
    ASSUME NEW m \in Int, NEW n \in Int
    PROVE  Max({m, n}) = IF m >= n THEN m ELSE n
<1> DEFINE x == IF m >= n THEN m ELSE n
<1>1. x \in {m, n} /\ \A y \in {m, n} : x >= y
  OBVIOUS
<1>2. \A z \in {m, n} : (\A y \in {m, n} : z >= y) => z = x
  OBVIOUS
<1> QED BY <1>1, <1>2 DEF Max

-----------------------------------------------------------------------------
(* Types.                                                                  *)
LEMMA ReplayIsTyped ==
    ASSUME NEW rec \in Recoverable, NEW e \in Event
    PROVE  Replay(rec, e) \in Recoverable
<1>1. CASE e.type = "SubRunCreated"
  <2>1. e.run \in SubRun /\ e.run \in Run
    BY <1>1, EventCases DEF Run
  <2>2. [rec.subflows EXCEPT ![e.step] = e.run] \in [SubflowStep -> SubRun \union {None}]
    BY <2>1 DEF Recoverable
  <2>3. rec.runs \union {e.run} \in SUBSET Run /\ rec.needing \union {e.run} \in SUBSET Run
    BY <2>1 DEF Recoverable
  <2>4. Replay(rec, e) = [rec EXCEPT !.runs = rec.runs \union {e.run},
                                     !.subflows = [rec.subflows EXCEPT ![e.step] = e.run],
                                     !.needing = rec.needing \union {e.run}]
    BY <1>1 DEF Replay, Recoverable
  <2> QED BY <2>2, <2>3, <2>4 DEF Recoverable
<1>2. CASE e.type = "StepsNeeded"
  BY <1>2, EventCases DEF Replay, Recoverable
<1>3. CASE e.type = "TasksStarted"
  <2>1. \A t \in Task : Max({rec.attempts[t], e.attempts[t]}) \in Nat
    <3>1. \A t \in Task : rec.attempts[t] \in Nat /\ e.attempts[t] \in Nat
      BY <1>3, EventCases DEF Recoverable
    <3> QED BY <3>1, MaxOfTwo
  <2> QED BY <1>3, <2>1, EventCases DEF Replay, ReplayStarted, Recoverable
<1>4. CASE e.type = "TaskCompleted"
  <2>1. e.task \in Task /\ e.task[1] \in Run /\ e.task[2] \in Step
    BY <1>4, EventCases, TaskParts
  <2> QED BY <1>4, <2>1, ZenonT(60) DEF Replay, ReplayCompleted, Recoverable
<1>5. CASE e.type = "RunCompleted"
  BY <1>5, EventCases DEF Replay, Recoverable
<1> QED BY <1>1, <1>2, <1>3, <1>4, <1>5, EventCases

Past ==
    [issued : [Task -> Nat], attempt : [Task -> Nat], retries : [Task -> Nat],
     checkpointed : BOOLEAN, completions : [Task -> Nat],
     created : [SubRun -> RootStep \union {None}],
     ended : [Run -> Terminal \union {None}]]

LEMMA RememberIsTyped ==
    ASSUME past \in Past, NEW e \in Event
    PROVE  Remember(e) \in Past
<1>1. CASE e.type = "SubRunCreated"
  BY <1>1, EventCases DEF Remember, Past
<1>2. CASE e.type = "TasksStarted"
  BY <1>2, EventCases DEF Remember, Past
<1>3. CASE e.type = "TaskCompleted"
  BY <1>3, EventCases DEF Remember, Past
<1>4. CASE e.type = "RunCompleted"
  BY <1>4, EventCases DEF Remember, Past
<1> QED BY <1>1, <1>2, <1>3, <1>4, EventCases DEF Remember

LEMMA EndOfRunIsTyped ==
    ASSUME NEW r \in Run, NEW failed
    PROVE  /\ EndOfRun(r, failed) \in Seq(Op) /\ Len(EndOfRun(r, failed)) = 3
           /\ \A i \in 1..3 : LET op == EndOfRun(r, failed)[i] IN
                \/ op.op \in {"record", "status"}
                \/ op.op = "journal" /\ op.event.type = "RunCompleted"
<1> DEFINE record == RecordResult(r, OutputOf(r, failed))
           ended == Journal(RunCompleted(r, FinalStatus(r, failed)))
           status == UpdateStatus(r, FinalStatus(r, failed))
<1>1. OutputOf(r, failed) \in {"ok", "error"} /\ FinalStatus(r, failed) \in Terminal
  BY DEF OutputOf, FinalStatus, Terminal
<1>2. record \in Op /\ ended \in Op /\ status \in Op
  BY <1>1, EventsAreTyped, WritesAreTyped
<1>3. /\ record.op = "record" /\ status.op = "status"
      /\ ended.op = "journal" /\ ended.event.type = "RunCompleted"
  BY DEF RecordResult, UpdateStatus, Journal, RunCompleted
<1>4. EndOfRun(r, failed) = IF r = Root THEN <<record, ended, status>> ELSE <<ended, record, status>>
  BY DEF EndOfRun
<1> HIDE DEF record, ended, status
<1> QED BY <1>2, <1>3, <1>4

LEMMA DispatchIsTyped ==
    ASSUME NEW tasks \in SUBSET Task, NEW attempts \in [Task -> Nat], NEW ids \in [Task -> Nat]
    PROVE  Dispatch(tasks, attempts, ids) \in Seq(Op)
<1>1. Journal(TasksStarted(tasks, attempts, ids)) \in Op /\ Spawn(tasks) \in Op
  BY EventsAreTyped, WritesAreTyped
<1> QED BY <1>1 DEF Dispatch

LEMMA MayCheckpointIsTyped ==
    ASSUME NEW writes \in Seq(Op), MayCheckpoint(writes)
    PROVE  todo' \in Seq(Op)
BY WritesAreTyped DEF MayCheckpoint

LEMMA TypeInit == Init => ExecutorTypeOK
<1> SUFFICES ASSUME Init PROVE ExecutorTypeOK
  OBVIOUS
<1>1. mem \in Memory
  BY ConstantsAssumption DEF Init, FreshMemory, Memory, Run
<1>2. recoverable \in Recoverable
  BY ConstantsAssumption DEF Init, FreshRecoverable, Recoverable, Run
<1>3. futures \in [Task -> Future]
  BY DEF Init, Idle, Future
<1> QED BY <1>1, <1>2, <1>3 DEF Init, ExecutorTypeOK, Terminal

LEMMA WriteKeepsTypes == ExecutorTypeOK /\ Write => ExecutorTypeOK'
<1> SUFFICES ASSUME ExecutorTypeOK, Write PROVE ExecutorTypeOK'
  OBVIOUS
<1> DEFINE h == todo[1]
<1>1. todo # <<>> /\ todo' = Tail(todo) /\ UNCHANGED <<mode, requests, crashes>>
  BY DEF Write, WriteJournal, WriteCreateRun, WriteResult, WriteStatus, SpawnFutures,
     InitializeSubflow, EvictRun, AcknowledgeRequest, WriteCheckpoint, Doing, Done
<1>2. h = Head(todo) /\ h \in Op /\ todo' \in Seq(Op)
  BY <1>1, AfterWrite DEF ExecutorTypeOK
<1>3. CASE WriteJournal
  <2>1. h.event \in Event
    BY <1>2, <1>3, OpCases DEF WriteJournal, Doing
  <2> QED BY <1>1, <1>2, <1>3, <2>1, ReplayIsTyped, RememberIsTyped
          DEF WriteJournal, ExecutorTypeOK, Past
<1>4. CASE WriteCreateRun \/ WriteResult \/ WriteStatus
  <2>1. store' \in [status : [Run -> Terminal \union {"Running", None}],
                    result : [Run -> {"ok", "error", None}]]
    <3>1. CASE WriteCreateRun
      BY <3>1 DEF WriteCreateRun, ExecutorTypeOK, Terminal
    <3>2. CASE WriteResult
      <4>1. h.result \in {"ok", "error"}
        BY <1>2, <3>2, OpCases DEF WriteResult, Doing
      <4> QED BY <1>2, <3>2, <4>1 DEF WriteResult, ExecutorTypeOK, Terminal
    <3>3. CASE WriteStatus
      <4>1. h.status \in Terminal
        BY <1>2, <3>3, OpCases DEF WriteStatus, Doing
      <4> QED BY <1>2, <3>3, <4>1 DEF WriteStatus, ExecutorTypeOK
    <3> QED BY <1>4, <3>1, <3>2, <3>3
  <2> QED BY <1>1, <1>2, <1>4, <2>1 DEF WriteCreateRun, WriteResult, WriteStatus, ExecutorTypeOK
<1>5. CASE SpawnFutures
  <2>1. futures' \in [Task -> Future]
    BY <1>5 DEF SpawnFutures, ExecutorTypeOK, Future
  <2> QED BY <1>1, <1>2, <1>5, <2>1 DEF SpawnFutures, ExecutorTypeOK
<1>6. CASE InitializeSubflow
  <2>1. ReadyTasks(h.run, mem.completed) \subseteq Task
    BY <1>2, <1>6, OpCases, ReadyTasksAreTasks DEF InitializeSubflow, Doing
  <2>2. mem' \in Memory
    BY <1>2, <1>6, <2>1 DEF InitializeSubflow, ExecutorTypeOK, Memory
  <2> QED BY <1>1, <1>2, <1>6, <2>2 DEF InitializeSubflow, ExecutorTypeOK
<1>7. CASE EvictRun
  <2>1. mem' \in Memory
    BY <1>7 DEF EvictRun, ExecutorTypeOK, Memory
  <2> QED BY <1>1, <1>2, <1>7, <2>1 DEF EvictRun, ExecutorTypeOK
<1>8. CASE AcknowledgeRequest
  <2>1. [phase |-> "waiting", run |-> h.run] \in Future
    BY <1>2, <1>8, OpCases DEF AcknowledgeRequest, Doing, Future
  <2>2. futures' \in [Task -> Future]
    BY <1>2, <1>8, <2>1 DEF AcknowledgeRequest, ExecutorTypeOK
  <2> QED BY <1>1, <1>2, <1>8, <2>2 DEF AcknowledgeRequest, ExecutorTypeOK
<1>9. CASE WriteCheckpoint
  <2>1. recoverable' \in Recoverable
    BY <1>9 DEF WriteCheckpoint, Captured, ExecutorTypeOK, Memory, Recoverable
  <2>2. past' \in Past
    BY <1>9 DEF WriteCheckpoint, ExecutorTypeOK, Past
  <2> QED BY <1>1, <1>2, <1>9, <2>1, <2>2 DEF WriteCheckpoint, ExecutorTypeOK, Past
<1> QED BY <1>3, <1>4, <1>5, <1>6, <1>7, <1>8, <1>9 DEF Write

LEMMA LoopKeepsTypes == ExecutorTypeOK /\ Loop => ExecutorTypeOK'
<1> SUFFICES ASSUME ExecutorTypeOK, Loop PROVE ExecutorTypeOK'
  OBVIOUS
<1>1. CASE Start
  <2> DEFINE announced == mem.runs \ (mem.recovered \ mem.needing)
  <2>1. announced \in SUBSET Run
    BY DEF ExecutorTypeOK, Memory
  <2>2. todo' \in Seq(Op)
    BY <1>1, <2>1, StepsNeededSeq, SeqMonotonic DEF Start
  <2>3. UNION {ReadyTasks(r, mem.completed) : r \in mem.runs} \subseteq Task
    BY ReadyTasksAreTasks DEF ExecutorTypeOK, Memory
  <2>4. mem' \in Memory
    BY <1>1, <2>3 DEF Start, ExecutorTypeOK, Memory
  <2> QED BY <1>1, <2>2, <2>4 DEF Start, ExecutorTypeOK
<1>2. CASE SelectTasks
  <2>1. PICK tasks \in kSubset(Min({MaxToStart, Cardinality(mem.queue)}), mem.queue) :
          LET attempts == [t \in Task |-> mem.attempts[t] + IF t \in tasks THEN 1 ELSE 0]
              ids == [t \in Task |-> IF t \in tasks THEN TaskId(t) ELSE mem.live_ids[t]]
          IN  /\ mem' = [mem EXCEPT !.queue = @ \ tasks,
                                    !.attempts = attempts,
                                    !.live_ids = ids,
                                    !.recovered_ids = [t \in Task |->
                                          IF t \in tasks THEN 0 ELSE @[t]]]
              /\ past' = [past EXCEPT !.issued = [t \in Task |->
                      IF t \in tasks THEN Max({@[t], ids[t]}) ELSE @[t]]]
              /\ todo' = Dispatch(tasks, attempts, ids)
    BY <1>2 DEF SelectTasks
  <2> DEFINE attempts == [t \in Task |-> mem.attempts[t] + IF t \in tasks THEN 1 ELSE 0]
             ids == [t \in Task |-> IF t \in tasks THEN TaskId(t) ELSE mem.live_ids[t]]
             issued == [t \in Task |-> IF t \in tasks THEN Max({past.issued[t], ids[t]})
                                       ELSE past.issued[t]]
             recovered == [t \in Task |-> IF t \in tasks THEN 0 ELSE mem.recovered_ids[t]]
  <2>2. tasks \subseteq mem.queue /\ tasks \in SUBSET Task
    BY DEF kSubset, ExecutorTypeOK, Memory
  <2>3. attempts \in [Task -> Nat]
    BY DEF ExecutorTypeOK, Memory
  <2>4. ids \in [Task -> Nat] /\ recovered \in [Task -> Nat]
    BY SMTT(30) DEF ExecutorTypeOK, Memory, TaskId
  <2>5. issued \in [Task -> Nat]
    <3>1. \A t \in Task : past.issued[t] \in Nat /\ ids[t] \in Nat
      BY <2>4 DEF ExecutorTypeOK
    <3> HIDE DEF ids
    <3>2. \A t \in Task : Max({past.issued[t], ids[t]}) \in Nat
      BY <3>1, MaxOfTwo
    <3> QED BY <3>1, <3>2
  <2>6. mem' = [mem EXCEPT !.queue = @ \ tasks, !.attempts = attempts, !.live_ids = ids,
                           !.recovered_ids = recovered]
    BY <2>1
  <2>7. past' = [past EXCEPT !.issued = issued]
    BY <2>1
  <2>8. todo' = Dispatch(tasks, attempts, ids)
    BY <2>1
  <2> HIDE DEF attempts, ids, issued, recovered
  <2>9. mem' \in Memory
    BY <2>2, <2>3, <2>4, <2>6 DEF ExecutorTypeOK, Memory
  <2>10. past' \in Past
    BY <2>5, <2>7 DEF ExecutorTypeOK, Past
  <2>11. todo' \in Seq(Op)
    BY <2>2, <2>3, <2>4, <2>8, DispatchIsTyped
  <2> QED BY <1>2, <2>9, <2>10, <2>11 DEF SelectTasks, ExecutorTypeOK, Past
<1>3. CASE SelectNothing
  BY <1>3 DEF SelectNothing, ExecutorTypeOK
<1>4. CASE FinishRoot
  <2>1. EndOfRun(Root, mem.failed) \in Seq(Op)
    BY EndOfRunIsTyped, TaskParts
  <2>2. todo' \in Seq(Op) /\ mode' \in {"done", "deadlocked"}
    <3>1. CASE mem.completed[Root] = RootStep
      BY <1>4, <2>1, <3>1 DEF FinishRoot
    <3>2. CASE mem.completed[Root] # RootStep
      BY <1>4, <3>2, EmptySeq DEF FinishRoot
    <3> QED BY <3>1, <3>2
  <2> QED BY <1>4, <2>2 DEF FinishRoot, ExecutorTypeOK
<1>5. ASSUME NEW t \in Task, RetryTask(t) PROVE ExecutorTypeOK'
  <2> DEFINE more(f) == [f EXCEPT ![t] = @ + 1]
  <2>0. \A f \in [Task -> Nat] : more(f) \in [Task -> Nat]
    OBVIOUS
  <2>1. mem' \in Memory
    <3>1. mem' = [mem EXCEPT !.retries = more(mem.retries), !.attempts = more(mem.attempts)]
      BY <1>5 DEF RetryTask
    <3> HIDE DEF more
    <3> QED BY <2>0, <3>1 DEF ExecutorTypeOK, Memory
  <2>2. past' \in Past
    <3>1. past' = [past EXCEPT !.retries = more(past.retries)]
      BY <1>5 DEF RetryTask
    <3> HIDE DEF more
    <3> QED BY <2>0, <3>1 DEF ExecutorTypeOK, Past
  <2>3. futures' \in [Task -> Future]
    BY <1>5 DEF RetryTask, ExecutorTypeOK, Future, Idle
  <2>4. Dispatch({t}, mem'.attempts, mem.live_ids) \in Seq(Op)
    BY <2>1, DispatchIsTyped DEF ExecutorTypeOK, Memory
  <2>5. todo' \in Seq(Op)
    BY <1>5, <2>4, MayCheckpointIsTyped DEF RetryTask
  <2> QED BY <1>5, <2>1, <2>2, <2>3, <2>5 DEF RetryTask, ExecutorTypeOK, Past
<1>6. ASSUME NEW t \in Task, CompleteTask(t) PROVE ExecutorTypeOK'
  <2> DEFINE r == t[1]
             completed == [mem.completed EXCEPT ![r] = @ \union {t[2]}]
             failed == [mem.failed EXCEPT ![r] = @ \union
                          IF futures[t].result = "ok" THEN {} ELSE {t[2]}]
             ready == ReadyTasks(r, completed) \ ReadyTasks(r, mem.completed)
             end == IF SubflowEnds(r, completed) THEN EndOfRun(r, failed) \o <<Evict(r)>> ELSE <<>>
  <2>1. /\ mem' = [mem EXCEPT !.completed = completed, !.failed = failed,
                              !.queue = @ \union ready, !.live_ids[t] = 0]
        /\ MayCheckpoint(<<Journal(TaskCompleted(t, futures[t].result))>> \o end)
    BY <1>6 DEF CompleteTask
  <2>2. r \in Run /\ t[2] \in Step
    BY TaskParts
  <2>3. completed \in [Run -> SUBSET Step] /\ failed \in [Run -> SUBSET Step]
    BY <2>2 DEF ExecutorTypeOK, Memory
  <2>4. ready \subseteq Task
    BY <2>2, ReadyTasksAreTasks
  <2>5. futures[t].result \in {"ok", "error", "transport", None}
    BY <1>6 DEF CompleteTask, Finished, ExecutorTypeOK, Future
  <2>6. end \in Seq(Op)
    <3>1. EndOfRun(r, failed) \in Seq(Op) /\ Evict(r) \in Op
      BY <2>2, EndOfRunIsTyped, WritesAreTyped
    <3> QED BY <3>1
  <2>7. Journal(TaskCompleted(t, futures[t].result)) \in Op
    BY <2>5, EventsAreTyped, WritesAreTyped
  <2> HIDE DEF completed, failed, ready, end, r
  <2>8. <<Journal(TaskCompleted(t, futures[t].result))>> \o end \in Seq(Op)
    BY <2>6, <2>7
  <2>9. todo' \in Seq(Op)
    BY <2>1, <2>8, MayCheckpointIsTyped
  <2>10. mem' \in Memory
    BY <2>1, <2>3, <2>4 DEF ExecutorTypeOK, Memory
  <2>11. futures' \in [Task -> Future]
    BY <1>6 DEF CompleteTask, ExecutorTypeOK, Future, Idle
  <2> QED BY <1>6, <2>9, <2>10, <2>11 DEF CompleteTask, ExecutorTypeOK
<1>7. CASE HandleSubmit
  <2> DEFINE request == Head(requests)
             s == request.task[2]
             r == request.run
             known == mem.subflows[s]
  <2>1. /\ request \in Request /\ Tail(requests) \in Seq(Request)
    BY <1>7 DEF HandleSubmit, ExecutorTypeOK
  <2>2. s \in SubflowStep /\ s \in RootStep /\ r \in SubRun
    BY <2>1, TaskParts DEF Request
  <2>3. CASE known # None
    <3>1. known \in SubRun
      BY <2>2, <2>3 DEF ExecutorTypeOK, Memory
    <3>2. mem' = [mem EXCEPT !.subflows[s] = None] /\ todo' = <<Acknowledge(request, known)>>
      BY <1>7, <2>3 DEF HandleSubmit
    <3>3. Acknowledge(request, known) \in Op
      BY <2>1, <3>1, WritesAreTyped
    <3> HIDE DEF request, s, r, known
    <3>4. mem' \in Memory
      BY <3>2 DEF ExecutorTypeOK, Memory
    <3> QED BY <1>7, <2>1, <3>2, <3>3, <3>4 DEF HandleSubmit, ExecutorTypeOK, request
  <2>4. CASE known = None
    <3>1. /\ mem' = [mem EXCEPT !.runs = @ \union {r}]
          /\ todo' = <<Journal(SubRunCreated(r, s)), CreateRun(r), Journal(StepsNeeded(r)),
                       Initialize(r), Acknowledge(request, r)>>
      BY <1>7, <2>4 DEF HandleSubmit
    <3>2. /\ Journal(SubRunCreated(r, s)) \in Op /\ CreateRun(r) \in Op
          /\ Journal(StepsNeeded(r)) \in Op /\ Initialize(r) \in Op /\ Acknowledge(request, r) \in Op
      BY <2>1, <2>2, EventsAreTyped, WritesAreTyped, TaskParts
    <3>3. r \in Run
      BY <2>2, TaskParts
    <3> HIDE DEF request, s, r, known
    <3>4. mem' \in Memory
      BY <3>1, <3>3 DEF ExecutorTypeOK, Memory
    <3>5. todo' \in Seq(Op)
      BY <3>1, <3>2
    <3> QED BY <1>7, <2>1, <3>4, <3>5 DEF HandleSubmit, ExecutorTypeOK, request
  <2> QED BY <2>3, <2>4
<1> QED BY <1>1, <1>2, <1>3, <1>4, <1>5, <1>6, <1>7 DEF Loop

LEMMA FutureKeepsTypes ==
    ASSUME ExecutorTypeOK, NEW t \in Task,
           Answer(t) \/ Submit(t) \/ SubflowAnswers(t) \/ LoseWorker(t)
    PROVE  ExecutorTypeOK'
<1>1. \A result \in {"ok", "error", "transport", None} : FutureEnds(t, result) => ExecutorTypeOK'
  <2> SUFFICES ASSUME NEW result \in {"ok", "error", "transport", None}, FutureEnds(t, result)
               PROVE  ExecutorTypeOK'
    OBVIOUS
  <2>1. [phase |-> "finished", result |-> result] \in Future
    BY DEF Future
  <2>2. futures' \in [Task -> Future]
    BY <2>1 DEF FutureEnds, ExecutorTypeOK
  <2> QED BY <2>2 DEF FutureEnds, ExecutorTypeOK
<1>2. CASE Answer(t)
  <2>1. Outcomes(t) \subseteq {"ok", "error", "transport"}
    <3>1. t[2] \in RootStep \union SubStep /\ StepsOf(t[1]) \subseteq RootStep \union SubStep
      BY TaskParts DEF StepsOf
    <3>2. \A s \in RootStep \union SubStep : StepResult[s] \subseteq {"ok", "error", "transport"}
      BY ConstantsAssumption
    <3>3. HandedOn(t[1]) \subseteq {"ok", "error", "transport"}
      BY <3>1, <3>2 DEF HandedOn
    <3> QED BY <3>1, <3>2, <3>3 DEF Outcomes, WithDefault
  <2> QED BY <1>1, <1>2, <2>1 DEF Answer
<1>3. CASE Submit(t)
  <2>1. (CHOOSE r \in FreeRuns : TRUE) \in SubRun
    BY <1>3 DEF Submit, FreeRuns
  <2>2. t \in {Root} \X SubflowStep
    BY <1>3, TaskParts DEF Submit, IsSubflow
  <2>3. [task |-> t, attempt |-> mem.attempts[t], run |-> CHOOSE r \in FreeRuns : TRUE] \in Request
    BY <2>1, <2>2 DEF Request, ExecutorTypeOK, Memory
  <2>4. requests' \in Seq(Request)
    BY <1>3, <2>3 DEF Submit, ExecutorTypeOK
  <2>5. futures' \in [Task -> Future]
    BY <1>3 DEF Submit, ExecutorTypeOK, Future
  <2> QED BY <1>3, <2>4, <2>5 DEF Submit, ExecutorTypeOK
<1>4. CASE SubflowAnswers(t)
  BY <1>1, <1>4 DEF SubflowAnswers, WithDefault
<1>5. CASE LoseWorker(t)
  BY <1>1, <1>5 DEF LoseWorker, WithDefault
<1> QED BY <1>2, <1>3, <1>4, <1>5

LEMMA CrashKeepsTypes == ExecutorTypeOK /\ Crash => ExecutorTypeOK'
<1> SUFFICES ASSUME ExecutorTypeOK, Crash PROVE ExecutorTypeOK'
  OBVIOUS
<1>1. mem' \in Memory
  BY ConstantsAssumption DEF Crash, FreshMemory, Memory, Run
<1>2. futures' \in [Task -> Future]
  BY DEF Crash, Idle, Future
<1> QED BY <1>1, <1>2 DEF Crash, ExecutorTypeOK

LEMMA RecoverKeepsTypes == ExecutorTypeOK /\ Recover => ExecutorTypeOK'
<1> SUFFICES ASSUME ExecutorTypeOK, Recover PROVE ExecutorTypeOK'
  OBVIOUS
<1>1. RecoveredMemory \in Memory
  <2>1. {recoverable.subflows[s] : s \in SubflowStep} \ {None} \subseteq SubRun
    BY DEF ExecutorTypeOK, Recoverable
  <2> QED BY <2>1 DEF RecoveredMemory, FreshMemory, ExecutorTypeOK, Recoverable, Memory
<1>2. store' \in [status : [Run -> Terminal \union {"Running", None}],
                  result : [Run -> {"ok", "error", None}]]
  BY DEF Recover, SyncedStore, OutputOf, ExecutorTypeOK, Recoverable, Terminal
<1> QED BY <1>1, <1>2 DEF Recover, ExecutorTypeOK

LEMMA TypeStep == ExecutorTypeOK /\ [Next]_vars => ExecutorTypeOK'
<1> SUFFICES ASSUME ExecutorTypeOK, [Next]_vars PROVE ExecutorTypeOK'
  OBVIOUS
<1>1. CASE UNCHANGED vars
  BY <1>1 DEF vars, ExecutorTypeOK
<1>2. CASE Stopped
  BY <1>1, <1>2 DEF Stopped
<1> QED BY <1>1, <1>2, WriteKeepsTypes, LoopKeepsTypes, FutureKeepsTypes, CrashKeepsTypes,
           RecoverKeepsTypes DEF Next, Progress

(* Type correctness of the executor, its writes, what replay rebuilds and  *)
(* the metadata of its tree.                                               *)
THEOREM ExecutorTypes == Spec => []ExecutorTypeOK
BY TypeInit, TypeStep, PTL DEF Spec

-----------------------------------------------------------------------------
(* The invariant.  What counts in a handler is the write it stands before: *)
(* memory is ahead of the journal by the event that is about to be written,*)
(* and only the first write of a handler can be one that recovery counts.  *)
Up == mode \in {"starting", "select", "wait"}

AboutTo(type) == todo # <<>> /\ todo[1].op = "journal" /\ todo[1].event.type = type
Announced(t) == AboutTo("TasksStarted") /\ t \in todo[1].event.tasks
Completing(t) == AboutTo("TaskCompleted") /\ todo[1].event.task = t
Creating(r) == AboutTo("SubRunCreated") /\ todo[1].event.run = r

Counted(op) ==
    op.op = "journal" /\ op.event.type \in {"TasksStarted", "TaskCompleted", "SubRunCreated"}

Spawning(t) == \E i \in DOMAIN todo : todo[i].op = "spawn" /\ t \in todo[i].tasks
Initializing(r) == \E i \in DOMAIN todo : todo[i].op = "initialize" /\ todo[i].run = r
Acknowledging(r) == \E i \in DOMAIN todo : todo[i].op = "acknowledge" /\ todo[i].run = r

Active(t) == t \in mem.queue \/ futures[t] # Idle \/ Spawning(t)

TodoInv ==
    /\ \A i \in DOMAIN todo : i > 1 => ~Counted(todo[i])
    /\ \A i, j \in DOMAIN todo :
         todo[i].op = todo[j].op /\ todo[i].op \in {"spawn", "initialize"} => i = j
    /\ ~Up => \A i \in DOMAIN todo :
         ~Counted(todo[i]) /\ todo[i].op \notin {"spawn", "initialize", "acknowledge", "checkpoint"}
    /\ mode \in {"starting", "down", "deadlocked"} => todo = <<>>

ModeInv ==
    /\ mode = "starting" => mem.queue = {}
    /\ mode \notin {"select", "wait"} => \A t \in Task : futures[t] = Idle

(* The journal, with the latest checkpoint, is the history.                *)
HistoryInv ==
    \A t \in Task :
        /\ past.completions[t] = IF t[2] \in recoverable.completed[t[1]] THEN 1 ELSE 0
        /\ recoverable.attempts[t] = past.attempt[t]

(* Memory is the history, and the event about to be written.               *)
MemoryInv ==
    Up => \A t \in Task :
        /\ t[2] \in mem.completed[t[1]] <=> t[2] \in recoverable.completed[t[1]] \/ Completing(t)
        /\ Completing(t) => t[2] \notin recoverable.completed[t[1]]
        /\ mem.attempts[t] = past.attempt[t] + IF Announced(t) THEN 1 ELSE 0
        /\ Announced(t) => todo[1].event.attempts[t] = mem.attempts[t]

(* A task is queued, about to be spawned or in flight, one of the three,   *)
(* when what it depends on is complete, and until it is complete itself.   *)
ActiveInv ==
    Up => \A t \in Task :
        /\ Active(t) => /\ t[2] \notin mem.completed[t[1]]
                        /\ DependsOn[t[2]] \subseteq mem.completed[t[1]]
                        /\ t[1] = Root \/ past.created[t[1]] # None
        /\ t \in mem.queue => futures[t] = Idle /\ ~Spawning(t)
        /\ Spawning(t) => futures[t] = Idle

(* The id of a task is durable before its future exists.                   *)
IdsInv ==
    Up => \A t \in Task :
        /\ futures[t] # Idle => recoverable.task_ids[t] = mem.live_ids[t] /\ mem.live_ids[t] # 0
        /\ Announced(t) => Spawning(t)
        /\ Spawning(t) =>
             /\ mem.live_ids[t] # 0
             /\ IF Announced(t) THEN todo[1].event.ids[t] = mem.live_ids[t]
                ELSE recoverable.task_ids[t] = mem.live_ids[t]

(* Runs in memory and in the journal have been created; those requested    *)
(* have not, so a run is initialized once, before any of its tasks.        *)
RunsInv ==
    /\ \A r \in SubRun :
         /\ r \in recoverable.runs => past.created[r] # None
         /\ r \in mem.runs => past.created[r] # None \/ Creating(r)
         /\ Creating(r) => Acknowledging(r)
         /\ Initializing(r) => /\ past.created[r] # None \/ Creating(r)
                               /\ \A t \in Task : t[1] = r => ~Active(t)
    /\ ~Initializing(Root)

RequestsInv ==
    /\ \A i, j \in DOMAIN requests : requests[i].run = requests[j].run => i = j
    /\ \A i \in DOMAIN requests :
         past.created[requests[i].run] = None /\ ~Creating(requests[i].run)

(* A step that could run is queued, about to be spawned or in flight, or   *)
(* its run is about to be initialized.                                     *)
WorkInv ==
    mode \in {"select", "wait"} => \A t \in Task :
        /\ t[1] \in mem.runs /\ t[2] \notin mem.completed[t[1]]
        /\ DependsOn[t[2]] \subseteq mem.completed[t[1]]
        => Active(t) \/ Initializing(t[1])

ExecutorInv ==
    /\ TodoInv /\ ModeInv /\ HistoryInv /\ MemoryInv /\ ActiveInv /\ IdsInv
    /\ RunsInv /\ RequestsInv /\ WorkInv

LEMMA InvInit == Init => ExecutorInv
<1> SUFFICES ASSUME Init PROVE ExecutorInv
  OBVIOUS
<1>1. todo = <<>> /\ DOMAIN todo = {} /\ DOMAIN requests = {} /\ mode = "starting"
  BY DEF Init
<1>2. /\ \A t \in Task : ~Announced(t) /\ ~Completing(t) /\ ~Spawning(t)
      /\ \A r : ~Creating(r) /\ ~Initializing(r)
  BY <1>1 DEF Announced, Completing, Creating, AboutTo, Spawning, Initializing
<1>3. TodoInv /\ ModeInv /\ RequestsInv
  BY <1>1 DEF TodoInv, ModeInv, RequestsInv, Init, FreshMemory
<1>4. HistoryInv /\ MemoryInv
  BY <1>2, TaskParts DEF HistoryInv, MemoryInv, Init, FreshMemory, FreshRecoverable
<1>5. ActiveInv /\ IdsInv
  BY <1>2 DEF ActiveInv, IdsInv, Active, Init, FreshMemory
<1>6. RunsInv
  BY <1>2, ConstantsAssumption DEF RunsInv, Init, FreshMemory, FreshRecoverable
<1>7. WorkInv
  BY <1>1 DEF WorkInv
<1> QED BY <1>3, <1>4, <1>5, <1>6, <1>7 DEF ExecutorInv

(* With nothing left to write nothing is announced.                        *)
LEMMA NothingToWrite ==
    ASSUME todo = <<>>
    PROVE  /\ \A t : ~Announced(t) /\ ~Completing(t) /\ ~Spawning(t)
           /\ \A r : ~Creating(r) /\ ~Initializing(r) /\ ~Acknowledging(r)
           /\ DOMAIN todo = {}
BY DEF Announced, Completing, Creating, AboutTo, Spawning, Initializing, Acknowledging

(* What a write leaves to do.                                              *)
LEMMA Rest ==
    ASSUME ExecutorTypeOK, TodoInv, todo # <<>>, todo' = Tail(todo), mode' = mode
    PROVE  /\ \A t : ~Announced(t)' /\ ~Completing(t)'
           /\ \A r : ~Creating(r)'
           /\ \A t : Spawning(t)' <=> Spawning(t) /\ todo[1].op # "spawn"
           /\ \A t : todo[1].op = "spawn" => (Spawning(t) <=> t \in todo[1].tasks)
           /\ \A r : Initializing(r)' <=> Initializing(r) /\ todo[1].op # "initialize"
           /\ \A r : todo[1].op = "initialize" => (Initializing(r) <=> r = todo[1].run)
           /\ todo[1].op # "journal" =>
                \A t : ~Announced(t) /\ ~Completing(t) /\ ~Creating(t)
           /\ ~Up => todo[1].op \in {"journal", "create", "record", "status", "evict"} /\ ~Counted(todo[1])
           /\ TodoInv'
<1>1. /\ 1 \in DOMAIN todo /\ todo[1] \in Op
      /\ DOMAIN todo' = {i \in Nat : i >= 1 /\ i + 1 \in DOMAIN todo}
      /\ \A i \in DOMAIN todo' : todo'[i] = todo[i + 1] /\ i + 1 > 1
      /\ DOMAIN todo \subseteq Nat \ {0}
  BY AfterWrite DEF ExecutorTypeOK
<1>2. \A i \in DOMAIN todo : i = 1 \/ (i - 1 \in DOMAIN todo' /\ todo'[i - 1] = todo[i])
  BY <1>1
<1>3. \A i \in DOMAIN todo' : ~Counted(todo'[i])
  BY <1>1 DEF TodoInv
<1>4. todo' # <<>> => 1 \in DOMAIN todo'
  BY AfterWrite DEF ExecutorTypeOK
<1>5. /\ \A t : ~Announced(t)' /\ ~Completing(t)'
      /\ \A r : ~Creating(r)'
  BY <1>3, <1>4 DEF Announced, Completing, Creating, AboutTo, Counted
<1>6. \A t : Spawning(t)' <=> Spawning(t) /\ todo[1].op # "spawn"
  <2> SUFFICES ASSUME NEW t PROVE Spawning(t)' <=> Spawning(t) /\ todo[1].op # "spawn"
    OBVIOUS
  <2>1. Spawning(t)' => Spawning(t) /\ todo[1].op # "spawn"
    BY <1>1 DEF Spawning, TodoInv
  <2>2. Spawning(t) /\ todo[1].op # "spawn" => Spawning(t)'
    BY <1>2 DEF Spawning
  <2> QED BY <2>1, <2>2
<1>7. \A r : Initializing(r)' <=> Initializing(r) /\ todo[1].op # "initialize"
  <2> SUFFICES ASSUME NEW r PROVE Initializing(r)' <=> Initializing(r) /\ todo[1].op # "initialize"
    OBVIOUS
  <2>1. Initializing(r)' => Initializing(r) /\ todo[1].op # "initialize"
    BY <1>1 DEF Initializing, TodoInv
  <2>2. Initializing(r) /\ todo[1].op # "initialize" => Initializing(r)'
    BY <1>2 DEF Initializing
  <2> QED BY <2>1, <2>2
<1>8. /\ \A t : todo[1].op = "spawn" => (Spawning(t) <=> t \in todo[1].tasks)
      /\ \A r : todo[1].op = "initialize" => (Initializing(r) <=> r = todo[1].run)
  BY <1>1 DEF Spawning, Initializing, TodoInv
<1>9. todo[1].op # "journal" => \A t : ~Announced(t) /\ ~Completing(t) /\ ~Creating(t)
  BY DEF Announced, Completing, Creating, AboutTo
<1>10. ~Up => todo[1].op \in {"journal", "create", "record", "status", "evict"} /\ ~Counted(todo[1])
  BY <1>1 DEF TodoInv, Op
<1>11. TodoInv'
  <2>1. mode \notin {"starting", "down", "deadlocked"}
    BY DEF TodoInv
  <2>2. ~Up => \A i \in DOMAIN todo' :
          ~Counted(todo'[i]) /\ todo'[i].op \notin {"spawn", "initialize", "acknowledge", "checkpoint"}
    BY <1>1 DEF TodoInv
  <2>3. \A i, j \in DOMAIN todo' :
          todo'[i].op = todo'[j].op /\ todo'[i].op \in {"spawn", "initialize"} => i = j
    BY <1>1 DEF TodoInv
  <2> QED BY <1>3, <2>1, <2>2, <2>3 DEF TodoInv, Up, Counted
<1> QED BY <1>5, <1>6, <1>7, <1>8, <1>9, <1>10, <1>11

(* What a write to the journal changes in what replay rebuilds.            *)
LEMMA JournalEffects ==
    ASSUME ExecutorTypeOK, WriteJournal
    PROVE  /\ \A t \in Task :
                /\ t[2] \in recoverable'.completed[t[1]] <=>
                     t[2] \in recoverable.completed[t[1]] \/ Completing(t)
                /\ past'.completions[t] = past.completions[t] + IF Completing(t) THEN 1 ELSE 0
                /\ past'.attempt[t] = IF Announced(t) THEN todo[1].event.attempts[t] ELSE past.attempt[t]
                /\ recoverable'.attempts[t] =
                     IF Announced(t) THEN Max({recoverable.attempts[t], todo[1].event.attempts[t]})
                     ELSE recoverable.attempts[t]
                /\ recoverable'.task_ids[t] =
                     IF Announced(t) THEN todo[1].event.ids[t]
                     ELSE IF Completing(t) THEN 0 ELSE recoverable.task_ids[t]
           /\ \A r \in SubRun :
                /\ past.created[r] # None \/ Creating(r) <=> past'.created[r] # None
                /\ r \in recoverable'.runs => r \in recoverable.runs \/ Creating(r)
<1> DEFINE e == todo[1].event
<1>1. todo # <<>> /\ todo[1].op = "journal" /\ recoverable' = Replay(recoverable, e)
      /\ past' = Remember(e)
  BY AfterWrite DEF WriteJournal, Doing, ExecutorTypeOK
<1>2. e \in Event
  BY <1>1, AfterWrite, OpCases DEF ExecutorTypeOK
<1>3. recoverable \in Recoverable /\ past \in Past
  BY DEF ExecutorTypeOK, Past
<1>4. /\ \A t : Announced(t) <=> e.type = "TasksStarted" /\ t \in e.tasks
      /\ \A t : Completing(t) <=> e.type = "TaskCompleted" /\ e.task = t
      /\ \A r : Creating(r) <=> e.type = "SubRunCreated" /\ e.run = r
  BY <1>1 DEF Announced, Completing, Creating, AboutTo
<1> HIDE DEF e
<1>5. CASE e.type = "SubRunCreated"
  <2>1. e.run \in SubRun /\ e.step \in RootStep /\ e.step # None
    BY <1>2, <1>5, EventCases, ConstantsAssumption
  <2>2. /\ recoverable'.completed = recoverable.completed
        /\ recoverable'.attempts = recoverable.attempts
        /\ recoverable'.task_ids = recoverable.task_ids
        /\ recoverable'.runs = recoverable.runs \union {e.run}
    BY <1>1, <1>3, <1>5 DEF Replay, Recoverable
  <2>3. /\ past'.completions = past.completions /\ past'.attempt = past.attempt
        /\ past'.created = [past.created EXCEPT ![e.run] = e.step]
    BY <1>1, <1>3, <1>5 DEF Remember, Past
  <2>4. \A t : ~Announced(t) /\ ~Completing(t)
    BY <1>4, <1>5
  <2>5. \A r \in SubRun : past'.created[r] = IF r = e.run THEN e.step ELSE past.created[r]
    BY <1>3, <2>1, <2>3 DEF Past
  <2>6. \A t \in Task : past.completions[t] \in Nat
    BY <1>3 DEF Past
  <2> QED BY <1>4, <1>5, <2>1, <2>2, <2>3, <2>4, <2>5, <2>6
<1>6. CASE e.type = "TasksStarted"
  <2>1. /\ recoverable'.completed = recoverable.completed
        /\ recoverable'.runs = recoverable.runs
        /\ recoverable'.attempts = [t \in Task |-> IF t \in e.tasks
              THEN Max({recoverable.attempts[t], e.attempts[t]}) ELSE recoverable.attempts[t]]
        /\ recoverable'.task_ids = [t \in Task |-> IF t \in e.tasks THEN e.ids[t]
                                                   ELSE recoverable.task_ids[t]]
    BY <1>1, <1>3, <1>6 DEF Replay, ReplayStarted, Recoverable
  <2>2. /\ past'.completions = past.completions /\ past'.created = past.created
        /\ past'.attempt = [t \in Task |-> IF t \in e.tasks THEN e.attempts[t] ELSE past.attempt[t]]
    BY <1>1, <1>3, <1>6 DEF Remember, Past
  <2>3. \A t : ~Completing(t) /\ ~Creating(t) /\ (Announced(t) <=> t \in e.tasks)
    BY <1>4, <1>6
  <2>4. \A t \in Task : past.completions[t] \in Nat
    BY <1>3 DEF Past
  <2> QED BY <2>1, <2>2, <2>3, <2>4 DEF e
<1>7. CASE e.type = "TaskCompleted"
  <2>1. e.task \in Task /\ e.task[1] \in Run /\ e.task[2] \in Step
    BY <1>2, <1>7, EventCases, TaskParts
  <2>2. /\ recoverable'.runs = recoverable.runs
        /\ recoverable'.attempts = recoverable.attempts
        /\ recoverable'.completed =
             [recoverable.completed EXCEPT ![e.task[1]] = @ \union {e.task[2]}]
        /\ recoverable'.task_ids = [recoverable.task_ids EXCEPT ![e.task] = 0]
    BY <1>1, <1>3, <1>7 DEF Replay, ReplayCompleted, Recoverable
  <2>3. /\ past'.created = past.created /\ past'.attempt = past.attempt
        /\ past'.completions = [past.completions EXCEPT ![e.task] = @ + 1]
    BY <1>1, <1>3, <1>7 DEF Remember, Past
  <2>4. \A t : ~Announced(t) /\ ~Creating(t) /\ (Completing(t) <=> t = e.task)
    BY <1>4, <1>7
  <2>5. \A t \in Task : t[2] \in recoverable'.completed[t[1]] <=>
                          t[2] \in recoverable.completed[t[1]] \/ t = e.task
    BY <1>3, <2>1, <2>2, TaskParts DEF Recoverable
  <2>6. \A t \in Task : /\ past.completions[t] \in Nat
                        /\ past'.completions[t] = past.completions[t] + IF t = e.task THEN 1 ELSE 0
    BY <1>3, <2>1, <2>3 DEF Past
  <2>7. \A t \in Task : recoverable'.task_ids[t] = IF t = e.task THEN 0 ELSE recoverable.task_ids[t]
    BY <1>3, <2>1, <2>2 DEF Recoverable
  <2> QED BY <2>2, <2>3, <2>4, <2>5, <2>6, <2>7
<1>8. CASE e.type \in {"StepsNeeded", "RunCompleted"}
  <2>1. /\ recoverable'.completed = recoverable.completed
        /\ recoverable'.attempts = recoverable.attempts
        /\ recoverable'.task_ids = recoverable.task_ids
        /\ recoverable'.runs \subseteq recoverable.runs
    BY <1>1, <1>3, <1>8 DEF Replay, Recoverable
  <2>2. /\ past'.completions = past.completions /\ past'.attempt = past.attempt
        /\ past'.created = past.created
    BY <1>1, <1>3, <1>8 DEF Remember, Past
  <2>3. \A t : ~Announced(t) /\ ~Completing(t) /\ ~Creating(t)
    BY <1>4, <1>8
  <2>4. \A t \in Task : past.completions[t] \in Nat
    BY <1>3 DEF Past
  <2> QED BY <2>1, <2>2, <2>3, <2>4
<1> QED BY <1>2, <1>5, <1>6, <1>7, <1>8, EventCases

LEMMA WriteJournalKeepsInv ==
    ASSUME ExecutorTypeOK, ExecutorInv, WriteJournal
    PROVE  ExecutorInv'
<1>1. /\ todo # <<>> /\ todo[1].op = "journal" /\ todo' = Tail(todo)
      /\ UNCHANGED <<mode, requests, mem, futures>>
  BY AfterWrite DEF WriteJournal, Doing, Done, ExecutorTypeOK
<1>2. /\ \A t : ~Announced(t)' /\ ~Completing(t)' /\ (Spawning(t)' <=> Spawning(t))
      /\ \A r : ~Creating(r)' /\ (Initializing(r)' <=> Initializing(r))
      /\ TodoInv'
  BY <1>1, Rest DEF ExecutorInv
<1>3. \A t : Active(t)' <=> Active(t)
  BY <1>1, <1>2 DEF Active
<1>4. Up' <=> Up
  BY <1>1 DEF Up
<1>5. \A t : Announced(t) \/ Completing(t) => Up
  <2>1. ~Up => ~Counted(todo[1])
    BY <1>1, Rest DEF ExecutorInv
  <2> QED BY <1>1, <2>1 DEF Announced, Completing, AboutTo, Counted
<1>6. ModeInv'
  BY <1>1 DEF ExecutorInv, ModeInv
<1>7. HistoryInv'
  <2> SUFFICES ASSUME NEW t \in Task
               PROVE  /\ past'.completions[t] = IF t[2] \in recoverable'.completed[t[1]] THEN 1 ELSE 0
                      /\ recoverable'.attempts[t] = past'.attempt[t]
    BY DEF HistoryInv
  <2>1. past'.completions[t] = IF t[2] \in recoverable'.completed[t[1]] THEN 1 ELSE 0
    <3>1. past.completions[t] = IF t[2] \in recoverable.completed[t[1]] THEN 1 ELSE 0
      BY DEF ExecutorInv, HistoryInv
    <3>2. CASE Completing(t)
      <4>1. t[2] \notin recoverable.completed[t[1]]
        BY <1>5, <3>2 DEF ExecutorInv, MemoryInv
      <4>2. t[2] \in recoverable'.completed[t[1]] /\ past'.completions[t] = past.completions[t] + 1
        BY <3>2, JournalEffects
      <4> QED BY <3>1, <4>1, <4>2
    <3>3. CASE ~Completing(t)
      <4>1. t[2] \in recoverable'.completed[t[1]] <=> t[2] \in recoverable.completed[t[1]]
        BY <3>3, JournalEffects
      <4>2. past'.completions[t] = past.completions[t] + 0
        BY <3>3, JournalEffects
      <4> QED BY <3>1, <4>1, <4>2
    <3> QED BY <3>2, <3>3
  <2>2. CASE Announced(t)
    <3>1. todo[1].event.attempts[t] = past.attempt[t] + 1 /\ recoverable.attempts[t] = past.attempt[t]
      BY <1>5, <2>2 DEF ExecutorInv, HistoryInv, MemoryInv
    <3>2. past.attempt[t] \in Nat
      BY DEF ExecutorTypeOK
    <3>3. Max({recoverable.attempts[t], todo[1].event.attempts[t]}) = past.attempt[t] + 1
      BY <3>1, <3>2, MaxOfTwo
    <3> QED BY <2>1, <2>2, <3>1, <3>3, JournalEffects
  <2>3. CASE ~Announced(t)
    BY <2>1, <2>3, JournalEffects DEF ExecutorInv, HistoryInv
  <2> QED BY <2>2, <2>3
<1>8. MemoryInv'
  <2> SUFFICES ASSUME Up, NEW t \in Task
               PROVE  /\ t[2] \in mem.completed[t[1]] <=> t[2] \in recoverable'.completed[t[1]]
                      /\ mem.attempts[t] = past'.attempt[t]
    <3>1. \A t \in Task : past'.attempt[t] \in Nat
      BY WriteKeepsTypes DEF Write, ExecutorTypeOK
    <3> QED BY <1>1, <1>2, <1>4, <3>1 DEF MemoryInv
  <2>1. past.attempt[t] \in Nat
    BY DEF ExecutorTypeOK
  <2>2. t[2] \in mem.completed[t[1]] <=> t[2] \in recoverable'.completed[t[1]]
    BY JournalEffects DEF ExecutorInv, MemoryInv
  <2>3. CASE Announced(t)
    <3>1. past'.attempt[t] = todo[1].event.attempts[t]
      BY <2>3, JournalEffects
    <3>2. mem.attempts[t] = todo[1].event.attempts[t]
      BY <2>3 DEF ExecutorInv, MemoryInv
    <3> QED BY <2>2, <3>1, <3>2
  <2>4. CASE ~Announced(t)
    <3>1. past'.attempt[t] = past.attempt[t]
      BY <2>4, JournalEffects
    <3>2. mem.attempts[t] = past.attempt[t] + 0
      BY <2>4 DEF ExecutorInv, MemoryInv
    <3> QED BY <2>1, <2>2, <3>1, <3>2
  <2> QED BY <2>3, <2>4
<1>9. ActiveInv'
  <2> SUFFICES ASSUME Up, NEW t \in Task, Active(t), t[1] # Root
               PROVE  past'.created[t[1]] # None
    BY <1>1, <1>2, <1>3, <1>4 DEF ExecutorInv, ActiveInv
  <2>1. t[1] \in SubRun
    BY TaskParts DEF Run
  <2> QED BY <2>1, JournalEffects DEF ExecutorInv, ActiveInv
<1>10. IdsInv'
  <2> SUFFICES ASSUME Up, NEW t \in Task
               PROVE  /\ futures[t] # Idle =>
                           recoverable'.task_ids[t] = mem.live_ids[t] /\ mem.live_ids[t] # 0
                      /\ Spawning(t) => mem.live_ids[t] # 0 /\ recoverable'.task_ids[t] = mem.live_ids[t]
    BY <1>1, <1>2, <1>4 DEF IdsInv
  <2>1. Active(t) => ~Completing(t)
    BY DEF ExecutorInv, ActiveInv, MemoryInv
  <2>2. Announced(t) => futures[t] = Idle
    BY DEF ExecutorInv, ActiveInv, IdsInv
  <2> QED BY <2>1, <2>2, JournalEffects DEF ExecutorInv, IdsInv, Active
<1>11. RunsInv'
  BY <1>1, <1>2, <1>3, JournalEffects DEF ExecutorInv, RunsInv
<1>12. RequestsInv'
  <2>1. \A i \in DOMAIN requests : requests[i] \in Request
    BY DEF ExecutorTypeOK
  <2>2. \A i \in DOMAIN requests : requests[i].run \in SubRun
    BY <2>1 DEF Request
  <2> QED BY <1>1, <1>2, <2>2, JournalEffects DEF ExecutorInv, RequestsInv
<1>13. WorkInv'
  BY <1>1, <1>2, <1>3 DEF ExecutorInv, WorkInv
<1> QED BY <1>2, <1>6, <1>7, <1>8, <1>9, <1>10, <1>11, <1>12, <1>13 DEF ExecutorInv

(* A step that changes nothing the invariant is about but the writes ahead,*)
(* none of which is lost or gained.                                        *)
LEMMA QuietStep ==
    ASSUME ExecutorInv, TodoInv', RequestsInv',
           UNCHANGED <<recoverable, past>>, mem' = mem,
           mode' = mode \/ {mode, mode'} \subseteq {"select", "wait"},
           \A t \in Task : futures'[t] = Idle <=> futures[t] = Idle,
           \A t \in Task : /\ ~Announced(t) /\ ~Completing(t)
                           /\ ~Announced(t)' /\ ~Completing(t)'
                           /\ Spawning(t)' <=> Spawning(t),
           \A r \in Run : /\ ~Creating(r) /\ ~Creating(r)'
                          /\ Initializing(r)' <=> Initializing(r),
           mode = "starting" => mode' = "starting"
    PROVE  ExecutorInv'
<1>1. Up' <=> Up
  BY DEF Up
<1>2. \A t \in Task : Active(t)' <=> Active(t)
  BY DEF Active
<1>3. ModeInv'
  BY DEF ExecutorInv, ModeInv
<1>4. HistoryInv' /\ MemoryInv'
  BY <1>1 DEF ExecutorInv, HistoryInv, MemoryInv
<1>5. ActiveInv' /\ IdsInv'
  BY <1>1, <1>2 DEF ExecutorInv, ActiveInv, IdsInv
<1>6. RunsInv'
  BY <1>2, TaskParts DEF ExecutorInv, RunsInv
<1>7. WorkInv'
  BY <1>2, TaskParts DEF ExecutorInv, WorkInv
<1> QED BY <1>3, <1>4, <1>5, <1>6, <1>7 DEF ExecutorInv

LEMMA QuietWriteKeepsInv ==
    ASSUME ExecutorTypeOK, ExecutorInv,
           WriteCreateRun \/ WriteResult \/ WriteStatus \/ AcknowledgeRequest
    PROVE  ExecutorInv'
<1>1. /\ todo # <<>> /\ todo' = Tail(todo) /\ mem' = mem
      /\ UNCHANGED <<mode, requests, recoverable, past>>
      /\ todo[1].op \in {"create", "record", "status", "acknowledge"}
  BY AfterWrite DEF WriteCreateRun, WriteResult, WriteStatus, AcknowledgeRequest, Doing, Done,
     ExecutorTypeOK
<1>2. /\ \A t : ~Announced(t)' /\ ~Completing(t)' /\ ~Announced(t) /\ ~Completing(t)
                /\ (Spawning(t)' <=> Spawning(t))
      /\ \A r : ~Creating(r)' /\ ~Creating(r) /\ (Initializing(r)' <=> Initializing(r))
      /\ TodoInv'
  BY <1>1, Rest DEF ExecutorInv
<1>3. \A t \in Task : futures'[t] = Idle <=> futures[t] = Idle
  <2>1. CASE futures' = futures
    BY <2>1
  <2>2. CASE futures' # futures
    <3> DEFINE t == Head(todo).request.task
               answered == [phase |-> "waiting", run |-> Head(todo).run]
    <3>1. futures[t].phase = "submitting" /\ futures' = [futures EXCEPT ![t] = answered]
      BY <2>2 DEF WriteCreateRun, WriteResult, WriteStatus, AcknowledgeRequest
    <3>2. futures[t] # Idle /\ answered # Idle
      <4>1. answered.phase = "waiting" /\ Idle.phase = "idle"
        BY DEF Idle
      <4> QED BY <3>1, <4>1
    <3> HIDE DEF t, answered
    <3> QED BY <3>1, <3>2 DEF ExecutorTypeOK
  <2> QED BY <2>1, <2>2
<1>4. RequestsInv'
  BY <1>1, <1>2 DEF ExecutorInv, RequestsInv
<1> QED BY <1>1, <1>2, <1>3, <1>4, QuietStep

LEMMA SpawnKeepsInv ==
    ASSUME ExecutorTypeOK, ExecutorInv, SpawnFutures
    PROVE  ExecutorInv'
<1>1. /\ todo # <<>> /\ todo' = Tail(todo) /\ todo[1].op = "spawn" /\ Up
      /\ UNCHANGED <<mode, requests, mem, recoverable, past>>
  <2>1. /\ todo # <<>> /\ todo' = Tail(todo) /\ todo[1].op = "spawn"
        /\ UNCHANGED <<mode, requests, mem, recoverable, past>>
    BY AfterWrite DEF SpawnFutures, Doing, Done, ExecutorTypeOK
  <2> QED BY <2>1, Rest DEF ExecutorInv
<1>2. /\ \A t : ~Announced(t)' /\ ~Completing(t)' /\ ~Announced(t) /\ ~Completing(t)
                /\ ~Spawning(t)' /\ (Spawning(t) <=> t \in todo[1].tasks)
      /\ \A r : ~Creating(r)' /\ ~Creating(r) /\ (Initializing(r)' <=> Initializing(r))
      /\ TodoInv'
  BY <1>1, Rest DEF ExecutorInv
<1>3. \A t \in Task : futures'[t] = Idle <=> futures[t] = Idle /\ ~Spawning(t)
  BY <1>1, <1>2, AfterWrite DEF SpawnFutures, Idle, ExecutorTypeOK
<1>4. \A t \in Task : Active(t)' <=> Active(t)
  BY <1>1, <1>2, <1>3 DEF Active
<1>5. mode # "starting" /\ mode \in {"select", "wait"}
  BY <1>1 DEF ExecutorInv, TodoInv, Up
<1>6. ModeInv' /\ HistoryInv' /\ MemoryInv'
  BY <1>1, <1>2, <1>5 DEF ExecutorInv, ModeInv, HistoryInv, MemoryInv, Up
<1>7. ActiveInv' /\ IdsInv'
  BY <1>1, <1>2, <1>3, <1>4 DEF ExecutorInv, ActiveInv, IdsInv, Up
<1>8. RunsInv' /\ RequestsInv'
  BY <1>1, <1>2, <1>4 DEF ExecutorInv, RunsInv, RequestsInv
<1>9. WorkInv'
  BY <1>1, <1>2, <1>4 DEF ExecutorInv, WorkInv
<1> QED BY <1>2, <1>6, <1>7, <1>8, <1>9 DEF ExecutorInv

LEMMA InitializeKeepsInv ==
    ASSUME ExecutorTypeOK, ExecutorInv, InitializeSubflow
    PROVE  ExecutorInv'
<1> DEFINE r0 == todo[1].run
           new == ReadyTasks(r0, mem.completed)
<1>1. /\ todo # <<>> /\ todo' = Tail(todo) /\ todo[1].op = "initialize"
      /\ UNCHANGED <<mode, requests, futures, recoverable, past>>
      /\ mem' = [mem EXCEPT !.queue = @ \union new]
  BY AfterWrite DEF InitializeSubflow, Doing, Done, ExecutorTypeOK
<1>2. /\ \A t : ~Announced(t)' /\ ~Completing(t)' /\ ~Announced(t) /\ ~Completing(t)
                /\ (Spawning(t)' <=> Spawning(t))
      /\ \A r : /\ ~Creating(r)' /\ ~Creating(r)
                /\ Initializing(r)' <=> FALSE
                /\ Initializing(r) <=> r = r0
      /\ TodoInv' /\ Up
  BY <1>1, Rest DEF ExecutorInv
<1>3. /\ mem'.queue = mem.queue \union new /\ mem'.completed = mem.completed
      /\ mem'.attempts = mem.attempts /\ mem'.live_ids = mem.live_ids /\ mem'.runs = mem.runs
  BY <1>1 DEF ExecutorTypeOK, Memory
<1>4. r0 \in SubRun /\ past.created[r0] # None /\ (\A t \in Task : t[1] = r0 => ~Active(t))
  <2>1. r0 \in Run
    BY <1>1, AfterWrite, OpCases DEF ExecutorTypeOK
  <2>2. r0 # Root /\ r0 \in SubRun
    BY <1>2, <2>1 DEF ExecutorInv, RunsInv, Run
  <2> QED BY <1>2, <2>2 DEF ExecutorInv, RunsInv
<1>5. \A t \in Task : t \in new <=> t[1] = r0 /\ t[2] \notin mem.completed[r0]
                                     /\ DependsOn[t[2]] \subseteq mem.completed[r0]
  BY <1>4, ReadyTasksAreTasks, TaskParts
<1> HIDE DEF new, r0
<1>6. \A t \in Task : Active(t)' <=> Active(t) \/ t \in new
  BY <1>1, <1>2, <1>3 DEF Active
<1>7. mode \in {"select", "wait"}
  BY <1>1, <1>2 DEF ExecutorInv, TodoInv, Up
<1>8. ModeInv' /\ HistoryInv' /\ MemoryInv'
  BY <1>1, <1>2, <1>3, <1>7 DEF ExecutorInv, ModeInv, HistoryInv, MemoryInv, Up
<1>9. ActiveInv'
  <2> SUFFICES ASSUME NEW t \in Task
               PROVE  /\ Active(t)' => /\ t[2] \notin mem.completed[t[1]]
                                       /\ DependsOn[t[2]] \subseteq mem.completed[t[1]]
                                       /\ t[1] = Root \/ past.created[t[1]] # None
                      /\ t \in mem'.queue => futures[t] = Idle /\ ~Spawning(t)
                      /\ Spawning(t) => futures[t] = Idle
    BY <1>1, <1>2, <1>3 DEF ActiveInv
  <2>1. CASE t \in new
    BY <1>2, <1>4, <1>5, <2>1 DEF Active
  <2>2. CASE t \notin new
    BY <1>2, <1>3, <1>6, <2>2 DEF ExecutorInv, ActiveInv
  <2> QED BY <2>1, <2>2
<1>10. IdsInv'
  BY <1>1, <1>2, <1>3 DEF ExecutorInv, IdsInv, Up
<1>11. RunsInv' /\ RequestsInv'
  BY <1>1, <1>2, <1>3 DEF ExecutorInv, RunsInv, RequestsInv
<1>12. WorkInv'
  BY <1>1, <1>2, <1>3, <1>5, <1>6 DEF ExecutorInv, WorkInv
<1> QED BY <1>2, <1>8, <1>9, <1>10, <1>11, <1>12 DEF ExecutorInv

LEMMA EvictKeepsInv ==
    ASSUME ExecutorTypeOK, ExecutorInv, EvictRun
    PROVE  ExecutorInv'
<1>1. /\ todo # <<>> /\ todo' = Tail(todo) /\ todo[1].op = "evict"
      /\ UNCHANGED <<mode, requests, futures, recoverable, past>>
      /\ mem'.runs \subseteq mem.runs /\ mem'.queue = mem.queue /\ mem'.completed = mem.completed
      /\ mem'.attempts = mem.attempts /\ mem'.live_ids = mem.live_ids
  BY AfterWrite DEF EvictRun, Doing, Done, ExecutorTypeOK, Memory
<1>2. /\ \A t : ~Announced(t)' /\ ~Completing(t)' /\ ~Announced(t) /\ ~Completing(t)
                /\ (Spawning(t)' <=> Spawning(t))
      /\ \A r : ~Creating(r)' /\ ~Creating(r) /\ (Initializing(r)' <=> Initializing(r))
      /\ TodoInv'
  BY <1>1, Rest DEF ExecutorInv
<1>3. \A t \in Task : Active(t)' <=> Active(t)
  BY <1>1, <1>2 DEF Active
<1>4. ModeInv' /\ HistoryInv' /\ MemoryInv'
  BY <1>1, <1>2 DEF ExecutorInv, ModeInv, HistoryInv, MemoryInv, Up
<1>5. ActiveInv' /\ IdsInv'
  BY <1>1, <1>2, <1>3 DEF ExecutorInv, ActiveInv, IdsInv, Up
<1>6. RunsInv' /\ RequestsInv'
  BY <1>1, <1>2, <1>3 DEF ExecutorInv, RunsInv, RequestsInv
<1>7. WorkInv'
  BY <1>1, <1>2, <1>3 DEF ExecutorInv, WorkInv
<1> QED BY <1>2, <1>4, <1>5, <1>6, <1>7 DEF ExecutorInv

LEMMA CheckpointKeepsInv ==
    ASSUME ExecutorTypeOK, ExecutorInv, WriteCheckpoint
    PROVE  ExecutorInv'
<1>1. /\ todo # <<>> /\ todo' = Tail(todo) /\ todo[1].op = "checkpoint"
      /\ UNCHANGED <<mode, requests, mem, futures>>
      /\ recoverable'.runs = mem.runs /\ recoverable'.completed = mem.completed
      /\ recoverable'.attempts = mem.attempts /\ recoverable'.task_ids = mem.live_ids
      /\ past'.completions = past.completions /\ past'.attempt = past.attempt
      /\ past'.created = past.created
  BY AfterWrite DEF WriteCheckpoint, Captured, Doing, Done, ExecutorTypeOK
<1>2. /\ \A t : ~Announced(t)' /\ ~Completing(t)' /\ ~Announced(t) /\ ~Completing(t)
                /\ (Spawning(t)' <=> Spawning(t))
      /\ \A r : ~Creating(r)' /\ ~Creating(r) /\ (Initializing(r)' <=> Initializing(r))
      /\ TodoInv' /\ Up
  BY <1>1, Rest DEF ExecutorInv
<1>3. \A t \in Task : Active(t)' <=> Active(t)
  BY <1>1, <1>2 DEF Active
<1>4. \A t \in Task : /\ mem.attempts[t] = past.attempt[t] /\ mem.attempts[t] \in Nat
                      /\ t[2] \in mem.completed[t[1]] <=> t[2] \in recoverable.completed[t[1]]
  BY <1>2 DEF ExecutorInv, MemoryInv, ExecutorTypeOK
<1>5. ModeInv'
  BY <1>1 DEF ExecutorInv, ModeInv
<1>6. HistoryInv' /\ MemoryInv'
  BY <1>1, <1>2, <1>4 DEF ExecutorInv, HistoryInv, MemoryInv
<1>7. ActiveInv' /\ IdsInv'
  BY <1>1, <1>2, <1>3 DEF ExecutorInv, ActiveInv, IdsInv, Up
<1>8. RunsInv' /\ RequestsInv'
  BY <1>1, <1>2, <1>3 DEF ExecutorInv, RunsInv, RequestsInv
<1>9. WorkInv'
  BY <1>1, <1>2, <1>3 DEF ExecutorInv, WorkInv
<1> QED BY <1>2, <1>5, <1>6, <1>7, <1>8, <1>9 DEF ExecutorInv

LEMMA WriteKeepsInv == ExecutorTypeOK /\ ExecutorInv /\ Write => ExecutorInv'
BY WriteJournalKeepsInv, QuietWriteKeepsInv, SpawnKeepsInv, InitializeKeepsInv, EvictKeepsInv,
   CheckpointKeepsInv DEF Write

-----------------------------------------------------------------------------
(* The loop decides with nothing left to write.  What it leaves to write:  *)
(* writes that end a run or say which steps are needed, ...                *)
Plain(op) ==
    ~Counted(op) /\ op.op \notin {"spawn", "initialize", "acknowledge", "checkpoint"}

LEMMA PlainWrites ==
    ASSUME NEW writes \in Seq(Op), \A i \in DOMAIN writes : Plain(writes[i]), todo' = writes,
           mode' \in {"starting", "down", "deadlocked"} => writes = <<>>
    PROVE  /\ \A t : ~Announced(t)' /\ ~Completing(t)' /\ ~Spawning(t)'
           /\ \A r : ~Creating(r)' /\ ~Initializing(r)' /\ ~Acknowledging(r)'
           /\ TodoInv'
<1>1. \A i \in DOMAIN todo' :
        ~Counted(todo'[i]) /\ todo'[i].op \notin {"spawn", "initialize", "acknowledge", "checkpoint"}
  BY DEF Plain
<1>2. todo' # <<>> => 1 \in DOMAIN todo'
  OBVIOUS
<1>3. \A t : ~Announced(t)' /\ ~Completing(t)' /\ ~Spawning(t)'
  BY <1>1, <1>2 DEF Announced, Completing, AboutTo, Counted, Spawning
<1>4. \A r : ~Creating(r)' /\ ~Initializing(r)' /\ ~Acknowledging(r)'
  BY <1>1, <1>2 DEF Creating, AboutTo, Counted, Initializing, Acknowledging
<1>5. TodoInv'
  BY <1>1 DEF TodoInv, Up, Counted
<1> QED BY <1>3, <1>4, <1>5

(* ... the dispatch of tasks, ...                                          *)
LEMMA DispatchWrites ==
    ASSUME NEW tasks, NEW attempts, NEW ids, NEW writes,
           writes = Dispatch(tasks, attempts, ids), MayCheckpoint(writes),
           mode' \in {"select", "wait"}
    PROVE  /\ \A t : (Announced(t)' <=> t \in tasks) /\ (Spawning(t)' <=> t \in tasks)
           /\ \A t : ~Completing(t)'
           /\ \A r : ~Creating(r)' /\ ~Initializing(r)' /\ ~Acknowledging(r)'
           /\ todo'[1].event.attempts = attempts /\ todo'[1].event.ids = ids
           /\ TodoInv'
<1> DEFINE start == Journal(TasksStarted(tasks, attempts, ids))
           spawn == Spawn(tasks)
<1>1. /\ start.op = "journal" /\ start.event.type = "TasksStarted" /\ start.event.tasks = tasks
      /\ start.event.attempts = attempts /\ start.event.ids = ids
      /\ spawn.op = "spawn" /\ spawn.tasks = tasks
      /\ TakeCheckpoint.op = "checkpoint"
  BY DEF Journal, TasksStarted, Spawn, TakeCheckpoint
<1>2. todo' = <<start, spawn>> \/ todo' = <<start, spawn, TakeCheckpoint>>
  BY DEF Dispatch, MayCheckpoint
<1> HIDE DEF start, spawn
<1>3. /\ todo' # <<>> /\ todo'[1] = start /\ todo'[2] = spawn /\ {1, 2} \subseteq DOMAIN todo'
      /\ \A i \in DOMAIN todo' : i = 1 \/ i = 2 \/ todo'[i] = TakeCheckpoint
  BY <1>2
<1>4. \A t : (Announced(t)' <=> t \in tasks) /\ ~Completing(t)'
  BY <1>1, <1>3 DEF Announced, Completing, AboutTo
<1>5. \A t : Spawning(t)' <=> t \in tasks
  BY <1>1, <1>3 DEF Spawning
<1>6. \A r : ~Creating(r)' /\ ~Initializing(r)' /\ ~Acknowledging(r)'
  BY <1>1, <1>3 DEF Creating, AboutTo, Initializing, Acknowledging
<1>7. TodoInv'
  BY <1>1, <1>3 DEF TodoInv, Up, Counted
<1> QED BY <1>1, <1>3, <1>4, <1>5, <1>6, <1>7

(* ... a completion, with the end of its run, ...                          *)
LEMMA CompletionWrites ==
    ASSUME NEW t0, NEW result, Journal(TaskCompleted(t0, result)) \in Op,
           NEW end \in Seq(Op), \A i \in DOMAIN end : Plain(end[i]),
           NEW writes, writes = <<Journal(TaskCompleted(t0, result))>> \o end, MayCheckpoint(writes),
           mode' \in {"select", "wait"}
    PROVE  /\ \A t : ~Announced(t)' /\ ~Spawning(t)' /\ (Completing(t)' <=> t = t0)
           /\ \A r : ~Creating(r)' /\ ~Initializing(r)' /\ ~Acknowledging(r)'
           /\ TodoInv'
<1> DEFINE first == Journal(TaskCompleted(t0, result))
<1>1. /\ first.op = "journal" /\ first.event.type = "TaskCompleted" /\ first.event.task = t0
      /\ TakeCheckpoint.op = "checkpoint"
  BY DEF Journal, TaskCompleted, TakeCheckpoint
<1>2. first \in Op /\ (todo' = <<first>> \o end \/ todo' = Append(<<first>> \o end, TakeCheckpoint))
  BY DEF MayCheckpoint
<1> HIDE DEF first
<1>3. /\ todo' # <<>> /\ todo'[1] = first /\ 1 \in DOMAIN todo'
      /\ \A i \in DOMAIN todo' : i = 1 \/ todo'[i] = TakeCheckpoint
                                 \/ (i - 1 \in DOMAIN end /\ todo'[i] = end[i - 1])
  <2> DEFINE all == <<first>> \o end
  <2>1. /\ all \in Seq(Op) /\ Len(all) = Len(end) + 1 /\ all[1] = first
        /\ \A i \in 1..Len(all) : i = 1 \/ (i - 1 \in DOMAIN end /\ all[i] = end[i - 1])
    BY <1>2
  <2> HIDE DEF all
  <2>2. CASE todo' = all
    BY <2>1, <2>2
  <2>3. CASE todo' = Append(all, TakeCheckpoint)
    BY <2>1, <2>3, WritesAreTyped
  <2> QED BY <1>2, <2>2, <2>3 DEF all
<1>4. \A i \in DOMAIN todo' : i > 1 =>
         ~Counted(todo'[i]) /\ todo'[i].op \notin {"spawn", "initialize", "acknowledge"}
  BY <1>1, <1>3 DEF Plain, Counted
<1>5. \A t : ~Announced(t)' /\ ~Spawning(t)' /\ (Completing(t)' <=> t = t0)
  <2>1. \A t : ~Announced(t)' /\ (Completing(t)' <=> t = t0)
    BY <1>1, <1>3 DEF Announced, Completing, AboutTo
  <2>2. \A i \in DOMAIN todo' : todo'[i].op # "spawn"
    BY <1>1, <1>3 DEF Plain
  <2> QED BY <2>1, <2>2 DEF Spawning
<1>6. \A r : ~Creating(r)' /\ ~Initializing(r)' /\ ~Acknowledging(r)'
  <2>1. \A i \in DOMAIN todo' : todo'[i].op \notin {"initialize", "acknowledge"}
    BY <1>1, <1>3 DEF Plain
  <2> QED BY <1>1, <1>3, <2>1 DEF Creating, AboutTo, Initializing, Acknowledging
<1>7. TodoInv'
  <2>1. \A i \in DOMAIN todo' : todo'[i].op \notin {"spawn", "initialize"}
    BY <1>1, <1>3 DEF Plain
  <2> QED BY <1>4, <2>1 DEF TodoInv, Up
<1> QED BY <1>5, <1>6, <1>7

(* ... or what a submission asks for.                                      *)
LEMMA SubmissionWrites ==
    ASSUME NEW r0, NEW s, NEW request,
           todo' = <<Journal(SubRunCreated(r0, s)), CreateRun(r0), Journal(StepsNeeded(r0)),
                     Initialize(r0), Acknowledge(request, r0)>>,
           mode' \in {"select", "wait"}
    PROVE  /\ \A t : ~Announced(t)' /\ ~Completing(t)' /\ ~Spawning(t)'
           /\ \A r : /\ Creating(r)' <=> r = r0
                     /\ Initializing(r)' <=> r = r0
                     /\ Acknowledging(r)' <=> r = r0
           /\ TodoInv'
<1> DEFINE a == Journal(SubRunCreated(r0, s))
           b == CreateRun(r0)
           c == Journal(StepsNeeded(r0))
           d == Initialize(r0)
           e == Acknowledge(request, r0)
<1>1. /\ a.op = "journal" /\ a.event.type = "SubRunCreated" /\ a.event.run = r0
      /\ b.op = "create" /\ c.op = "journal" /\ c.event.type = "StepsNeeded"
      /\ d.op = "initialize" /\ d.run = r0 /\ e.op = "acknowledge" /\ e.run = r0
  BY DEF Journal, SubRunCreated, CreateRun, StepsNeeded, Initialize, Acknowledge
<1>2. todo' = <<a, b, c, d, e>>
  OBVIOUS
<1> HIDE DEF a, b, c, d, e
<1>3. /\ todo' # <<>> /\ todo'[1] = a /\ todo'[4] = d /\ todo'[5] = e /\ {1, 4, 5} \subseteq DOMAIN todo'
      /\ \A i \in DOMAIN todo' : i = 1 \/ todo'[i] = b \/ todo'[i] = c
                                 \/ (i = 4 /\ todo'[i] = d) \/ todo'[i] = e
  BY <1>2
<1>4. \A t : ~Announced(t)' /\ ~Completing(t)' /\ ~Spawning(t)'
  BY <1>1, <1>3 DEF Announced, Completing, AboutTo, Spawning
<1>5. \A r : /\ Creating(r)' <=> r = r0
             /\ Initializing(r)' <=> r = r0
             /\ Acknowledging(r)' <=> r = r0
  BY <1>1, <1>3 DEF Creating, AboutTo, Initializing, Acknowledging
<1>6. TodoInv'
  BY <1>1, <1>3 DEF TodoInv, Up, Counted
<1> QED BY <1>4, <1>5, <1>6

LEMMA StillNothing ==
    ASSUME todo' = <<>>
    PROVE  /\ \A t : ~Announced(t)' /\ ~Completing(t)' /\ ~Spawning(t)'
           /\ \A r : ~Creating(r)' /\ ~Initializing(r)' /\ ~Acknowledging(r)'
           /\ TodoInv'
<1>1. DOMAIN todo' = {}
  OBVIOUS
<1>2. /\ \A t : ~Announced(t)' /\ ~Completing(t)' /\ ~Spawning(t)'
      /\ \A r : ~Creating(r)' /\ ~Initializing(r)' /\ ~Acknowledging(r)'
  BY <1>1 DEF Announced, Completing, Creating, AboutTo, Spawning, Initializing, Acknowledging
<1>3. TodoInv'
  BY <1>1 DEF TodoInv
<1> QED BY <1>2, <1>3

-----------------------------------------------------------------------------
(* The loop.                                                               *)
LEMMA StartKeepsInv ==
    ASSUME ExecutorTypeOK, ExecutorInv, Start
    PROVE  ExecutorInv'
<1> DEFINE announced == mem.runs \ (mem.recovered \ mem.needing)
           E == {Journal(StepsNeeded(r)) : r \in announced}
           ready == UNION {ReadyTasks(r, mem.completed) : r \in mem.runs}
<1>1. /\ mode = "starting" /\ todo = <<>> /\ mode' = "select" /\ Up /\ Up'
      /\ UNCHANGED <<futures, requests, recoverable, past>>
      /\ mem' = [mem EXCEPT !.queue = ready] /\ todo' = SetToSeq(E)
  BY DEF Start, Handling, Up
<1>2. /\ mem'.queue = ready /\ mem'.completed = mem.completed /\ mem'.runs = mem.runs
      /\ mem'.attempts = mem.attempts
  BY <1>1 DEF ExecutorTypeOK, Memory
<1>3. /\ \A t : ~Announced(t)' /\ ~Completing(t)' /\ ~Spawning(t)'
      /\ \A r : ~Creating(r)' /\ ~Initializing(r)' /\ ~Acknowledging(r)'
      /\ TodoInv'
  <2>1. announced \in SUBSET Run
    BY DEF ExecutorTypeOK, Memory
  <2>2. todo' \in Seq(E) /\ E \subseteq Op
    BY <1>1, <2>1, StepsNeededSeq
  <2>3. todo' \in Seq(Op) /\ \A i \in DOMAIN todo' : todo'[i] \in E
    BY <2>2, SeqMonotonic
  <2>4. \A i \in DOMAIN todo' : Plain(todo'[i])
    BY <2>3 DEF Plain, Counted, Journal, StepsNeeded
  <2> HIDE DEF E
  <2> QED BY <1>1, <2>3, <2>4, PlainWrites
<1>4. /\ \A t : ~Announced(t) /\ ~Completing(t) /\ ~Spawning(t)
      /\ \A r : ~Creating(r) /\ ~Initializing(r) /\ ~Acknowledging(r)
  BY <1>1, NothingToWrite
<1>5. \A t \in Task : futures[t] = Idle
  BY <1>1 DEF ExecutorInv, ModeInv
<1>6. \A t \in Task : t \in ready =>
        /\ t[2] \notin mem.completed[t[1]] /\ DependsOn[t[2]] \subseteq mem.completed[t[1]]
        /\ t[1] = Root \/ past.created[t[1]] # None
  <2> SUFFICES ASSUME NEW t \in Task, NEW r \in mem.runs, t \in ReadyTasks(r, mem.completed)
               PROVE  /\ t[2] \notin mem.completed[t[1]] /\ DependsOn[t[2]] \subseteq mem.completed[t[1]]
                      /\ t[1] = Root \/ past.created[t[1]] # None
    OBVIOUS
  <2>1. r \in Run
    BY DEF ExecutorTypeOK, Memory
  <2>2. t[1] = r /\ t[2] \notin mem.completed[r] /\ DependsOn[t[2]] \subseteq mem.completed[r]
    BY <2>1, ReadyTasksAreTasks
  <2>3. r = Root \/ past.created[r] # None
    BY <1>4, <2>1 DEF ExecutorInv, RunsInv, Run
  <2> QED BY <2>2, <2>3
<1> HIDE DEF announced, E, ready
<1>7. ModeInv' /\ HistoryInv' /\ MemoryInv'
  <2>1. \A t \in Task : past.attempt[t] \in Nat
    BY DEF ExecutorTypeOK
  <2> QED BY <1>1, <1>2, <1>3, <1>4, <2>1 DEF ExecutorInv, ModeInv, HistoryInv, MemoryInv
<1>8. \A t \in Task : Active(t)' <=> t \in ready
  BY <1>1, <1>2, <1>3, <1>5 DEF Active
<1>9. ActiveInv'
  BY <1>1, <1>2, <1>3, <1>5, <1>6, <1>8 DEF ActiveInv
<1>10. IdsInv'
  BY <1>1, <1>3, <1>5 DEF IdsInv
<1>11. RunsInv' /\ RequestsInv'
  BY <1>1, <1>2, <1>3, <1>4 DEF ExecutorInv, RunsInv, RequestsInv
<1>12. WorkInv'
  <2>1. \A t \in Task : /\ t[1] \in mem.runs /\ t[2] \notin mem.completed[t[1]]
                         /\ DependsOn[t[2]] \subseteq mem.completed[t[1]]
                         => t \in ready
    <3>1. \A t \in Task : /\ t[1] \in mem.runs /\ t[2] \notin mem.completed[t[1]]
                           /\ DependsOn[t[2]] \subseteq mem.completed[t[1]]
                           => t \in ReadyTasks(t[1], mem.completed)
      BY TaskParts, ReadyTasksAreTasks
    <3> QED BY <3>1 DEF ready
  <2> QED BY <1>1, <1>2, <1>8, <2>1 DEF WorkInv
<1> QED BY <1>3, <1>7, <1>9, <1>10, <1>11, <1>12 DEF ExecutorInv

LEMMA SelectTasksKeepsInv ==
    ASSUME ExecutorTypeOK, ExecutorInv, SelectTasks
    PROVE  ExecutorInv'
<1>1. /\ mode = "select" /\ todo = <<>> /\ mode' = "wait" /\ Up /\ Up'
      /\ UNCHANGED <<futures, requests, recoverable>>
  BY DEF SelectTasks, Handling, Up
<1>2. PICK tasks \in kSubset(Min({MaxToStart, Cardinality(mem.queue)}), mem.queue) :
        LET attempts == [t \in Task |-> mem.attempts[t] + IF t \in tasks THEN 1 ELSE 0]
            ids == [t \in Task |-> IF t \in tasks THEN TaskId(t) ELSE mem.live_ids[t]]
        IN  /\ mem' = [mem EXCEPT !.queue = @ \ tasks,
                                  !.attempts = attempts,
                                  !.live_ids = ids,
                                  !.recovered_ids = [t \in Task |->
                                        IF t \in tasks THEN 0 ELSE @[t]]]
            /\ past' = [past EXCEPT !.issued = [t \in Task |->
                    IF t \in tasks THEN Max({@[t], ids[t]}) ELSE @[t]]]
            /\ todo' = Dispatch(tasks, attempts, ids)
  BY DEF SelectTasks
<1> DEFINE attempts == [t \in Task |-> mem.attempts[t] + IF t \in tasks THEN 1 ELSE 0]
           ids == [t \in Task |-> IF t \in tasks THEN TaskId(t) ELSE mem.live_ids[t]]
<1>3. tasks \subseteq mem.queue
  BY DEF kSubset
<1>4. /\ mem'.queue = mem.queue \ tasks /\ mem'.attempts = attempts /\ mem'.live_ids = ids
      /\ mem'.completed = mem.completed /\ mem'.runs = mem.runs
  BY <1>2 DEF ExecutorTypeOK, Memory
<1>5. /\ past'.attempt = past.attempt /\ past'.completions = past.completions
      /\ past'.created = past.created
  BY <1>2 DEF ExecutorTypeOK
<1>6. todo' = Dispatch(tasks, attempts, ids)
  BY <1>2
<1>7. \A t \in Task : /\ attempts[t] = mem.attempts[t] + IF t \in tasks THEN 1 ELSE 0
                      /\ ids[t] = IF t \in tasks THEN TaskId(t) ELSE mem.live_ids[t]
  OBVIOUS
<1>8. \A t \in Task : TaskId(t) # 0
  BY DEF TaskId, ExecutorTypeOK
<1> HIDE DEF attempts, ids
<1>9. /\ \A t : (Announced(t)' <=> t \in tasks) /\ (Spawning(t)' <=> t \in tasks) /\ ~Completing(t)'
      /\ \A r : ~Creating(r)' /\ ~Initializing(r)'
      /\ todo'[1].event.attempts = attempts /\ todo'[1].event.ids = ids
      /\ TodoInv'
  BY <1>1, <1>6, DispatchWrites DEF MayCheckpoint
<1>10. /\ \A t : ~Announced(t) /\ ~Completing(t) /\ ~Spawning(t)
       /\ \A r : ~Creating(r) /\ ~Initializing(r)
  BY <1>1, NothingToWrite
<1>11. \A t \in Task : Active(t)' <=> Active(t)
  BY <1>1, <1>3, <1>4, <1>9, <1>10 DEF Active
<1>12. ModeInv' /\ HistoryInv'
  BY <1>1, <1>5 DEF ExecutorInv, ModeInv, HistoryInv
<1>13. MemoryInv'
  <2> SUFFICES ASSUME NEW t \in Task
               PROVE  /\ t[2] \in mem.completed[t[1]] <=> t[2] \in recoverable.completed[t[1]]
                      /\ attempts[t] = past.attempt[t] + IF t \in tasks THEN 1 ELSE 0
    BY <1>1, <1>4, <1>5, <1>9 DEF MemoryInv
  <2>1. mem.attempts[t] = past.attempt[t] + 0 /\ past.attempt[t] \in Nat
    BY <1>1, <1>10 DEF ExecutorInv, MemoryInv, ExecutorTypeOK
  <2> QED BY <1>1, <1>7, <1>10, <2>1 DEF ExecutorInv, MemoryInv
<1>14. ActiveInv'
  BY <1>1, <1>3, <1>4, <1>5, <1>9, <1>10, <1>11 DEF ExecutorInv, ActiveInv
<1>15. IdsInv'
  <2>1. \A t \in Task : futures[t] # Idle => t \notin tasks
    BY <1>1, <1>3 DEF ExecutorInv, ActiveInv
  <2> QED BY <1>1, <1>4, <1>7, <1>8, <1>9, <2>1 DEF ExecutorInv, IdsInv
<1>16. RunsInv' /\ RequestsInv'
  BY <1>1, <1>4, <1>5, <1>9, <1>10 DEF ExecutorInv, RunsInv, RequestsInv
<1>17. WorkInv'
  BY <1>1, <1>4, <1>10, <1>11 DEF ExecutorInv, WorkInv
<1> QED BY <1>9, <1>12, <1>13, <1>14, <1>15, <1>16, <1>17 DEF ExecutorInv

LEMMA SelectNothingKeepsInv ==
    ASSUME ExecutorTypeOK, ExecutorInv, SelectNothing
    PROVE  ExecutorInv'
<1>1. /\ mode = "select" /\ todo = <<>> /\ mode' = "wait"
      /\ UNCHANGED <<mem, todo, futures, requests, recoverable, past>>
  BY DEF SelectNothing, Handling
<1>2. /\ \A t : ~Announced(t) /\ ~Completing(t) /\ ~Spawning(t)
      /\ \A r : ~Creating(r) /\ ~Initializing(r)
  BY <1>1, NothingToWrite
<1>3. /\ \A t : ~Announced(t)' /\ ~Completing(t)' /\ ~Spawning(t)'
      /\ \A r : ~Creating(r)' /\ ~Initializing(r)'
      /\ TodoInv'
  BY <1>1, StillNothing
<1>4. RequestsInv'
  BY <1>1, <1>2, <1>3 DEF ExecutorInv, RequestsInv
<1> QED BY <1>1, <1>2, <1>3, <1>4, QuietStep

LEMMA FinishRootKeepsInv ==
    ASSUME ExecutorTypeOK, ExecutorInv, FinishRoot
    PROVE  ExecutorInv'
<1>1. /\ mode = "select" /\ todo = <<>> /\ ~Up' /\ mode' # "starting"
      /\ UNCHANGED <<mem, futures, requests, recoverable, past>>
      /\ \A t \in Task : futures[t] = Idle
      /\ \/ mode' = "done" /\ todo' = EndOfRun(Root, mem.failed)
         \/ mode' = "deadlocked" /\ todo' = <<>>
  BY DEF FinishRoot, Handling, Up, InFlight
<1>2. /\ \A r : ~Creating(r)' /\ ~Initializing(r)'
      /\ TodoInv'
  <2>1. CASE mode' = "done" /\ todo' = EndOfRun(Root, mem.failed)
    <3>1. todo' \in Seq(Op) /\ \A i \in DOMAIN todo' : Plain(todo'[i])
      BY <2>1, EndOfRunIsTyped, TaskParts DEF Plain, Counted
    <3> QED BY <2>1, <3>1, PlainWrites
  <2>2. CASE mode' = "deadlocked" /\ todo' = <<>>
    BY <2>2, StillNothing
  <2> QED BY <1>1, <2>1, <2>2
<1>3. \A r : ~Creating(r) /\ ~Initializing(r)
  BY <1>1, NothingToWrite
<1>4. ModeInv' /\ HistoryInv' /\ MemoryInv' /\ ActiveInv' /\ IdsInv'
  BY <1>1 DEF ExecutorInv, ModeInv, HistoryInv, MemoryInv, ActiveInv, IdsInv
<1>5. RunsInv' /\ RequestsInv'
  BY <1>1, <1>2, <1>3 DEF ExecutorInv, RunsInv, RequestsInv
<1>6. WorkInv'
  BY <1>1 DEF WorkInv, Up
<1> QED BY <1>2, <1>4, <1>5, <1>6 DEF ExecutorInv

LEMMA RetryTaskKeepsInv ==
    ASSUME ExecutorTypeOK, ExecutorInv, NEW t \in Task, RetryTask(t)
    PROVE  ExecutorInv'
<1>1. /\ mode = "wait" /\ todo = <<>> /\ mode' = "select" /\ Up /\ Up'
      /\ UNCHANGED <<requests, recoverable>>
      /\ futures' = [futures EXCEPT ![t] = Idle] /\ futures[t].phase = "finished"
      /\ MayCheckpoint(Dispatch({t}, mem'.attempts, mem.live_ids))
  BY DEF RetryTask, Handling, Up, Finished
<1>2. /\ mem'.attempts = [mem.attempts EXCEPT ![t] = @ + 1]
      /\ mem'.queue = mem.queue /\ mem'.live_ids = mem.live_ids
      /\ mem'.completed = mem.completed /\ mem'.runs = mem.runs
  BY DEF RetryTask, ExecutorTypeOK, Memory
<1>3. /\ past'.attempt = past.attempt /\ past'.completions = past.completions
      /\ past'.created = past.created
  BY DEF RetryTask, ExecutorTypeOK
<1>4. /\ \A x : (Announced(x)' <=> x = t) /\ (Spawning(x)' <=> x = t) /\ ~Completing(x)'
      /\ \A r : ~Creating(r)' /\ ~Initializing(r)'
      /\ todo'[1].event.attempts = mem'.attempts /\ todo'[1].event.ids = mem.live_ids
      /\ TodoInv'
  BY <1>1, DispatchWrites
<1>5. /\ \A x : ~Announced(x) /\ ~Completing(x) /\ ~Spawning(x)
      /\ \A r : ~Creating(r) /\ ~Initializing(r)
  BY <1>1, NothingToWrite
<1>6. futures[t] # Idle
  BY <1>1 DEF Idle
<1>7. \A x \in Task : futures'[x] = IF x = t THEN Idle ELSE futures[x]
  BY <1>1 DEF ExecutorTypeOK
<1>8. \A x \in Task : Active(x)' <=> Active(x)
  BY <1>2, <1>4, <1>5, <1>6, <1>7 DEF Active
<1>9. ModeInv' /\ HistoryInv'
  BY <1>1, <1>3 DEF ExecutorInv, ModeInv, HistoryInv
<1>10. MemoryInv'
  <2> SUFFICES ASSUME NEW x \in Task
               PROVE  /\ x[2] \in mem.completed[x[1]] <=> x[2] \in recoverable.completed[x[1]]
                      /\ mem'.attempts[x] = past.attempt[x] + IF x = t THEN 1 ELSE 0
    BY <1>1, <1>2, <1>3, <1>4 DEF MemoryInv
  <2>1. mem.attempts[x] = past.attempt[x] + 0 /\ past.attempt[x] \in Nat
    BY <1>1, <1>5 DEF ExecutorInv, MemoryInv, ExecutorTypeOK
  <2>2. mem'.attempts[x] = IF x = t THEN mem.attempts[x] + 1 ELSE mem.attempts[x]
    BY <1>2 DEF ExecutorTypeOK, Memory
  <2> QED BY <1>1, <1>5, <2>1, <2>2 DEF ExecutorInv, MemoryInv
<1>11. ActiveInv'
  BY <1>1, <1>2, <1>3, <1>4, <1>5, <1>6, <1>7, <1>8 DEF ExecutorInv, ActiveInv
<1>12. IdsInv'
  BY <1>1, <1>2, <1>4, <1>6, <1>7 DEF ExecutorInv, IdsInv
<1>13. RunsInv' /\ RequestsInv'
  BY <1>1, <1>2, <1>3, <1>4, <1>5 DEF ExecutorInv, RunsInv, RequestsInv
<1>14. WorkInv'
  BY <1>1, <1>2, <1>5, <1>8 DEF ExecutorInv, WorkInv
<1> QED BY <1>4, <1>9, <1>10, <1>11, <1>12, <1>13, <1>14 DEF ExecutorInv

(* The end of a subflow is written after the completion of its last task.  *)
LEMMA CompletionEnds ==
    ASSUME NEW r \in Run, NEW failed, NEW end,
           end = EndOfRun(r, failed) \o <<Evict(r)>> \/ end = <<>>
    PROVE  end \in Seq(Op) /\ \A i \in DOMAIN end : Plain(end[i])
<1>1. CASE end = <<>>
  BY <1>1
<1>2. CASE end = EndOfRun(r, failed) \o <<Evict(r)>>
  <2> DEFINE first == EndOfRun(r, failed)
             last == Evict(r)
  <2>1. /\ first \in Seq(Op) /\ Len(first) = 3 /\ \A i \in 1..3 : Plain(first[i])
    BY EndOfRunIsTyped DEF Plain, Counted
  <2>2. last \in Op /\ Plain(last)
    BY WritesAreTyped DEF Evict, Plain, Counted
  <2>3. end = first \o <<last>>
    BY <1>2
  <2> HIDE DEF first, last
  <2>4. end \in Seq(Op) /\ Len(end) = 4 /\ end[4] = last /\ \A i \in 1..3 : end[i] = first[i]
    BY <2>1, <2>2, <2>3, SMTT(30)
  <2> QED BY <2>1, <2>2, <2>4
<1> QED BY <1>1, <1>2

LEMMA CompleteTaskKeepsInv ==
    ASSUME ExecutorTypeOK, ExecutorInv, NEW t \in Task, CompleteTask(t)
    PROVE  ExecutorInv'
<1> DEFINE r0 == t[1]
           completed == [mem.completed EXCEPT ![r0] = @ \union {t[2]}]
           failed == [mem.failed EXCEPT ![r0] = @ \union
                        IF futures[t].result = "ok" THEN {} ELSE {t[2]}]
           ready == ReadyTasks(r0, completed) \ ReadyTasks(r0, mem.completed)
           end == IF SubflowEnds(r0, completed) THEN EndOfRun(r0, failed) \o <<Evict(r0)>> ELSE <<>>
           writes == <<Journal(TaskCompleted(t, futures[t].result))>> \o end
<1>1. /\ mode = "wait" /\ todo = <<>> /\ mode' = "select" /\ Up /\ Up'
      /\ UNCHANGED <<requests, recoverable, past>>
      /\ futures' = [futures EXCEPT ![t] = Idle] /\ futures[t].phase = "finished"
      /\ mem' = [mem EXCEPT !.completed = completed, !.failed = failed,
                            !.queue = @ \union ready, !.live_ids[t] = 0]
      /\ MayCheckpoint(writes)
  BY DEF CompleteTask, Handling, Up, Finished
<1>2. r0 \in Run /\ t[2] \in Step
  BY TaskParts
<1>3. \A x \in Task : x[2] \in completed[x[1]] <=> x[2] \in mem.completed[x[1]] \/ x = t
  BY <1>2, TaskParts, ZenonT(60) DEF ExecutorTypeOK, Memory
<1>4. \A x \in Task : mem.completed[x[1]] \subseteq completed[x[1]]
  BY <1>2, TaskParts DEF ExecutorTypeOK, Memory
<1>5. \A x \in Task : x \in ready =>
        /\ x[1] = r0 /\ x[2] \notin completed[x[1]] /\ DependsOn[x[2]] \subseteq completed[x[1]]
        /\ ~(DependsOn[x[2]] \subseteq mem.completed[x[1]])
  <2> SUFFICES ASSUME NEW x \in Task, x \in ready
               PROVE  /\ x[1] = r0 /\ x[2] \notin completed[x[1]] /\ DependsOn[x[2]] \subseteq completed[x[1]]
                      /\ ~(DependsOn[x[2]] \subseteq mem.completed[x[1]])
    OBVIOUS
  <2>0. x \in ReadyTasks(r0, completed) /\ x \notin ReadyTasks(r0, mem.completed)
    OBVIOUS
  <2> HIDE DEF completed, failed, ready, end, r0
  <2>1. x[1] = r0 /\ x[2] \notin completed[r0] /\ DependsOn[x[2]] \subseteq completed[r0]
    BY <1>2, <2>0, ReadyTasksAreTasks
  <2>2. x[2] \notin mem.completed[r0]
    BY <1>4, <2>1
  <2>3. ~(DependsOn[x[2]] \subseteq mem.completed[r0])
    BY <1>2, <2>0, <2>1, <2>2, ReadyTasksAreTasks
  <2> QED BY <2>1, <2>3
<1>6. futures[t].result \in {"ok", "error", "transport", None} /\ futures[t] # Idle
  <2>1. futures[t] \in Future
    BY DEF ExecutorTypeOK
  <2>2. futures[t].result \in {"ok", "error", "transport", None}
    BY <1>1, <2>1 DEF Future
  <2>3. futures[t] # Idle
    BY <1>1 DEF Idle
  <2> QED BY <2>2, <2>3
<1>7. end \in Seq(Op) /\ \A i \in DOMAIN end : Plain(end[i])
  BY <1>2, CompletionEnds
<1>8. Journal(TaskCompleted(t, futures[t].result)) \in Op
  BY <1>6, EventsAreTyped, WritesAreTyped
<1>8a. \A x \in Task : x[1] # r0 => completed[x[1]] = mem.completed[x[1]]
  BY <1>2, TaskParts DEF ExecutorTypeOK, Memory
<1>8b. \A x \in Task : /\ x[1] = r0 /\ x[2] \notin completed[x[1]]
                        /\ DependsOn[x[2]] \subseteq completed[x[1]]
                        /\ ~(DependsOn[x[2]] \subseteq mem.completed[x[1]])
                        => x \in ready
  <2> SUFFICES ASSUME NEW x \in Task, x[1] = r0, x[2] \notin completed[r0],
                      DependsOn[x[2]] \subseteq completed[r0],
                      ~(DependsOn[x[2]] \subseteq mem.completed[r0])
               PROVE  x \in ReadyTasks(r0, completed) \ ReadyTasks(r0, mem.completed)
    OBVIOUS
  <2> HIDE DEF completed, failed, ready, end, r0
  <2> QED BY <1>2, ReadyTasksAreTasks
<1> HIDE DEF completed, failed, ready, end
<1>9. /\ \A x : ~Announced(x)' /\ ~Spawning(x)' /\ (Completing(x)' <=> x = t)
      /\ \A r : ~Creating(r)' /\ ~Initializing(r)'
      /\ TodoInv'
  BY <1>1, <1>7, <1>8, CompletionWrites
<1>10. /\ mem'.queue = mem.queue \union ready /\ mem'.completed = completed
       /\ mem'.attempts = mem.attempts /\ mem'.runs = mem.runs
       /\ mem'.live_ids = [mem.live_ids EXCEPT ![t] = 0]
  BY <1>1 DEF ExecutorTypeOK, Memory
<1>11. /\ \A x : ~Announced(x) /\ ~Completing(x) /\ ~Spawning(x)
       /\ \A r : ~Creating(r) /\ ~Initializing(r)
  BY <1>1, NothingToWrite
<1>12. \A x \in Task : futures'[x] = IF x = t THEN Idle ELSE futures[x]
  BY <1>1 DEF ExecutorTypeOK
<1>13. Active(t) /\ t \notin mem.queue /\ t[2] \notin mem.completed[t[1]]
       /\ (t[1] = Root \/ past.created[t[1]] # None)
  BY <1>1, <1>6 DEF ExecutorInv, ActiveInv, Active
<1>14. \A x \in Task : x \in ready => futures[x] = Idle /\ x # t
  BY <1>1, <1>3, <1>5 DEF ExecutorInv, ActiveInv, Active
<1>15. \A x \in Task : Active(x)' => x # t /\ (Active(x) \/ x \in ready)
  <2> SUFFICES ASSUME NEW x \in Task, Active(x)'
               PROVE  x # t /\ (Active(x) \/ x \in ready)
    OBVIOUS
  <2>1. x \in mem.queue \/ x \in ready \/ futures'[x] # Idle
    BY <1>9, <1>10 DEF Active
  <2> QED BY <1>12, <1>13, <1>14, <2>1 DEF Active
<1>16. ModeInv' /\ HistoryInv'
  BY <1>1 DEF ExecutorInv, ModeInv, HistoryInv
<1>17. MemoryInv'
  <2> SUFFICES ASSUME NEW x \in Task
               PROVE  /\ x[2] \in completed[x[1]] <=> x[2] \in recoverable.completed[x[1]] \/ x = t
                      /\ x = t => x[2] \notin recoverable.completed[x[1]]
                      /\ mem.attempts[x] = past.attempt[x] + 0
    BY <1>1, <1>9, <1>10 DEF MemoryInv
  <2>1. x[2] \in mem.completed[x[1]] <=> x[2] \in recoverable.completed[x[1]]
    BY <1>1, <1>11 DEF ExecutorInv, MemoryInv
  <2>2. mem.attempts[x] = past.attempt[x] + 0
    BY <1>1, <1>11 DEF ExecutorInv, MemoryInv
  <2> QED BY <1>3, <1>13, <2>1, <2>2
<1>18. ActiveInv'
  <2> SUFFICES ASSUME NEW x \in Task
               PROVE  /\ Active(x)' => /\ x[2] \notin completed[x[1]]
                                       /\ DependsOn[x[2]] \subseteq completed[x[1]]
                                       /\ x[1] = Root \/ past.created[x[1]] # None
                      /\ x \in mem'.queue => futures'[x] = Idle
    BY <1>1, <1>9, <1>10 DEF ActiveInv
  <2>1. ASSUME Active(x)'
        PROVE  /\ x[2] \notin completed[x[1]] /\ DependsOn[x[2]] \subseteq completed[x[1]]
               /\ x[1] = Root \/ past.created[x[1]] # None
    <3>1. CASE x \in ready
      BY <1>5, <1>13, <3>1
    <3>2. CASE Active(x)
      BY <1>1, <1>3, <1>4, <1>15, <2>1, <3>2 DEF ExecutorInv, ActiveInv
    <3> QED BY <1>15, <2>1, <3>1, <3>2
  <2>2. x \in mem'.queue => futures'[x] = Idle
    BY <1>1, <1>10, <1>12, <1>14 DEF ExecutorInv, ActiveInv
  <2> QED BY <2>1, <2>2
<1>19. IdsInv'
  <2>1. \A x \in Task : x # t => mem'.live_ids[x] = mem.live_ids[x]
    BY <1>10 DEF ExecutorTypeOK, Memory
  <2> QED BY <1>1, <1>9, <1>12, <2>1 DEF ExecutorInv, IdsInv
<1>20. RunsInv' /\ RequestsInv'
  BY <1>1, <1>9, <1>10, <1>11 DEF ExecutorInv, RunsInv, RequestsInv
<1>21. WorkInv'
  <2> SUFFICES ASSUME NEW x \in Task, x[1] \in mem.runs, x[2] \notin completed[x[1]],
                      DependsOn[x[2]] \subseteq completed[x[1]]
               PROVE  Active(x)'
    BY <1>10 DEF WorkInv
  <2>1. CASE DependsOn[x[2]] \subseteq mem.completed[x[1]]
    <3>1. Active(x) /\ x # t
      BY <1>1, <1>3, <1>11, <2>1 DEF ExecutorInv, WorkInv
    <3> QED BY <1>10, <1>11, <1>12, <3>1 DEF Active
  <2>2. CASE ~(DependsOn[x[2]] \subseteq mem.completed[x[1]])
    <3>1. x[1] = r0
      BY <1>8a, <2>2
    <3>2. x \in ready
      BY <1>8b, <2>2, <3>1
    <3> QED BY <1>10, <3>2 DEF Active
  <2> QED BY <2>1, <2>2
<1> QED BY <1>9, <1>16, <1>17, <1>18, <1>19, <1>20, <1>21 DEF ExecutorInv

LEMMA HandleSubmitKeepsInv ==
    ASSUME ExecutorTypeOK, ExecutorInv, HandleSubmit
    PROVE  ExecutorInv'
<1> DEFINE request == Head(requests)
           s == request.task[2]
           r0 == request.run
           known == mem.subflows[s]
<1>1. /\ mode = "wait" /\ todo = <<>> /\ mode' = "select" /\ Up /\ Up'
      /\ UNCHANGED <<futures, recoverable, past>>
      /\ requests # <<>> /\ requests' = Tail(requests)
  BY DEF HandleSubmit, Handling, Up
<1>2. /\ \A t : ~Announced(t) /\ ~Completing(t) /\ ~Spawning(t)
      /\ \A r : ~Creating(r) /\ ~Initializing(r) /\ ~Acknowledging(r)
  BY <1>1, NothingToWrite
<1>3. /\ request = requests[1] /\ request \in Request /\ 1 \in DOMAIN requests
      /\ \A i \in DOMAIN requests' : /\ i + 1 \in DOMAIN requests /\ i + 1 # 1
                                     /\ requests'[i] = requests[i + 1]
      /\ DOMAIN requests' \subseteq Nat
  BY <1>1 DEF ExecutorTypeOK
<1>4. r0 \in SubRun
  BY <1>3 DEF Request
<1>5. past.created[r0] = None
  BY <1>3 DEF ExecutorInv, RequestsInv
<1>6. \A i \in DOMAIN requests' : past.created[requests'[i].run] = None /\ requests'[i].run # r0
  BY <1>3 DEF ExecutorInv, RequestsInv
<1>7. \A i, j \in DOMAIN requests' : requests'[i].run = requests'[j].run => i = j
  <2> SUFFICES ASSUME NEW i \in DOMAIN requests', NEW j \in DOMAIN requests',
                      requests'[i].run = requests'[j].run
               PROVE  i = j
    OBVIOUS
  <2>1. i + 1 = j + 1
    BY <1>3 DEF ExecutorInv, RequestsInv
  <2> QED BY <1>3, <2>1
<1>8. /\ mem'.queue = mem.queue /\ mem'.completed = mem.completed /\ mem'.attempts = mem.attempts
      /\ mem'.live_ids = mem.live_ids
  BY DEF HandleSubmit, ExecutorTypeOK, Memory
<1>9. /\ \A t : ~Announced(t)' /\ ~Completing(t)' /\ ~Spawning(t)'
      /\ \A r : /\ Creating(r)' => r = r0 /\ Acknowledging(r)'
                /\ Initializing(r)' => r = r0 /\ Creating(r)'
                /\ r \in mem'.runs => r \in mem.runs \/ (Creating(r)' /\ Initializing(r)')
      /\ TodoInv'
  <2>1. CASE known # None
    <3>1. mem'.runs = mem.runs /\ todo' = <<Acknowledge(request, known)>>
      BY <2>1 DEF HandleSubmit, ExecutorTypeOK, Memory
    <3>2. Acknowledge(request, known).op = "acknowledge"
      BY DEF Acknowledge
    <3>3. todo' # <<>> /\ \A i \in DOMAIN todo' : i = 1 /\ todo'[i].op = "acknowledge"
      BY <3>1, <3>2
    <3>4. todo'[1].op # "journal"
      BY <3>1, <3>2
    <3> QED BY <1>1, <3>1, <3>3, <3>4 DEF Announced, Completing, Creating, AboutTo, Spawning,
               Initializing, TodoInv, Up, Counted
  <2>2. CASE known = None
    <3>1. /\ mem'.runs = mem.runs \union {r0}
          /\ todo' = <<Journal(SubRunCreated(r0, s)), CreateRun(r0), Journal(StepsNeeded(r0)),
                       Initialize(r0), Acknowledge(request, r0)>>
      BY <2>2 DEF HandleSubmit, ExecutorTypeOK, Memory
    <3> HIDE DEF request, s, r0, known
    <3> QED BY <1>1, <3>1, SubmissionWrites
  <2> QED BY <2>1, <2>2
<1> HIDE DEF request, s, r0, known
<1>10. \A t \in Task : Active(t)' <=> Active(t)
  BY <1>1, <1>2, <1>8, <1>9 DEF Active
<1>11. \A t \in Task : t[1] = r0 => ~Active(t)
  BY <1>1, <1>4, <1>5, ConstantsAssumption DEF ExecutorInv, ActiveInv
<1>12. ModeInv' /\ HistoryInv' /\ MemoryInv'
  BY <1>1, <1>2, <1>8, <1>9 DEF ExecutorInv, ModeInv, HistoryInv, MemoryInv
<1>13. ActiveInv' /\ IdsInv'
  BY <1>1, <1>2, <1>8, <1>9, <1>10 DEF ExecutorInv, ActiveInv, IdsInv
<1>14. RunsInv'
  BY <1>1, <1>2, <1>4, <1>9, <1>10, <1>11, ConstantsAssumption DEF ExecutorInv, RunsInv
<1>15. RequestsInv'
  BY <1>1, <1>6, <1>7, <1>9 DEF RequestsInv
<1>16. WorkInv'
  BY <1>1, <1>2, <1>8, <1>9, <1>10 DEF ExecutorInv, WorkInv
<1> QED BY <1>9, <1>12, <1>13, <1>14, <1>15, <1>16 DEF ExecutorInv

LEMMA LoopKeepsInv == ExecutorTypeOK /\ ExecutorInv /\ Loop => ExecutorInv'
BY StartKeepsInv, SelectTasksKeepsInv, SelectNothingKeepsInv, FinishRootKeepsInv,
   RetryTaskKeepsInv, CompleteTaskKeepsInv, HandleSubmitKeepsInv DEF Loop

-----------------------------------------------------------------------------
(* The components, crashes and recovery.                                   *)
LEMMA FutureKeepsInv ==
    ASSUME ExecutorTypeOK, ExecutorInv, NEW t \in Task,
           Answer(t) \/ Submit(t) \/ SubflowAnswers(t) \/ LoseWorker(t)
    PROVE  ExecutorInv'
<1>1. /\ UNCHANGED <<mode, mem, todo, recoverable, past>>
      /\ futures[t].phase # "idle"
      /\ \E new : futures' = [futures EXCEPT ![t] = new] /\ new.phase # "idle"
  <2>1. \A result : FutureEnds(t, result) =>
          /\ UNCHANGED <<mode, mem, todo, recoverable, past>>
          /\ \E new : futures' = [futures EXCEPT ![t] = new] /\ new.phase # "idle"
    <3> SUFFICES ASSUME NEW result, FutureEnds(t, result)
                 PROVE  /\ UNCHANGED <<mode, mem, todo, recoverable, past>>
                        /\ \E new : futures' = [futures EXCEPT ![t] = new] /\ new.phase # "idle"
      OBVIOUS
    <3> DEFINE finished == [phase |-> "finished", result |-> result]
    <3>1. futures' = [futures EXCEPT ![t] = finished] /\ finished.phase # "idle"
      BY DEF FutureEnds
    <3> QED BY <3>1 DEF FutureEnds
  <2>2. CASE Submit(t)
    <3> DEFINE submitting == [phase |-> "submitting"]
    <3>1. futures' = [futures EXCEPT ![t] = submitting] /\ submitting.phase # "idle"
      BY <2>2 DEF Submit
    <3> QED BY <2>2, <3>1 DEF Submit
  <2>3. CASE Answer(t)
    BY <2>1, <2>3 DEF Answer
  <2>4. CASE SubflowAnswers(t)
    BY <2>1, <2>4 DEF SubflowAnswers
  <2>5. CASE LoseWorker(t)
    BY <2>1, <2>5 DEF LoseWorker
  <2> QED BY <2>2, <2>3, <2>4, <2>5
<1>2. \A x \in Task : futures'[x] = Idle <=> futures[x] = Idle
  <2>1. PICK new : futures' = [futures EXCEPT ![t] = new] /\ new.phase # "idle"
    BY <1>1
  <2>2. new # Idle /\ futures[t] # Idle
    BY <1>1, <2>1 DEF Idle
  <2> QED BY <2>1, <2>2 DEF ExecutorTypeOK
<1>3. /\ \A x : /\ Announced(x)' <=> Announced(x)
                /\ Completing(x)' <=> Completing(x)
                /\ Spawning(x)' <=> Spawning(x)
      /\ \A r : /\ Creating(r)' <=> Creating(r)
                /\ Initializing(r)' <=> Initializing(r)
                /\ Acknowledging(r)' <=> Acknowledging(r)
      /\ Up' <=> Up
  BY <1>1 DEF Announced, Completing, Creating, AboutTo, Spawning, Initializing, Acknowledging, Up
<1>4. \A x \in Task : Active(x)' <=> Active(x)
  BY <1>1, <1>2, <1>3 DEF Active
<1>5. TodoInv' /\ ModeInv' /\ HistoryInv'
  BY <1>1, <1>2 DEF ExecutorInv, TodoInv, ModeInv, HistoryInv, Up
<1>6. MemoryInv'
  BY <1>1, <1>3 DEF ExecutorInv, MemoryInv
<1>7. ActiveInv' /\ IdsInv'
  BY <1>1, <1>2, <1>3, <1>4 DEF ExecutorInv, ActiveInv, IdsInv
<1>8. RunsInv'
  BY <1>1, <1>3, <1>4 DEF ExecutorInv, RunsInv
<1>9. RequestsInv'
  <2>1. CASE requests' = requests
    BY <1>1, <1>3, <2>1 DEF ExecutorInv, RequestsInv
  <2>2. CASE requests' # requests
    <3> DEFINE r0 == CHOOSE r \in FreeRuns : TRUE
               new == [task |-> t, attempt |-> mem.attempts[t], run |-> r0]
    <3>1. Submit(t)
      BY <2>2 DEF Answer, SubflowAnswers, LoseWorker, FutureEnds
    <3>2. r0 \in FreeRuns /\ requests' = Append(requests, new)
      BY <3>1 DEF Submit
    <3>3. /\ past.created[r0] = None /\ ~Acknowledging(r0) /\ r0 \in SubRun
          /\ \A i \in DOMAIN requests : requests[i].run # r0
      BY <3>2 DEF FreeRuns, Acknowledging
    <3>4. ~Creating(r0)
      BY <3>3 DEF ExecutorInv, RunsInv
    <3>5. new.run = r0
      OBVIOUS
    <3> HIDE DEF r0, new
    <3>6. \A i \in DOMAIN requests' :
            \/ i \in DOMAIN requests /\ requests'[i] = requests[i]
            \/ i = Len(requests) + 1 /\ requests'[i] = new
      BY <3>2 DEF ExecutorTypeOK
    <3> QED BY <1>1, <1>3, <3>3, <3>4, <3>5, <3>6 DEF ExecutorInv, RequestsInv
  <2> QED BY <2>1, <2>2
<1>10. WorkInv'
  BY <1>1, <1>3, <1>4 DEF ExecutorInv, WorkInv
<1> QED BY <1>5, <1>6, <1>7, <1>8, <1>9, <1>10 DEF ExecutorInv

LEMMA CrashKeepsInv == ExecutorTypeOK /\ ExecutorInv /\ Crash => ExecutorInv'
<1> SUFFICES ASSUME ExecutorTypeOK, ExecutorInv, Crash PROVE ExecutorInv'
  OBVIOUS
<1>1. /\ mode' = "down" /\ todo' = <<>> /\ requests' = <<>> /\ ~Up'
      /\ mem'.runs = {Root}
      /\ \A t \in Task : futures'[t] = Idle
      /\ UNCHANGED <<recoverable, past>>
  BY DEF Crash, FreshMemory, Up
<1>2. TodoInv' /\ \A r : ~Creating(r)' /\ ~Initializing(r)'
  BY <1>1, StillNothing
<1>3. ModeInv' /\ HistoryInv' /\ MemoryInv' /\ ActiveInv' /\ IdsInv'
  BY <1>1 DEF ExecutorInv, ModeInv, HistoryInv, MemoryInv, ActiveInv, IdsInv
<1>4. RunsInv'
  BY <1>1, <1>2, ConstantsAssumption DEF ExecutorInv, RunsInv
<1>5. RequestsInv'
  BY <1>1 DEF RequestsInv
<1>6. WorkInv'
  BY <1>1 DEF WorkInv
<1> QED BY <1>2, <1>3, <1>4, <1>5, <1>6 DEF ExecutorInv

LEMMA RecoverKeepsInv == ExecutorTypeOK /\ ExecutorInv /\ Recover => ExecutorInv'
<1> SUFFICES ASSUME ExecutorTypeOK, ExecutorInv, Recover PROVE ExecutorInv'
  OBVIOUS
<1>1. /\ mode \in {"down", "deadlocked"} /\ requests' = <<>>
      /\ UNCHANGED <<todo, futures, recoverable, past>>
      /\ \/ mode' = "done" /\ mem' = mem
         \/ mode' = "starting" /\ mem' = RecoveredMemory
  BY DEF Recover
<1>2. todo = <<>> /\ \A t \in Task : futures[t] = Idle
  BY <1>1 DEF ExecutorInv, TodoInv, ModeInv
<1>3. /\ TodoInv'
      /\ \A r : ~Creating(r)' /\ ~Initializing(r)'
      /\ \A t : ~Announced(t)' /\ ~Completing(t)' /\ ~Spawning(t)'
  BY <1>1, <1>2, StillNothing
<1>4. \A r : ~Creating(r)
  BY <1>2, NothingToWrite
<1>5. RequestsInv' /\ HistoryInv' /\ WorkInv'
  BY <1>1 DEF ExecutorInv, RequestsInv, HistoryInv, WorkInv
<1>6. CASE mode' = "done" /\ mem' = mem
  <2>1. ModeInv' /\ MemoryInv' /\ ActiveInv' /\ IdsInv'
    BY <1>1, <1>2, <1>6 DEF ModeInv, MemoryInv, ActiveInv, IdsInv, Up
  <2>2. RunsInv'
    BY <1>1, <1>3, <1>4, <1>6 DEF ExecutorInv, RunsInv
  <2> QED BY <1>3, <1>5, <2>1, <2>2 DEF ExecutorInv
<1>7. CASE mode' = "starting" /\ mem' = RecoveredMemory
  <2>1. /\ mem'.runs = recoverable.runs /\ mem'.completed = recoverable.completed
        /\ mem'.attempts = recoverable.attempts /\ mem'.queue = {}
    BY <1>7 DEF RecoveredMemory, FreshMemory
  <2>2. \A t : ~Active(t)' \/ t \notin Task
    BY <1>1, <1>2, <1>3, <2>1 DEF Active
  <2>3. ModeInv' /\ ActiveInv' /\ IdsInv'
    BY <1>1, <1>2, <1>3, <1>7, <2>1, <2>2 DEF ModeInv, ActiveInv, IdsInv
  <2>4. MemoryInv'
    <3>1. \A t \in Task : recoverable.attempts[t] = past.attempt[t] + 0 /\ past.attempt[t] \in Nat
      BY DEF ExecutorInv, HistoryInv, ExecutorTypeOK
    <3> QED BY <1>1, <1>3, <2>1, <3>1 DEF MemoryInv
  <2>5. RunsInv'
    BY <1>1, <1>3, <2>1 DEF ExecutorInv, RunsInv
  <2> QED BY <1>3, <1>5, <2>3, <2>4, <2>5 DEF ExecutorInv
<1> QED BY <1>1, <1>6, <1>7

LEMMA InvStep == ExecutorTypeOK /\ ExecutorInv /\ [Next]_vars => ExecutorInv'
<1> SUFFICES ASSUME ExecutorTypeOK, ExecutorInv, [Next]_vars PROVE ExecutorInv'
  OBVIOUS
<1>1. CASE UNCHANGED vars
  BY <1>1 DEF vars, ExecutorInv, TodoInv, ModeInv, HistoryInv, MemoryInv, ActiveInv, IdsInv, RunsInv,
     RequestsInv, WorkInv, Up, Announced, Completing, Creating, AboutTo, Spawning, Initializing,
     Acknowledging, Active
<1>2. CASE Stopped
  BY <1>1, <1>2 DEF Stopped
<1> QED BY <1>1, <1>2, WriteKeepsInv, LoopKeepsInv, FutureKeepsInv, CrashKeepsInv,
           RecoverKeepsInv DEF Next, Progress

-----------------------------------------------------------------------------
(* Memory, the writes ahead, the journal with its checkpoints, and the     *)
(* history of the tree agree, whatever crashes, retries and checkpoints    *)
(* come between.                                                           *)
THEOREM ExecutorAgreesWithJournal == Spec => [](ExecutorTypeOK /\ ExecutorInv)
<1>1. Init => ExecutorTypeOK /\ ExecutorInv
  BY TypeInit, InvInit
<1>2. ExecutorTypeOK /\ ExecutorInv /\ [Next]_vars => (ExecutorTypeOK /\ ExecutorInv)'
  BY TypeStep, InvStep
<1> QED BY <1>1, <1>2, PTL DEF Spec

(* No task is journalled as completed twice: a completion is journalled    *)
(* only for a task that is in flight, which memory, and so the journal and *)
(* every checkpoint, does not have as completed.                           *)
THEOREM TasksCompleteAtMostOnce == Spec => []CompletesAtMostOnce
<1>1. ExecutorTypeOK /\ ExecutorInv => CompletesAtMostOnce
  BY DEF ExecutorInv, HistoryInv, CompletesAtMostOnce
<1> QED BY <1>1, ExecutorAgreesWithJournal, PTL

(* A dispatched task is known to recovery with the id its worker holds,    *)
(* since TasksStarted is durable before the future is created.             *)
THEOREM DispatchIsDurable == Spec => []DispatchIsJournalled
<1>1. ExecutorTypeOK /\ ExecutorInv => DispatchIsJournalled
  <2> SUFFICES ASSUME ExecutorTypeOK, ExecutorInv, NEW t \in Task,
                      futures[t].phase \in {"running", "submitting", "waiting"}
               PROVE  recoverable.task_ids[t] = mem.live_ids[t] /\ mem.live_ids[t] # 0
    BY DEF DispatchIsJournalled
  <2>1. futures[t] # Idle
    BY DEF Idle
  <2>2. Up
    BY <2>1 DEF ExecutorInv, ModeInv, Up
  <2> QED BY <2>1, <2>2 DEF ExecutorInv, IdsInv
<1> QED BY <1>1, ExecutorAgreesWithJournal, PTL

(* No lost work: between two handlers a step that could run is queued or   *)
(* in flight, through retries, evictions, crashes and recoveries.          *)
THEOREM NoWorkIsLost == Spec => []NoStepIsForgotten
<1>1. ExecutorTypeOK /\ ExecutorInv => NoStepIsForgotten
  <2> SUFFICES ASSUME ExecutorTypeOK, ExecutorInv, Handling("wait") \/ Handling("select"),
                      NEW r \in mem.runs, NEW s \in StepsOf(r) \ mem.completed[r],
                      DependsOn[s] \subseteq mem.completed[r]
               PROVE  <<r, s>> \in mem.queue \union InFlight
    BY DEF NoStepIsForgotten
  <2>1. <<r, s>> \in Task
    BY TaskParts DEF ExecutorTypeOK, Memory
  <2>2. ~Spawning(<<r, s>>) /\ ~Initializing(r)
    BY NothingToWrite DEF Handling
  <2>3. Active(<<r, s>>)
    BY <2>1, <2>2 DEF Handling, ExecutorInv, WorkInv
  <2> QED BY <2>1, <2>2, <2>3 DEF Active, InFlight
<1> QED BY <1>1, ExecutorAgreesWithJournal, PTL

(* The attempts of a task are journalled without gaps or repetitions: the  *)
(* attempt announced is one more than the last in the journal, also after  *)
(* a recovery has forgotten attempts that were only counted in memory.     *)
THEOREM AttemptsDoNotSkip == Spec => AttemptsAreConsecutive
<1> DEFINE Consecutive == \A t \in Task : past'.attempt[t] \in {past.attempt[t], past.attempt[t] + 1}
<1>1. ASSUME ExecutorTypeOK, ExecutorInv, [Next]_vars PROVE Consecutive
  <2>1. CASE WriteJournal
    <3> SUFFICES ASSUME NEW t \in Task
                 PROVE  past'.attempt[t] \in {past.attempt[t], past.attempt[t] + 1}
      OBVIOUS
    <3>1. CASE Announced(t)
      <4>1. Up
        <5>1. todo # <<>> /\ todo' = Tail(todo) /\ mode' = mode
          BY <2>1 DEF WriteJournal, Doing, Done
        <5>2. Counted(todo[1])
          BY <3>1 DEF Announced, AboutTo, Counted
        <5> QED BY <1>1, <5>1, <5>2, Rest DEF ExecutorInv
      <4>2. todo[1].event.attempts[t] = past.attempt[t] + 1
        BY <1>1, <3>1, <4>1 DEF ExecutorInv, MemoryInv
      <4> QED BY <1>1, <2>1, <3>1, <4>2, JournalEffects
    <3>2. CASE ~Announced(t)
      BY <1>1, <2>1, <3>2, JournalEffects
    <3> QED BY <3>1, <3>2
  <2>2. CASE ~WriteJournal
    <3>1. past'.attempt = past.attempt
      <4>1. CASE WriteCheckpoint
        BY <4>1 DEF WriteCheckpoint, ExecutorTypeOK
      <4>2. CASE SelectTasks
        BY <4>2 DEF SelectTasks, ExecutorTypeOK
      <4>3. CASE \E t \in Task : RetryTask(t)
        BY <4>3 DEF RetryTask, ExecutorTypeOK
      <4>4. CASE past' = past
        BY <4>4
      <4> QED BY <1>1, <2>2, <4>1, <4>2, <4>3, <4>4
              DEF Next, Progress, Write, WriteCreateRun, WriteResult, WriteStatus, SpawnFutures,
                  InitializeSubflow, EvictRun, AcknowledgeRequest, Loop, Start, SelectNothing,
                  FinishRoot, HandleSubmit, CompleteTask, Recover, Answer, Submit, SubflowAnswers,
                  LoseWorker, FutureEnds, Crash, Stopped, vars
    <3> QED BY <3>1
  <2> QED BY <2>1, <2>2
<1>2. ExecutorTypeOK /\ ExecutorInv /\ [Next]_vars => [Consecutive]_vars
  BY <1>1
<1> QED BY <1>2, ExecutorAgreesWithJournal, PTL DEF Spec, AttemptsAreConsecutive

-----------------------------------------------------------------------------
(* The end of runs.  A run that is over, or about to be, has all its steps *)
(* completed in the journal; a subflow is journalled as over first.        *)
Reports(op, r) == op.op \in {"record", "status"} /\ op.run = r
Closes(op, r) == op.op = "journal" /\ op.event.type = "RunCompleted" /\ op.event.run = r
Ending(op) == op.op \in {"record", "status"} \/ (op.op = "journal" /\ op.event.type = "RunCompleted")

AllCompleted(r) == StepsOf(r) \subseteq recoverable.completed[r]

StoredInv ==
    \A r \in Run : store.status[r] \in Terminal =>
        AllCompleted(r) /\ (r \in SubRun => past.ended[r] # None)

ReplayedInv ==
    \A r \in Run : recoverable.ended[r] # None => AllCompleted(r) /\ past.ended[r] # None

EndingInv ==
    \A r \in Run : \A i \in DOMAIN todo :
        /\ Reports(todo[i], r) \/ Closes(todo[i], r) =>
             \A s \in StepsOf(r) : s \in recoverable.completed[r] \/ Completing(<<r, s>>)
        /\ Reports(todo[i], r) /\ r \in SubRun =>
             past.ended[r] # None \/ \E j \in DOMAIN todo : j < i /\ Closes(todo[j], r)

EndInv == StoredInv /\ ReplayedInv /\ EndingInv

LEMMA EndInit == Init => EndInv
<1> SUFFICES ASSUME Init PROVE EndInv
  OBVIOUS
<1>1. StoredInv /\ ReplayedInv
  BY DEF Init, StoredInv, ReplayedInv, FreshRecoverable, Terminal, None
<1>2. EndingInv
  BY DEF Init, EndingInv
<1> QED BY <1>1, <1>2 DEF EndInv

(* What a write leaves of the ends that are ahead.                         *)
LEMMA EndingsShift ==
    ASSUME ExecutorTypeOK, TodoInv, EndingInv, todo # <<>>, todo' = Tail(todo), mode' = mode,
           \A r \in Run, s \in Step : <<r, s>> \in Task =>
               (s \in recoverable.completed[r] \/ Completing(<<r, s>>) => s \in recoverable'.completed[r]),
           \A r \in Run : past.ended[r] # None \/ Closes(todo[1], r) => past'.ended[r] # None
    PROVE  EndingInv'
<1> SUFFICES ASSUME NEW r \in Run, NEW i \in DOMAIN todo'
             PROVE  /\ Reports(todo'[i], r) \/ Closes(todo'[i], r) =>
                         \A s \in StepsOf(r) : s \in recoverable'.completed[r]
                    /\ Reports(todo'[i], r) /\ r \in SubRun =>
                         past'.ended[r] # None \/ \E j \in DOMAIN todo' : j < i /\ Closes(todo'[j], r)
  BY DEF EndingInv, Reports, Closes
<1>1. /\ i + 1 \in DOMAIN todo /\ todo'[i] = todo[i + 1] /\ i \in Nat
      /\ \A j \in DOMAIN todo : j < i + 1 =>
            j = 1 \/ (j - 1 \in DOMAIN todo' /\ todo'[j - 1] = todo[j] /\ j - 1 < i)
  <2>1. /\ DOMAIN todo' = {k \in Nat : k >= 1 /\ k + 1 \in DOMAIN todo}
        /\ \A k \in DOMAIN todo' : todo'[k] = todo[k + 1]
        /\ DOMAIN todo \subseteq Nat \ {0}
    BY AfterWrite DEF ExecutorTypeOK
  <2> QED BY <2>1
<1>2. ASSUME Reports(todo'[i], r) \/ Closes(todo'[i], r), NEW s \in StepsOf(r)
      PROVE  s \in recoverable'.completed[r]
  <2>1. s \in recoverable.completed[r] \/ Completing(<<r, s>>)
    BY <1>1, <1>2 DEF EndingInv
  <2>2. <<r, s>> \in Task /\ s \in Step
    BY TaskParts
  <2> QED BY <2>1, <2>2
<1>3. ASSUME Reports(todo'[i], r), r \in SubRun
      PROVE  past'.ended[r] # None \/ \E j \in DOMAIN todo' : j < i /\ Closes(todo'[j], r)
  <2>1. past.ended[r] # None \/ \E j \in DOMAIN todo : j < i + 1 /\ Closes(todo[j], r)
    BY <1>1, <1>3 DEF EndingInv
  <2> QED BY <1>1, <2>1
<1> QED BY <1>2, <1>3

(* What a RunCompleted changes.                                            *)
LEMMA EndEffects ==
    ASSUME ExecutorTypeOK, WriteJournal
    PROVE  \A r \in Run :
             /\ past'.ended[r] # None <=> past.ended[r] # None \/ Closes(todo[1], r)
             /\ recoverable'.ended[r] # None <=> recoverable.ended[r] # None \/ Closes(todo[1], r)
<1> DEFINE e == todo[1].event
<1>1. todo # <<>> /\ todo[1].op = "journal" /\ recoverable' = Replay(recoverable, e)
      /\ past' = Remember(e)
  BY AfterWrite DEF WriteJournal, Doing, ExecutorTypeOK
<1>2. e \in Event
  BY <1>1, AfterWrite, OpCases DEF ExecutorTypeOK
<1>3. recoverable \in Recoverable /\ past \in Past
  BY DEF ExecutorTypeOK, Past
<1>4. \A r : Closes(todo[1], r) <=> e.type = "RunCompleted" /\ e.run = r
  BY <1>1 DEF Closes
<1> HIDE DEF e
<1>5. CASE e.type = "RunCompleted"
  <2>1. e.run \in Run /\ e.status # None
    BY <1>2, <1>5, EventCases DEF Terminal, None
  <2>2. /\ recoverable'.ended = [recoverable.ended EXCEPT ![e.run] = e.status]
        /\ past'.ended = [past.ended EXCEPT ![e.run] = e.status]
    BY <1>1, <1>3, <1>5 DEF Replay, Remember, Recoverable, Past
  <2> QED BY <1>3, <1>4, <1>5, <2>1, <2>2 DEF Recoverable, Past
<1>6. CASE e.type # "RunCompleted"
  <2>1. recoverable'.ended = recoverable.ended /\ past'.ended = past.ended
    <3>1. CASE e.type = "SubRunCreated"
      BY <1>1, <1>3, <3>1 DEF Replay, Remember, Recoverable, Past
    <3>2. CASE e.type = "StepsNeeded"
      BY <1>1, <1>3, <3>2 DEF Replay, Remember, Recoverable, Past
    <3>3. CASE e.type = "TasksStarted"
      BY <1>1, <1>3, <3>3 DEF Replay, ReplayStarted, Remember, Recoverable, Past
    <3>4. CASE e.type = "TaskCompleted"
      BY <1>1, <1>3, <3>4 DEF Replay, ReplayCompleted, Remember, Recoverable, Past
    <3> QED BY <1>2, <1>6, <3>1, <3>2, <3>3, <3>4, EventCases
  <2> QED BY <1>4, <1>6, <2>1
<1> QED BY <1>5, <1>6

LEMMA WriteJournalKeepsEnds ==
    ASSUME ExecutorTypeOK, ExecutorInv, EndInv, WriteJournal
    PROVE  EndInv'
<1>1. /\ todo # <<>> /\ todo' = Tail(todo) /\ mode' = mode /\ store' = store /\ todo[1].op = "journal"
      /\ 1 \in DOMAIN todo
  BY AfterWrite DEF WriteJournal, Doing, Done, ExecutorTypeOK
<1>2. \A r \in Run, s \in Step : <<r, s>> \in Task =>
        (s \in recoverable.completed[r] \/ Completing(<<r, s>>) => s \in recoverable'.completed[r])
  <2> SUFFICES ASSUME NEW r \in Run, NEW s \in Step, <<r, s>> \in Task,
                      s \in recoverable.completed[r] \/ Completing(<<r, s>>)
               PROVE  s \in recoverable'.completed[r]
    OBVIOUS
  <2> DEFINE t == <<r, s>>
  <2>1. t[1] = r /\ t[2] = s
    OBVIOUS
  <2> QED BY <2>1, JournalEffects
<1>3. \A r \in Run : AllCompleted(r) => AllCompleted(r)'
  BY <1>2, TaskParts DEF AllCompleted, Step, StepsOf
<1>4. StoredInv'
  BY <1>1, <1>3, EndEffects, TaskParts DEF EndInv, StoredInv
<1>5. ReplayedInv'
  <2> SUFFICES ASSUME NEW r \in Run, recoverable.ended[r] # None \/ Closes(todo[1], r)
               PROVE  AllCompleted(r)' /\ past'.ended[r] # None
    BY EndEffects DEF ReplayedInv
  <2>1. CASE recoverable.ended[r] # None
    BY <1>3, <2>1, EndEffects DEF EndInv, ReplayedInv
  <2>2. CASE Closes(todo[1], r)
    <3>1. \A s \in StepsOf(r) : s \in recoverable.completed[r]
      BY <1>1, <2>2 DEF EndInv, EndingInv, Completing, AboutTo, Closes
    <3> QED BY <1>3, <2>2, <3>1, EndEffects DEF AllCompleted
  <2> QED BY <2>1, <2>2
<1>6. EndingInv'
  BY <1>1, <1>2, EndEffects, EndingsShift DEF ExecutorInv, EndInv
<1> QED BY <1>4, <1>5, <1>6 DEF EndInv

LEMMA OtherWriteKeepsEnds ==
    ASSUME ExecutorTypeOK, ExecutorInv, EndInv, Write, ~WriteJournal
    PROVE  EndInv'
<1>1. /\ todo # <<>> /\ todo' = Tail(todo) /\ mode' = mode /\ past'.ended = past.ended
      /\ todo[1].op # "journal" /\ todo[1] \in Op /\ 1 \in DOMAIN todo /\ Head(todo) = todo[1]
  <2>1. todo # <<>> /\ todo' = Tail(todo) /\ mode' = mode /\ Head(todo).op # "journal"
    BY DEF Write, WriteCreateRun, WriteResult, WriteStatus, SpawnFutures, InitializeSubflow,
       EvictRun, AcknowledgeRequest, WriteCheckpoint, Doing, Done
  <2>2. CASE WriteCheckpoint
    BY <2>1, <2>2, AfterWrite DEF WriteCheckpoint, ExecutorTypeOK
  <2>3. CASE ~WriteCheckpoint
    <3>1. past' = past
      BY <2>3 DEF Write, WriteCreateRun, WriteResult, WriteStatus, SpawnFutures, InitializeSubflow,
         EvictRun, AcknowledgeRequest
    <3> QED BY <2>1, <3>1, AfterWrite DEF ExecutorTypeOK
  <2> QED BY <2>2, <2>3
<1>2. \A t : ~Completing(t) /\ ~Announced(t)
  BY <1>1, Rest DEF ExecutorInv
<1>3. /\ \A t \in Task : t[2] \in recoverable.completed[t[1]] => t[2] \in recoverable'.completed[t[1]]
      /\ \A r \in Run : recoverable'.ended[r] # None => recoverable.ended[r] # None
  <2>1. CASE WriteCheckpoint
    <3>1. Up
      BY <1>1, <2>1, Rest DEF ExecutorInv, WriteCheckpoint, Doing
    <3>2. recoverable'.completed = mem.completed
      BY <2>1 DEF WriteCheckpoint, Captured
    <3>3. \A r \in Run : recoverable'.ended[r] = None
      BY <2>1 DEF WriteCheckpoint, Captured
    <3> QED BY <3>1, <3>2, <3>3 DEF ExecutorInv, MemoryInv
  <2>2. CASE ~WriteCheckpoint
    <3>1. recoverable' = recoverable
      BY <2>2 DEF Write, WriteCreateRun, WriteResult, WriteStatus, SpawnFutures, InitializeSubflow,
         EvictRun, AcknowledgeRequest
    <3> QED BY <3>1
  <2> QED BY <2>1, <2>2
<1>4. \A r \in Run, s \in Step : <<r, s>> \in Task =>
        (s \in recoverable.completed[r] \/ Completing(<<r, s>>) => s \in recoverable'.completed[r])
  <2> SUFFICES ASSUME NEW r \in Run, NEW s \in Step, <<r, s>> \in Task, s \in recoverable.completed[r]
               PROVE  s \in recoverable'.completed[r]
    BY <1>2
  <2> DEFINE t == <<r, s>>
  <2>1. t[1] = r /\ t[2] = s
    OBVIOUS
  <2> QED BY <1>3, <2>1
<1>5. \A r \in Run : AllCompleted(r) => AllCompleted(r)'
  BY <1>4, TaskParts DEF AllCompleted, Step, StepsOf
<1>6. StoredInv'
  <2>1. \A r \in Run : store'.status[r] \in Terminal => store.status[r] \in Terminal \/ Reports(todo[1], r)
    <3>1. CASE store' = store
      BY <3>1
    <3>2. CASE WriteCreateRun
      BY <3>2 DEF WriteCreateRun, ExecutorTypeOK, Terminal
    <3>3. CASE WriteResult
      BY <1>1, <3>3 DEF WriteResult, Doing, Reports, ExecutorTypeOK
    <3>4. CASE WriteStatus
      BY <1>1, <3>4 DEF WriteStatus, Doing, Reports, ExecutorTypeOK
    <3> QED BY <3>1, <3>2, <3>3, <3>4 DEF Write, SpawnFutures, InitializeSubflow, EvictRun,
               AcknowledgeRequest, WriteCheckpoint
  <2>2. \A r \in Run : Reports(todo[1], r) =>
          AllCompleted(r) /\ (r \in SubRun => past.ended[r] # None)
    <3> SUFFICES ASSUME NEW r \in Run, Reports(todo[1], r)
                 PROVE  AllCompleted(r) /\ (r \in SubRun => past.ended[r] # None)
      OBVIOUS
    <3>1. AllCompleted(r)
      BY <1>1, <1>2 DEF EndInv, EndingInv, AllCompleted
    <3>2. DOMAIN todo \subseteq Nat \ {0}
      BY DEF ExecutorTypeOK
    <3>3. r \in SubRun => past.ended[r] # None
      BY <1>1, <3>2 DEF EndInv, EndingInv
    <3> QED BY <3>1, <3>3
  <2> QED BY <1>1, <1>5, <2>1, <2>2 DEF EndInv, StoredInv
<1>7. ReplayedInv'
  BY <1>1, <1>3, <1>5 DEF EndInv, ReplayedInv
<1>8. EndingInv'
  <2>1. \A r \in Run : ~Closes(todo[1], r)
    BY <1>1 DEF Closes
  <2> QED BY <1>1, <1>4, <2>1, EndingsShift DEF ExecutorInv, EndInv
<1> QED BY <1>6, <1>7, <1>8 DEF EndInv

(* A step of the loop that writes no end changes nothing of the above.     *)
LEMMA NoEndIsWritten ==
    ASSUME EndInv, UNCHANGED <<store, recoverable>>, past'.ended = past.ended,
           \A i \in DOMAIN todo' : ~Ending(todo'[i])
    PROVE  EndInv'
<1>1. StoredInv' /\ ReplayedInv'
  BY DEF EndInv, StoredInv, ReplayedInv, AllCompleted
<1>2. EndingInv'
  BY DEF EndingInv, Reports, Closes, Ending
<1> QED BY <1>1, <1>2 DEF EndInv

(* The writes that end a run, in their order.                              *)
LEMMA EndOfRunOrder ==
    ASSUME NEW r \in Run, NEW failed
    PROVE  /\ \A i \in 1..3 : Reports(EndOfRun(r, failed)[i], r) \/ Closes(EndOfRun(r, failed)[i], r)
           /\ r # Root => Closes(EndOfRun(r, failed)[1], r)
           /\ Len(EndOfRun(r, failed)) = 3
<1> DEFINE record == RecordResult(r, OutputOf(r, failed))
           ended == Journal(RunCompleted(r, FinalStatus(r, failed)))
           status == UpdateStatus(r, FinalStatus(r, failed))
<1>1. Reports(record, r) /\ Reports(status, r) /\ Closes(ended, r)
  BY DEF RecordResult, UpdateStatus, Journal, RunCompleted, Reports, Closes
<1>2. EndOfRun(r, failed) = IF r = Root THEN <<record, ended, status>> ELSE <<ended, record, status>>
  BY DEF EndOfRun
<1> HIDE DEF record, ended, status
<1> QED BY <1>1, <1>2

LEMMA EndOfSubflowShape ==
    ASSUME NEW first \in Op, NEW last \in Op, NEW three \in Seq(Op),
           NEW end, end = three \o <<last>>, MayCheckpoint(<<first>> \o end)
    PROVE  /\ todo' # <<>> /\ todo'[1] = first
           /\ \A k \in 1..Len(three) : k + 1 \in DOMAIN todo' /\ todo'[k + 1] = three[k]
           /\ \A i \in DOMAIN todo' :
                todo'[i] \in {first, last, TakeCheckpoint} \/ \E k \in 1..Len(three) : i = k + 1
<1> DEFINE all == <<first>> \o end
<1>1. /\ end \in Seq(Op) /\ Len(end) = Len(three) + 1 /\ end[Len(three) + 1] = last
      /\ \A k \in 1..Len(three) : end[k] = three[k]
  OBVIOUS
<1>2. /\ all \in Seq(Op) /\ Len(all) = Len(end) + 1 /\ all[1] = first
      /\ \A k \in 1..Len(end) : all[k + 1] = end[k]
  BY <1>1
<1>3. todo' = all \/ todo' = Append(all, TakeCheckpoint)
  BY DEF MayCheckpoint
<1> HIDE DEF all
<1>4. /\ todo' # <<>>
      /\ \A i \in 1..Len(all) : i \in DOMAIN todo' /\ todo'[i] = all[i]
      /\ \A i \in DOMAIN todo' : i \in 1..Len(all) \/ todo'[i] = TakeCheckpoint
  <2>1. CASE todo' = all
    BY <1>2, <2>1
  <2>2. CASE todo' = Append(all, TakeCheckpoint)
    <3>1. TakeCheckpoint \in Op /\ all \in Seq(Op)
      BY <1>2, WritesAreTyped
    <3>2. /\ Len(Append(all, TakeCheckpoint)) = Len(all) + 1
          /\ Append(all, TakeCheckpoint) \in Seq(Op)
          /\ Append(all, TakeCheckpoint)[Len(all) + 1] = TakeCheckpoint
          /\ \A i \in 1..Len(all) : Append(all, TakeCheckpoint)[i] = all[i]
      BY <3>1
    <3>3. Len(all) \in Nat /\ todo' \in Seq(Op) /\ Len(todo') = Len(all) + 1
      BY <2>2, <3>1, <3>2
    <3>4. DOMAIN todo' = 1..(Len(all) + 1)
      BY <3>3
    <3> QED BY <2>2, <3>2, <3>3, <3>4
  <2> QED BY <1>3, <2>1, <2>2
<1>5. \A i \in 1..Len(all) : i = 1 \/ (i - 1 \in 1..Len(end) /\ all[i] = end[i - 1])
  <2> SUFFICES ASSUME NEW i \in 1..Len(all), i # 1
               PROVE  i - 1 \in 1..Len(end) /\ all[i] = end[i - 1]
    OBVIOUS
  <2>1. i - 1 \in 1..Len(end) /\ (i - 1) + 1 = i
    BY <1>1, <1>2
  <2> QED BY <1>2, <2>1
<1>6. \A i \in 1..Len(all) : all[i] \in {first, last} \/ \E k \in 1..Len(three) : i = k + 1
  <2> SUFFICES ASSUME NEW i \in 1..Len(all), i # 1, i - 1 \notin 1..Len(three)
               PROVE  all[i] = last
    BY <1>2
  <2>1. i - 1 = Len(three) + 1
    BY <1>1, <1>2
  <2> QED BY <1>1, <1>5, <2>1
<1>7. \A k \in 1..Len(three) : k + 1 \in 1..Len(all) /\ all[k + 1] = three[k]
  BY <1>1, <1>2
<1>8. 1 \in 1..Len(all)
  BY <1>1, <1>2
<1> QED BY <1>2, <1>4, <1>6, <1>7, <1>8

LEMMA FinishRootKeepsEnds ==
    ASSUME ExecutorTypeOK, ExecutorInv, EndInv, FinishRoot
    PROVE  EndInv'
<1>1. mode = "select" /\ todo = <<>> /\ Up /\ UNCHANGED <<store, recoverable, past>>
  BY DEF FinishRoot, Handling, Up
<1>2. CASE mem.completed[Root] # RootStep
  <2>1. \A i \in DOMAIN todo' : ~Ending(todo'[i])
    BY <1>2 DEF FinishRoot
  <2> QED BY <1>1, <2>1, NoEndIsWritten
<1>3. CASE mem.completed[Root] = RootStep
  <2>1. todo' = EndOfRun(Root, mem.failed)
    BY <1>3 DEF FinishRoot
  <2>2. DOMAIN todo' = 1..3 /\ \A i \in 1..3 : Reports(todo'[i], Root) \/ Closes(todo'[i], Root)
    BY <2>1, EndOfRunOrder, EndOfRunIsTyped, TaskParts
  <2>3. \A s \in RootStep : s \in recoverable.completed[Root]
    <3> SUFFICES ASSUME NEW s \in RootStep PROVE s \in recoverable.completed[Root]
      OBVIOUS
    <3> DEFINE t == <<Root, s>>
    <3>1. t \in Task /\ t[1] = Root /\ t[2] = s
      BY TaskParts DEF StepsOf
    <3>2. ~Completing(t)
      BY <1>1, NothingToWrite
    <3> QED BY <1>1, <1>3, <3>1, <3>2 DEF ExecutorInv, MemoryInv
  <2>4. StoredInv' /\ ReplayedInv'
    BY <1>1 DEF EndInv, StoredInv, ReplayedInv, AllCompleted
  <2>6. EndingInv'
    <3> SUFFICES ASSUME NEW r \in Run, NEW i \in DOMAIN todo', Reports(todo'[i], r) \/ Closes(todo'[i], r)
                 PROVE  r = Root
      BY <1>1, <2>3, ConstantsAssumption DEF EndingInv, Reports, Closes, StepsOf
    <3>1. Reports(todo'[i], Root) \/ Closes(todo'[i], Root)
      BY <2>2
    <3> QED BY <3>1 DEF Reports, Closes
  <2> QED BY <2>4, <2>6 DEF EndInv
<1> QED BY <1>2, <1>3

LEMMA CompleteTaskKeepsEnds ==
    ASSUME ExecutorTypeOK, ExecutorInv, EndInv, NEW t \in Task, CompleteTask(t)
    PROVE  EndInv'
<1> DEFINE r0 == t[1]
           completed == [mem.completed EXCEPT ![r0] = @ \union {t[2]}]
           failed == [mem.failed EXCEPT ![r0] = @ \union
                        IF futures[t].result = "ok" THEN {} ELSE {t[2]}]
           end == IF SubflowEnds(r0, completed) THEN EndOfRun(r0, failed) \o <<Evict(r0)>> ELSE <<>>
           first == Journal(TaskCompleted(t, futures[t].result))
<1>1. /\ mode = "wait" /\ todo = <<>> /\ Up /\ UNCHANGED <<store, recoverable, past>>
      /\ MayCheckpoint(<<first>> \o end)
  BY DEF CompleteTask, Handling, Up
<1>2. r0 \in Run
  BY TaskParts
<1>3. first.op = "journal" /\ first.event.type = "TaskCompleted" /\ first.event.task = t /\ ~Ending(first)
  BY DEF Journal, TaskCompleted, Ending
<1>4. ~Ending(TakeCheckpoint) /\ ~Ending(Evict(r0))
  BY DEF TakeCheckpoint, Evict, Ending
<1>5. first \in Op
  <2>1. futures[t] \in Future /\ futures[t].phase = "finished"
    BY DEF ExecutorTypeOK, CompleteTask, Finished
  <2>2. futures[t].result \in {"ok", "error", "transport", None}
    BY <2>1 DEF Future
  <2> QED BY <2>2, EventsAreTyped, WritesAreTyped
<1>6. CASE ~SubflowEnds(r0, completed)
  <2>1. end = <<>>
    BY <1>6
  <2> HIDE DEF end, first
  <2>2. todo' = <<first>> \/ todo' = <<first, TakeCheckpoint>>
    BY <1>1, <1>5, <2>1, WritesAreTyped DEF MayCheckpoint
  <2>3. \A i \in DOMAIN todo' : ~Ending(todo'[i])
    BY <1>3, <1>4, <2>2
  <2> QED BY <1>1, <2>3, NoEndIsWritten
<1>7. CASE SubflowEnds(r0, completed)
  <2> DEFINE three == EndOfRun(r0, failed)
             last == Evict(r0)
  <2>1. r0 # Root /\ completed[r0] = SubStep
    BY <1>7 DEF SubflowEnds
  <2>2. \A s \in StepsOf(r0) : s \in recoverable.completed[r0] \/ <<r0, s>> = t
    <3> SUFFICES ASSUME NEW s \in StepsOf(r0), <<r0, s>> # t PROVE s \in recoverable.completed[r0]
      OBVIOUS
    <3> DEFINE x == <<r0, s>>
    <3>1. x \in Task /\ x[1] = r0 /\ x[2] = s
      BY <1>2, TaskParts
    <3>2. s \in completed[r0]
      BY <2>1 DEF StepsOf
    <3>3. s # t[2]
      BY TaskParts
    <3>4. s \in mem.completed[r0]
      BY <1>2, <3>2, <3>3 DEF ExecutorTypeOK, Memory
    <3>5. ~Completing(x)
      BY <1>1, NothingToWrite
    <3> QED BY <1>1, <3>1, <3>4, <3>5 DEF ExecutorInv, MemoryInv
  <2>3. /\ \A i \in 1..3 : Reports(three[i], r0) \/ Closes(three[i], r0)
        /\ Closes(three[1], r0) /\ ~Ending(last)
    BY <1>2, <1>4, <2>1, EndOfRunOrder
  <2>3a. three \in Seq(Op) /\ Len(three) = 3
    BY <1>2, EndOfRunIsTyped
  <2>3b. last \in Op /\ end = three \o <<last>>
    BY <1>2, <1>7, WritesAreTyped
  <2> HIDE DEF three, first, last, end
  <2>7. /\ todo' # <<>> /\ todo'[1] = first /\ 2 \in DOMAIN todo' /\ todo'[2] = three[1]
        /\ \A i \in DOMAIN todo' :
             \/ ~Ending(todo'[i])
             \/ i \in 2..4 /\ todo'[i] = three[i - 1]
    <3>1. /\ todo' # <<>> /\ todo'[1] = first
          /\ \A k \in 1..Len(three) : k + 1 \in DOMAIN todo' /\ todo'[k + 1] = three[k]
          /\ \A i \in DOMAIN todo' :
               todo'[i] \in {first, last, TakeCheckpoint} \/ \E k \in 1..Len(three) : i = k + 1
      BY <1>1, <1>5, <2>3a, <2>3b, EndOfSubflowShape
    <3>2. 1 \in 1..Len(three) /\ 1 + 1 = 2 /\ \A k \in 1..Len(three) : k + 1 \in 2..4
      BY <2>3a
    <3>3. \A k \in 1..Len(three) : (k + 1) - 1 = k
      BY <2>3a
    <3>4. \A i \in DOMAIN todo' : todo'[i] \in {first, last, TakeCheckpoint} => ~Ending(todo'[i])
      BY <1>3, <1>4, <2>3
    <3> QED BY <3>1, <3>2, <3>3, <3>4
  <2>8. \A s \in StepsOf(r0) : s \in recoverable.completed[r0] \/ Completing(<<r0, s>>)'
    BY <1>3, <2>2, <2>7 DEF Completing, AboutTo
  <2>9. StoredInv' /\ ReplayedInv'
    BY <1>1 DEF EndInv, StoredInv, ReplayedInv, AllCompleted
  <2>10. EndingInv'
    <3> SUFFICES ASSUME NEW r \in Run, NEW i \in DOMAIN todo', Reports(todo'[i], r) \/ Closes(todo'[i], r)
                 PROVE  /\ \A s \in StepsOf(r) : s \in recoverable.completed[r] \/ Completing(<<r, s>>)'
                        /\ Reports(todo'[i], r) => \E j \in DOMAIN todo' : j < i /\ Closes(todo'[j], r)
      BY <1>1 DEF EndingInv, Reports, Closes
    <3>1. i \in 2..4 /\ todo'[i] = three[i - 1]
      BY <2>7 DEF Ending, Reports, Closes
    <3>2. i - 1 \in 1..3
      BY <3>1
    <3>3. r = r0
      BY <2>3, <3>1, <3>2 DEF Reports, Closes
    <3>4. Reports(todo'[i], r) => i # 2
      BY <2>3, <3>1 DEF Reports, Closes
    <3>5. Reports(todo'[i], r) => \E j \in DOMAIN todo' : j < i /\ Closes(todo'[j], r)
      BY <2>3, <2>7, <3>1, <3>3, <3>4
    <3> QED BY <2>8, <3>3, <3>5
  <2> QED BY <2>9, <2>10 DEF EndInv
<1> QED BY <1>6, <1>7

LEMMA LoopKeepsEnds ==
    ASSUME ExecutorTypeOK, ExecutorInv, EndInv, Loop
    PROVE  EndInv'
<1>1. ASSUME NEW tasks, NEW attempts, NEW ids, MayCheckpoint(Dispatch(tasks, attempts, ids))
      PROVE  \A i \in DOMAIN todo' : ~Ending(todo'[i])
  <2> DEFINE start == Journal(TasksStarted(tasks, attempts, ids))
             spawn == Spawn(tasks)
  <2>1. ~Ending(start) /\ ~Ending(spawn) /\ ~Ending(TakeCheckpoint)
    BY DEF Journal, TasksStarted, Spawn, TakeCheckpoint, Ending
  <2>2. todo' = <<start, spawn>> \/ todo' = <<start, spawn, TakeCheckpoint>>
    BY <1>1 DEF Dispatch, MayCheckpoint
  <2> HIDE DEF start, spawn
  <2> QED BY <2>1, <2>2
<1>2. CASE Start
  <2> DEFINE announced == mem.runs \ (mem.recovered \ mem.needing)
             E == {Journal(StepsNeeded(r)) : r \in announced}
  <2>1. announced \in SUBSET Run
    BY DEF ExecutorTypeOK, Memory
  <2>2. todo' \in Seq(E)
    BY <1>2, <2>1, StepsNeededSeq DEF Start
  <2>3. \A op \in E : ~Ending(op)
    BY DEF Ending, Journal, StepsNeeded
  <2> HIDE DEF E
  <2>4. \A i \in DOMAIN todo' : ~Ending(todo'[i])
    BY <2>2, <2>3
  <2> QED BY <1>2, <2>4, NoEndIsWritten DEF Start
<1>3. CASE SelectTasks
  <2>1. \A i \in DOMAIN todo' : ~Ending(todo'[i])
    BY <1>1, <1>3 DEF SelectTasks, MayCheckpoint
  <2>2. past'.ended = past.ended
    BY <1>3 DEF SelectTasks, ExecutorTypeOK
  <2> QED BY <1>3, <2>1, <2>2, NoEndIsWritten DEF SelectTasks
<1>4. CASE SelectNothing
  <2>1. DOMAIN todo' = {}
    BY <1>4 DEF SelectNothing, Handling
  <2> QED BY <1>4, <2>1, NoEndIsWritten DEF SelectNothing
<1>5. CASE HandleSubmit
  <2> DEFINE request == Head(requests)
             s == request.task[2]
             r0 == request.run
             known == mem.subflows[s]
             a == Journal(SubRunCreated(r0, s))
             b == CreateRun(r0)
             c == Journal(StepsNeeded(r0))
             d == Initialize(r0)
             e == Acknowledge(request, r0)
  <2>1. ~Ending(a) /\ ~Ending(b) /\ ~Ending(c) /\ ~Ending(d) /\ ~Ending(e)
    BY DEF Ending, Journal, SubRunCreated, CreateRun, StepsNeeded, Initialize, Acknowledge
  <2>2. ~Ending(Acknowledge(request, known))
    BY DEF Ending, Acknowledge
  <2>3. todo' = <<Acknowledge(request, known)>> \/ todo' = <<a, b, c, d, e>>
    BY <1>5 DEF HandleSubmit
  <2> HIDE DEF request, s, r0, known, a, b, c, d, e
  <2>4. \A i \in DOMAIN todo' : ~Ending(todo'[i])
    BY <2>1, <2>2, <2>3
  <2> QED BY <1>5, <2>4, NoEndIsWritten DEF HandleSubmit
<1>6. ASSUME NEW t \in Task, RetryTask(t) PROVE EndInv'
  <2>1. \A i \in DOMAIN todo' : ~Ending(todo'[i])
    BY <1>1, <1>6 DEF RetryTask
  <2>2. past'.ended = past.ended
    BY <1>6 DEF RetryTask, ExecutorTypeOK
  <2> QED BY <1>6, <2>1, <2>2, NoEndIsWritten DEF RetryTask
<1> QED BY <1>2, <1>3, <1>4, <1>5, <1>6, FinishRootKeepsEnds, CompleteTaskKeepsEnds DEF Loop

LEMMA RecoverKeepsEnds ==
    ASSUME ExecutorTypeOK, ExecutorInv, EndInv, Recover
    PROVE  EndInv'
<1>1. UNCHANGED <<todo, recoverable, past>> /\ todo = <<>> /\ store' = SyncedStore
  BY DEF Recover, ExecutorInv, TodoInv
<1>2. \A r \in Run : store'.status[r] \in Terminal =>
        store.status[r] \in Terminal \/ recoverable.ended[r] # None
  BY <1>1 DEF SyncedStore, Terminal
<1>3. StoredInv'
  BY <1>1, <1>2 DEF EndInv, StoredInv, ReplayedInv, AllCompleted
<1>4. ReplayedInv'
  BY <1>1 DEF EndInv, ReplayedInv, AllCompleted
<1>5. EndingInv'
  BY <1>1 DEF EndingInv
<1> QED BY <1>3, <1>4, <1>5 DEF EndInv

LEMMA EndStep == ExecutorTypeOK /\ ExecutorInv /\ EndInv /\ [Next]_vars => EndInv'
<1> SUFFICES ASSUME ExecutorTypeOK, ExecutorInv, EndInv, [Next]_vars PROVE EndInv'
  OBVIOUS
<1>1. ASSUME UNCHANGED <<todo, store, recoverable, past>> PROVE EndInv'
  BY <1>1 DEF EndInv, StoredInv, ReplayedInv, EndingInv, AllCompleted, Reports, Closes, Completing, AboutTo
<1>2. CASE UNCHANGED vars \/ Stopped
  BY <1>1, <1>2 DEF vars, Stopped
<1>3. ASSUME NEW t \in Task, Answer(t) \/ Submit(t) \/ SubflowAnswers(t) \/ LoseWorker(t) PROVE EndInv'
  BY <1>1, <1>3 DEF Answer, Submit, SubflowAnswers, LoseWorker, FutureEnds
<1>4. CASE Crash
  <2>1. DOMAIN todo' = {}
    BY <1>4 DEF Crash
  <2> QED BY <1>4, <2>1, NoEndIsWritten DEF Crash
<1> QED BY <1>2, <1>3, <1>4, WriteJournalKeepsEnds, OtherWriteKeepsEnds, LoopKeepsEnds,
           RecoverKeepsEnds DEF Next, Progress

(* A run is terminal in the metadata store only when the journal has the   *)
(* completion of its every step and, for a subflow, its end, wherever a    *)
(* crash falls among the writes that end it.                               *)
THEOREM RunsEndInOrder == Spec => []SubflowsEndInOrder
<1> DEFINE All == ExecutorTypeOK /\ ExecutorInv /\ EndInv
<1>1. Init => All
  BY TypeInit, InvInit, EndInit
<1>2. All /\ [Next]_vars => All'
  BY TypeStep, InvStep, EndStep
<1>3. All => SubflowsEndInOrder
  <2> SUFFICES ASSUME All, NEW r \in Run, store.status[r] \in Terminal
               PROVE  /\ r \in SubRun => past.ended[r] # None
                      /\ \A s \in StepsOf(r) : past.completions[<<r, s>>] >= 1
    BY DEF SubflowsEndInOrder
  <2>1. AllCompleted(r) /\ (r \in SubRun => past.ended[r] # None)
    BY DEF EndInv, StoredInv
  <2>2. ASSUME NEW s \in StepsOf(r) PROVE past.completions[<<r, s>>] >= 1
    <3> DEFINE t == <<r, s>>
    <3>1. t \in Task /\ t[1] = r /\ t[2] = s
      BY TaskParts
    <3>2. s \in recoverable.completed[r]
      BY <2>1, <2>2 DEF AllCompleted
    <3>3. past.completions[t] = 1
      BY <3>1, <3>2 DEF ExecutorInv, HistoryInv
    <3> QED BY <3>3
  <2> QED BY <2>1, <2>2
<1> HIDE DEF All
<1> QED BY <1>1, <1>2, <1>3, PTL DEF Spec

-----------------------------------------------------------------------------
(* The subflows of a step.  One that exists, is being created or is asked  *)
(* for is claimed; until a checkpoint forgets it, the journal remembers    *)
(* the subflow that a step has, and hands it to the recovered executor.    *)
RequestedFor(r, s) ==
    \E i \in DOMAIN requests : requests[i].task = <<Root, s>> /\ requests[i].run = r
CreatingFor(r, s) == Creating(r) /\ todo[1].event.step = s
Claimed(s) ==
    {r \in SubRun : past.created[r] = s \/ RequestedFor(r, s) \/ CreatingFor(r, s)}

MaySubmit(s) ==
    s \notin mem.completed[Root] /\ futures[<<Root, s>>].phase \in {"idle", "running"}
ToSubmit(s) == IF MaySubmit(s) THEN 1 ELSE 0
ToReuse(s) == IF mem.subflows[s] = None THEN 0 ELSE 1

FewSubflows(s) == Cardinality(SubflowsOf(s)) <= 1 + past.retries[<<Root, s>>]
FewClaims(s) ==
    Up => Cardinality(Claimed(s)) + ToSubmit(s) <= 1 + past.retries[<<Root, s>>] + ToReuse(s)
JournalKnows(s) == SubflowsOf(s) # {} => recoverable.subflows[s] # None
NoneToReuse(s) == (\E r \in SubRun : CreatingFor(r, s)) => mem.subflows[s] = None

SubflowInv ==
    ~past.checkpointed =>
        \A s \in SubflowStep : FewSubflows(s) /\ FewClaims(s) /\ JournalKnows(s) /\ NoneToReuse(s)

LEMMA SetsOfRuns ==
    ASSUME NEW A \in SUBSET SubRun, NEW B \in SUBSET A
    PROVE  /\ IsFiniteSet(A) /\ Cardinality(A) \in Nat
           /\ IsFiniteSet(B) /\ Cardinality(B) \in Nat
           /\ Cardinality(B) <= Cardinality(A)
BY ConstantsAssumption, FS_Subset, FS_CardinalityType

LEMMA RetriesOf ==
    ASSUME ExecutorTypeOK, NEW s \in SubflowStep
    PROVE  /\ past.retries[<<Root, s>>] \in Nat
           /\ Claimed(s) \subseteq SubRun /\ SubflowsOf(s) \subseteq Claimed(s)
           /\ ToSubmit(s) \in {0, 1} /\ ToReuse(s) \in {0, 1}
<1>1. <<Root, s>> \in Task
  BY TaskParts
<1>2. past.retries \in [Task -> Nat]
  BY DEF ExecutorTypeOK
<1> QED BY <1>1, <1>2 DEF Claimed, SubflowsOf, ToSubmit, ToReuse

LEMMA SubflowInit == Init => SubflowInv
<1> SUFFICES ASSUME Init, NEW s \in SubflowStep
             PROVE  FewSubflows(s) /\ FewClaims(s) /\ JournalKnows(s) /\ NoneToReuse(s)
  BY DEF SubflowInv
<1>1. s # None /\ <<Root, s>> \in Task
  BY ConstantsAssumption, TaskParts
<1>2. todo = <<>> /\ DOMAIN requests = {} /\ past.retries[<<Root, s>>] = 0
      /\ \A r \in SubRun : past.created[r] = None
  BY <1>1 DEF Init
<1>3. \A r \in SubRun : ~CreatingFor(r, s)
  BY <1>2, NothingToWrite DEF CreatingFor
<1>4. SubflowsOf(s) = {} /\ Claimed(s) = {}
  BY <1>1, <1>2, <1>3 DEF SubflowsOf, Claimed, RequestedFor
<1>5. Cardinality({}) = 0
  BY FS_EmptySet
<1> QED BY <1>2, <1>3, <1>4, <1>5
        DEF FewSubflows, FewClaims, JournalKnows, NoneToReuse, ToSubmit, ToReuse

(* A step that creates, claims and forgets nothing.                        *)
LEMMA CalmStep ==
    ASSUME ExecutorTypeOK, ExecutorTypeOK', SubflowInv,
           requests' = requests, past'.created = past.created, past'.retries = past.retries,
           past'.checkpointed = past.checkpointed,
           recoverable'.subflows = recoverable.subflows, mem'.subflows = mem.subflows,
           Up' => Up,
           \A r \in SubRun, s \in SubflowStep : CreatingFor(r, s)' => CreatingFor(r, s),
           \A s \in SubflowStep : MaySubmit(s)' => MaySubmit(s)
    PROVE  SubflowInv'
<1> SUFFICES ASSUME ~past.checkpointed, NEW s \in SubflowStep
             PROVE  FewSubflows(s)' /\ FewClaims(s)' /\ JournalKnows(s)' /\ NoneToReuse(s)'
  BY DEF SubflowInv
<1>1. FewSubflows(s) /\ FewClaims(s) /\ JournalKnows(s) /\ NoneToReuse(s)
  BY DEF SubflowInv
<1>2. SubflowsOf(s)' = SubflowsOf(s) /\ Claimed(s)' \subseteq Claimed(s)
  BY DEF SubflowsOf, Claimed, RequestedFor
<1>3. /\ Cardinality(Claimed(s)) \in Nat /\ Cardinality(Claimed(s)') \in Nat
      /\ Cardinality(Claimed(s)') <= Cardinality(Claimed(s))
      /\ past.retries[<<Root, s>>] \in Nat
  BY <1>2, RetriesOf, SetsOfRuns
<1>4. FewClaims(s)'
  BY <1>1, <1>3 DEF FewClaims, ToSubmit, ToReuse
<1>5. FewSubflows(s)' /\ JournalKnows(s)' /\ NoneToReuse(s)'
  BY <1>1, <1>2 DEF FewSubflows, JournalKnows, NoneToReuse
<1> QED BY <1>4, <1>5

(* A write.  Where a subflow is created the journal has what was claimed.  *)
LEMMA CreatedStep ==
    ASSUME ExecutorTypeOK, ExecutorTypeOK', ExecutorInv, SubflowInv, WriteJournal,
           AboutTo("SubRunCreated")
    PROVE  SubflowInv'
<1> DEFINE e == todo[1].event
<1>1. /\ todo # <<>> /\ todo' = Tail(todo) /\ mode' = mode /\ UNCHANGED <<mem, futures, requests>>
      /\ recoverable' = Replay(recoverable, e) /\ past' = Remember(e)
      /\ e.type = "SubRunCreated" /\ todo[1].op = "journal"
  BY AfterWrite DEF WriteJournal, Doing, Done, ExecutorTypeOK, AboutTo
<1>2. e.run \in SubRun /\ e.step \in RootStep /\ e.run # None /\ None \notin SubflowStep
  <2>1. e \in Event
    BY <1>1, AfterWrite, OpCases DEF ExecutorTypeOK
  <2> QED BY <1>1, <2>1, EventCases, ConstantsAssumption
<1>3. Up
  <2>1. Counted(todo[1])
    BY <1>1 DEF Counted
  <2> QED BY <1>1, <2>1, Rest DEF ExecutorInv
<1> HIDE DEF e
<1>4. /\ past'.created = [past.created EXCEPT ![e.run] = e.step]
      /\ past'.retries = past.retries /\ past'.checkpointed = past.checkpointed
      /\ recoverable'.subflows = [recoverable.subflows EXCEPT ![e.step] = e.run]
  <2>1. past \in Past /\ recoverable \in Recoverable
    BY DEF ExecutorTypeOK, Past
  <2> QED BY <1>1, <2>1 DEF Replay, Remember, Past, Recoverable
<1>5. \A r \in SubRun : past'.created[r] = IF r = e.run THEN e.step ELSE past.created[r]
  BY <1>2, <1>4 DEF ExecutorTypeOK
<1>6. \A s \in SubflowStep :
        recoverable'.subflows[s] = IF s = e.step THEN e.run ELSE recoverable.subflows[s]
  BY <1>4 DEF ExecutorTypeOK, Recoverable
<1>7. \A r : ~Creating(r)'
  BY <1>1, Rest DEF ExecutorInv
<1>8. CreatingFor(e.run, e.step)
  BY <1>1 DEF CreatingFor, Creating, AboutTo, e
<1> SUFFICES ASSUME ~past.checkpointed, NEW s \in SubflowStep
             PROVE  FewSubflows(s)' /\ FewClaims(s)' /\ JournalKnows(s)' /\ NoneToReuse(s)'
  BY <1>4 DEF SubflowInv
<1>9. FewSubflows(s) /\ FewClaims(s) /\ JournalKnows(s) /\ NoneToReuse(s)
  BY DEF SubflowInv
<1>10. /\ Claimed(s)' \subseteq Claimed(s) /\ SubflowsOf(s)' \subseteq Claimed(s)
       /\ s # e.step => SubflowsOf(s)' \subseteq SubflowsOf(s)
  BY <1>1, <1>5, <1>7, <1>8 DEF Claimed, SubflowsOf, RequestedFor, CreatingFor
<1>11. /\ Cardinality(Claimed(s)) \in Nat /\ Cardinality(Claimed(s)') \in Nat
       /\ Cardinality(Claimed(s)') <= Cardinality(Claimed(s))
       /\ Cardinality(SubflowsOf(s)') \in Nat /\ Cardinality(SubflowsOf(s)) \in Nat
       /\ Cardinality(SubflowsOf(s)') <= Cardinality(Claimed(s))
       /\ s # e.step => Cardinality(SubflowsOf(s)') <= Cardinality(SubflowsOf(s))
       /\ past.retries[<<Root, s>>] \in Nat /\ ToSubmit(s) \in {0, 1} /\ ToReuse(s) \in {0, 1}
  <2>1. Claimed(s) \in SUBSET SubRun /\ SubflowsOf(s) \in SUBSET SubRun
    BY DEF Claimed, SubflowsOf
  <2> QED BY <1>10, <2>1, RetriesOf, SetsOfRuns
<1>12. ToSubmit(s)' = ToSubmit(s) /\ ToReuse(s)' = ToReuse(s)
  BY <1>1 DEF ToSubmit, MaySubmit, ToReuse
<1>13. FewClaims(s)'
  BY <1>3, <1>4, <1>9, <1>11, <1>12 DEF FewClaims
<1>14. FewSubflows(s)'
  <2>1. CASE s # e.step
    BY <1>4, <1>9, <1>11, <2>1 DEF FewSubflows
  <2>2. CASE s = e.step
    <3>1. ToReuse(s) = 0
      BY <1>2, <1>8, <1>9, <2>2 DEF NoneToReuse, ToReuse
    <3>2. Cardinality(Claimed(s)) <= 1 + past.retries[<<Root, s>>]
      BY <1>3, <1>9, <1>11, <3>1 DEF FewClaims
    <3> QED BY <1>4, <1>11, <3>2 DEF FewSubflows
  <2> QED BY <2>1, <2>2
<1>15. JournalKnows(s)'
  BY <1>2, <1>6, <1>9, <1>10 DEF JournalKnows
<1>16. NoneToReuse(s)'
  BY <1>7 DEF NoneToReuse, CreatingFor
<1> QED BY <1>13, <1>14, <1>15, <1>16

LEMMA WriteKeepsSubflows ==
    ASSUME ExecutorTypeOK, ExecutorTypeOK', ExecutorInv, SubflowInv, Write
    PROVE  SubflowInv'
<1>1. /\ todo # <<>> /\ todo' = Tail(todo) /\ mode' = mode /\ requests' = requests
      /\ todo[1] \in Op /\ Head(todo) = todo[1]
  <2>1. todo # <<>> /\ todo' = Tail(todo) /\ mode' = mode /\ requests' = requests
    BY DEF Write, WriteJournal, WriteCreateRun, WriteResult, WriteStatus, SpawnFutures,
       InitializeSubflow, EvictRun, AcknowledgeRequest, WriteCheckpoint, Doing, Done
  <2> QED BY <2>1, AfterWrite DEF ExecutorTypeOK
<1>2. \A r : ~Creating(r)'
  BY <1>1, Rest DEF ExecutorInv
<1>3. /\ Up' => Up
      /\ \A r \in SubRun, s \in SubflowStep : CreatingFor(r, s)' => CreatingFor(r, s)
  BY <1>1, <1>2 DEF Up, CreatingFor
<1>4. CASE WriteCheckpoint
  <2>1. past'.checkpointed
    BY <1>4 DEF WriteCheckpoint, ExecutorTypeOK
  <2> QED BY <2>1 DEF SubflowInv
<1>5. CASE WriteJournal /\ ~AboutTo("SubRunCreated")
  <2> DEFINE e == todo[1].event
  <2>1. /\ UNCHANGED <<mem, futures>> /\ todo[1].op = "journal"
        /\ recoverable' = Replay(recoverable, e) /\ past' = Remember(e)
    BY <1>1, <1>5 DEF WriteJournal, Doing
  <2>2. e \in Event /\ e.type # "SubRunCreated"
    BY <1>1, <1>5, <2>1, OpCases DEF AboutTo
  <2> HIDE DEF e
  <2>3. past \in Past /\ recoverable \in Recoverable
    BY DEF ExecutorTypeOK, Past
  <2>4. /\ past'.created = past.created /\ past'.retries = past.retries
        /\ past'.checkpointed = past.checkpointed
    BY <2>1, <2>2, <2>3 DEF Remember, Past
  <2>5. recoverable'.subflows = recoverable.subflows
    <3>1. CASE e.type = "StepsNeeded"
      BY <2>1, <2>3, <3>1 DEF Replay, Recoverable
    <3>2. CASE e.type = "TasksStarted"
      BY <2>1, <2>3, <3>2 DEF Replay, ReplayStarted, Recoverable
    <3>3. CASE e.type = "TaskCompleted"
      BY <2>1, <2>3, <3>3 DEF Replay, ReplayCompleted, Recoverable
    <3>4. CASE e.type = "RunCompleted"
      BY <2>1, <2>3, <3>4 DEF Replay, Recoverable
    <3> QED BY <2>2, <3>1, <3>2, <3>3, <3>4, EventCases
  <2> QED BY <1>1, <1>3, <2>1, <2>4, <2>5, CalmStep DEF MaySubmit
<1>6. CASE ~WriteJournal /\ ~WriteCheckpoint
  <2>1. past' = past /\ recoverable' = recoverable
    BY <1>6 DEF Write, WriteCreateRun, WriteResult, WriteStatus, SpawnFutures,
       InitializeSubflow, EvictRun, AcknowledgeRequest
  <2>2. mem'.subflows = mem.subflows /\ mem'.completed = mem.completed
    BY <1>6 DEF Write, WriteCreateRun, WriteResult, WriteStatus, SpawnFutures,
       InitializeSubflow, EvictRun, AcknowledgeRequest, ExecutorTypeOK, Memory
  <2>3. ASSUME NEW s \in SubflowStep, MaySubmit(s)' PROVE MaySubmit(s)
    <3> DEFINE t == <<Root, s>>
    <3>1. t \in Task
      BY TaskParts
    <3>2. futures'[t].phase \in {"idle", "running"} => futures[t].phase \in {"idle", "running"}
      <4>1. CASE futures' = futures
        BY <4>1
      <4>2. CASE SpawnFutures
        <5>1. todo[1].op = "spawn" /\ futures'[t] = IF t \in todo[1].tasks THEN [phase |-> "running"]
                                                    ELSE futures[t]
          BY <1>1, <3>1, <4>2 DEF SpawnFutures, Doing
        <5>2. Up /\ (t \in todo[1].tasks <=> Spawning(t))
          BY <1>1, <5>1, Rest DEF ExecutorInv
        <5>3. t \in todo[1].tasks => futures[t] = Idle
          BY <3>1, <5>2 DEF ExecutorInv, ActiveInv
        <5> QED BY <5>1, <5>3 DEF Idle
      <4>3. CASE AcknowledgeRequest
        <5>1. PICK x, r : futures' = futures \/ futures' = [futures EXCEPT ![x] = [phase |-> "waiting", run |-> r]]
          BY <4>3 DEF AcknowledgeRequest
        <5>2. futures'[t] = futures[t] \/ futures'[t] = [phase |-> "waiting", run |-> r]
          BY <3>1, <5>1 DEF ExecutorTypeOK
        <5> QED BY <5>2
      <4> QED BY <1>6, <4>1, <4>2, <4>3 DEF Write, WriteCreateRun, WriteResult, WriteStatus,
                 InitializeSubflow, EvictRun
    <3> QED BY <2>2, <2>3, <3>2 DEF MaySubmit
  <2> QED BY <1>1, <1>3, <2>1, <2>2, <2>3, CalmStep
<1> QED BY <1>4, <1>5, <1>6, CreatedStep

(* Only a submission leaves the creation of a subflow to write.            *)
LEMMA NoCreation ==
    ASSUME ExecutorTypeOK, ExecutorInv,
           \/ Start \/ SelectTasks \/ SelectNothing \/ FinishRoot
           \/ \E t \in Task : RetryTask(t) \/ CompleteTask(t)
    PROVE  \A r : ~Creating(r)'
<1>1. CASE Start
  <2> DEFINE announced == mem.runs \ (mem.recovered \ mem.needing)
             E == {Journal(StepsNeeded(r)) : r \in announced}
  <2>1. announced \in SUBSET Run
    BY DEF ExecutorTypeOK, Memory
  <2>2. todo' \in Seq(E) /\ E \subseteq Op
    BY <1>1, <2>1, StepsNeededSeq DEF Start
  <2>3. todo' \in Seq(Op) /\ \A i \in DOMAIN todo' : todo'[i] \in E
    BY <2>2, SeqMonotonic
  <2>4. \A i \in DOMAIN todo' : Plain(todo'[i])
    BY <2>3 DEF Plain, Counted, Journal, StepsNeeded
  <2>5. mode' = "select"
    BY <1>1 DEF Start
  <2> HIDE DEF E
  <2> QED BY <2>3, <2>4, <2>5, PlainWrites
<1>2. CASE SelectTasks
  <2>1. PICK tasks, attempts, ids : todo' = Dispatch(tasks, attempts, ids)
    BY <1>2 DEF SelectTasks
  <2>2. mode' = "wait"
    BY <1>2 DEF SelectTasks
  <2> QED BY <2>1, <2>2, DispatchWrites DEF MayCheckpoint
<1>3. CASE SelectNothing
  <2>1. todo' = <<>>
    BY <1>3 DEF SelectNothing, Handling
  <2> QED BY <2>1, StillNothing
<1>4. CASE FinishRoot
  <2>1. CASE mode' = "done" /\ todo' = EndOfRun(Root, mem.failed)
    <3>1. todo' \in Seq(Op) /\ \A i \in DOMAIN todo' : Plain(todo'[i])
      BY <2>1, EndOfRunIsTyped, TaskParts DEF Plain, Counted
    <3> QED BY <2>1, <3>1, PlainWrites
  <2>2. CASE mode' = "deadlocked" /\ todo' = <<>>
    BY <2>2, StillNothing
  <2> QED BY <1>4, <2>1, <2>2 DEF FinishRoot
<1>5. ASSUME NEW t \in Task, RetryTask(t) PROVE \A r : ~Creating(r)'
  <2>1. MayCheckpoint(Dispatch({t}, mem'.attempts, mem.live_ids)) /\ mode' = "select"
    BY <1>5 DEF RetryTask
  <2> QED BY <2>1, DispatchWrites
<1>6. ASSUME NEW t \in Task, CompleteTask(t) PROVE \A r : ~Creating(r)'
  <2> DEFINE r0 == t[1]
             completed == [mem.completed EXCEPT ![r0] = @ \union {t[2]}]
             failed == [mem.failed EXCEPT ![r0] = @ \union
                          IF futures[t].result = "ok" THEN {} ELSE {t[2]}]
             end == IF SubflowEnds(r0, completed) THEN EndOfRun(r0, failed) \o <<Evict(r0)>> ELSE <<>>
             writes == <<Journal(TaskCompleted(t, futures[t].result))>> \o end
  <2>1. MayCheckpoint(writes) /\ mode' = "select" /\ futures[t].phase = "finished"
    BY <1>6 DEF CompleteTask, Finished
  <2>2. r0 \in Run
    BY TaskParts
  <2>3. futures[t].result \in {"ok", "error", "transport", None}
    <3>1. futures[t] \in Future
      BY DEF ExecutorTypeOK
    <3> QED BY <2>1, <3>1 DEF Future
  <2>4. Journal(TaskCompleted(t, futures[t].result)) \in Op
    BY <2>3, EventsAreTyped, WritesAreTyped
  <2>5. end \in Seq(Op) /\ \A i \in DOMAIN end : Plain(end[i])
    BY <2>2, CompletionEnds
  <2> HIDE DEF r0, completed, failed, end
  <2> QED BY <2>1, <2>4, <2>5, CompletionWrites
<1> QED BY <1>1, <1>2, <1>3, <1>4, <1>5, <1>6

LEMMA CalmLoopKeepsSubflows ==
    ASSUME ExecutorTypeOK, ExecutorTypeOK', ExecutorInv, SubflowInv,
           \/ Start \/ SelectTasks \/ SelectNothing \/ FinishRoot
           \/ \E t \in Task : CompleteTask(t)
    PROVE  SubflowInv'
<1>1. /\ requests' = requests /\ recoverable' = recoverable
      /\ Up' => Up
      /\ mem'.subflows = mem.subflows
  <2>1. CASE Start
    BY <2>1 DEF Start, Handling, Up, ExecutorTypeOK, Memory
  <2>2. CASE SelectTasks
    BY <2>2 DEF SelectTasks, Handling, Up, ExecutorTypeOK, Memory
  <2>3. CASE SelectNothing \/ FinishRoot
    BY <2>3 DEF SelectNothing, FinishRoot, Handling, Up
  <2>4. ASSUME NEW t \in Task, CompleteTask(t)
        PROVE  /\ requests' = requests /\ recoverable' = recoverable
               /\ Up' => Up
               /\ mem'.subflows = mem.subflows
    BY <2>4 DEF CompleteTask, Handling, Up, ExecutorTypeOK, Memory
  <2> QED BY <2>1, <2>2, <2>3, <2>4
<1>2. /\ past'.created = past.created /\ past'.retries = past.retries
      /\ past'.checkpointed = past.checkpointed
  BY DEF Start, SelectTasks, SelectNothing, FinishRoot, CompleteTask, ExecutorTypeOK
<1>3. \A r \in SubRun, s \in SubflowStep : ~CreatingFor(r, s)'
  BY NoCreation DEF CreatingFor
<1>4. ASSUME NEW s \in SubflowStep, MaySubmit(s)' PROVE MaySubmit(s)
  <2>1. CASE \E t \in Task : CompleteTask(t)
    <3>1. PICK t \in Task : CompleteTask(t)
      BY <2>1
    <3>2. t[1] \in Run /\ t = <<t[1], t[2]>> /\ <<Root, s>> \in Task
      BY TaskParts
    <3>3. mem'.completed = [mem.completed EXCEPT ![t[1]] = @ \union {t[2]}]
      BY <3>1 DEF CompleteTask, ExecutorTypeOK, Memory
    <3>4. mem.completed[Root] \subseteq mem'.completed[Root]
          /\ (t[1] = Root => t[2] \in mem'.completed[Root])
      <4>1. mem.completed \in [Run -> SUBSET Step] /\ Root \in Run
        BY TaskParts DEF ExecutorTypeOK, Memory
      <4> DEFINE r0 == t[1]
                 s0 == t[2]
      <4> HIDE DEF r0, s0
      <4>2. mem'.completed = [mem.completed EXCEPT ![r0] = @ \union {s0}] /\ r0 \in Run
        BY <3>2, <3>3 DEF r0, s0
      <4>3. mem'.completed[Root] = IF r0 = Root THEN mem.completed[Root] \union {s0}
                                   ELSE mem.completed[Root]
        BY <4>1, <4>2
      <4> QED BY <4>3 DEF r0, s0
    <3>5. t # <<Root, s>>
      BY <1>4, <3>4 DEF MaySubmit
    <3>6. futures'[<<Root, s>>] = futures[<<Root, s>>]
      BY <3>1, <3>2, <3>5, ZenonT(60) DEF CompleteTask, ExecutorTypeOK
    <3> QED BY <1>4, <3>4, <3>6 DEF MaySubmit
  <2>2. CASE Start \/ SelectTasks \/ SelectNothing \/ FinishRoot
    <3>1. futures' = futures /\ mem'.completed = mem.completed
      BY <2>2, ZenonT(60) DEF Start, SelectTasks, SelectNothing, FinishRoot, ExecutorTypeOK, Memory
    <3> QED BY <1>4, <3>1 DEF MaySubmit
  <2> QED BY <2>1, <2>2
<1> QED BY <1>1, <1>2, <1>3, <1>4, CalmStep

(* A transport retry lets its step submit once more, and is counted.       *)
LEMMA RetryKeepsSubflows ==
    ASSUME ExecutorTypeOK, ExecutorTypeOK', ExecutorInv, SubflowInv,
           NEW t \in Task, RetryTask(t)
    PROVE  SubflowInv'
<1>1. /\ requests' = requests /\ recoverable' = recoverable /\ Up
      /\ mem'.subflows = mem.subflows /\ mem'.completed = mem.completed
  BY DEF RetryTask, Handling, Up, ExecutorTypeOK, Memory
<1>2. /\ past'.created = past.created /\ past'.checkpointed = past.checkpointed
      /\ past'.retries = [past.retries EXCEPT ![t] = @ + 1]
      /\ futures' = [futures EXCEPT ![t] = Idle]
  BY DEF RetryTask, ExecutorTypeOK
<1>3. \A r \in SubRun, s \in SubflowStep : ~CreatingFor(r, s)'
  BY NoCreation DEF CreatingFor
<1> SUFFICES ASSUME ~past.checkpointed, NEW s \in SubflowStep
             PROVE  FewSubflows(s)' /\ FewClaims(s)' /\ JournalKnows(s)' /\ NoneToReuse(s)'
  BY <1>2 DEF SubflowInv
<1> DEFINE u == <<Root, s>>
<1>4. FewSubflows(s) /\ FewClaims(s) /\ JournalKnows(s) /\ NoneToReuse(s)
  BY DEF SubflowInv
<1>5. SubflowsOf(s)' = SubflowsOf(s) /\ Claimed(s)' \subseteq Claimed(s)
  BY <1>1, <1>2, <1>3 DEF SubflowsOf, Claimed, RequestedFor
<1>6. /\ Cardinality(Claimed(s)) \in Nat /\ Cardinality(Claimed(s)') \in Nat
      /\ Cardinality(Claimed(s)') <= Cardinality(Claimed(s))
      /\ Cardinality(SubflowsOf(s)) \in Nat
      /\ ToSubmit(s) \in {0, 1} /\ ToReuse(s) \in {0, 1} /\ ToSubmit(s)' \in {0, 1}
  <2>1. Claimed(s) \in SUBSET SubRun /\ SubflowsOf(s) \in SUBSET SubRun
    BY DEF Claimed, SubflowsOf
  <2> QED BY <1>5, <2>1, RetriesOf, SetsOfRuns DEF ToSubmit
<1>7. u \in Task /\ past.retries[u] \in Nat
      /\ past'.retries[u] = past.retries[u] + (IF t = u THEN 1 ELSE 0)
      /\ (t # u => futures'[u] = futures[u])
  <2>1. u \in Task
    BY TaskParts
  <2> HIDE DEF u
  <2>2. past.retries \in [Task -> Nat] /\ futures \in [Task -> Future]
    BY DEF ExecutorTypeOK
  <2> QED BY <1>2, <2>1, <2>2
<1>8. ToReuse(s)' = ToReuse(s) /\ (t # u => ToSubmit(s)' = ToSubmit(s))
  BY <1>1, <1>7 DEF ToReuse, ToSubmit, MaySubmit
<1>9. FewClaims(s)'
  <2> HIDE DEF u
  <2>1. Cardinality(Claimed(s)) + ToSubmit(s) <= 1 + past.retries[u] + ToReuse(s)
    BY <1>1, <1>4 DEF FewClaims, u
  <2>2. Cardinality(Claimed(s)') + ToSubmit(s)' <= 1 + past'.retries[u] + ToReuse(s)'
    BY <1>6, <1>7, <1>8, <2>1
  <2> QED BY <2>2 DEF FewClaims, u
<1>10. FewSubflows(s)'
  BY <1>4, <1>5, <1>6, <1>7 DEF FewSubflows
<1>11. JournalKnows(s)' /\ NoneToReuse(s)'
  BY <1>1, <1>3, <1>4, <1>5 DEF JournalKnows, NoneToReuse
<1> QED BY <1>9, <1>10, <1>11

(* A submission: a run that is created was claimed by its request, and a   *)
(* recovered subflow takes the place of the run that the request claimed.  *)
LEMMA HandleSubmitKeepsSubflows ==
    ASSUME ExecutorTypeOK, ExecutorTypeOK', ExecutorInv, SubflowInv, HandleSubmit
    PROVE  SubflowInv'
<1> DEFINE request == Head(requests)
           s0 == request.task[2]
           r0 == request.run
           known == mem.subflows[s0]
<1>1. /\ mode = "wait" /\ todo = <<>> /\ mode' = "select" /\ Up /\ Up'
      /\ UNCHANGED <<futures, recoverable, past>>
      /\ requests # <<>> /\ requests' = Tail(requests)
  BY DEF HandleSubmit, Handling, Up
<1>2. /\ request = requests[1] /\ request \in Request /\ 1 \in DOMAIN requests
      /\ \A i \in DOMAIN requests' : /\ i + 1 \in DOMAIN requests /\ i + 1 # 1
                                     /\ requests'[i] = requests[i + 1]
      /\ DOMAIN requests' \subseteq Nat
  BY <1>1 DEF ExecutorTypeOK
<1>3. r0 \in SubRun /\ s0 \in SubflowStep /\ request.task = <<Root, s0>>
  BY <1>2 DEF Request
<1>4. past.created[r0] = None /\ s0 # None /\ r0 # None
  BY <1>2, <1>3, ConstantsAssumption DEF ExecutorInv, RequestsInv
<1>5. \A i \in DOMAIN requests' : requests'[i].run # r0
  BY <1>2 DEF ExecutorInv, RequestsInv
<1>6. /\ mem'.completed = mem.completed
      /\ known # None => /\ mem'.subflows = [mem.subflows EXCEPT ![s0] = None]
                         /\ todo' = <<Acknowledge(request, known)>>
      /\ known = None => /\ mem'.subflows = mem.subflows
                         /\ todo' = <<Journal(SubRunCreated(r0, s0)), CreateRun(r0),
                              Journal(StepsNeeded(r0)), Initialize(r0), Acknowledge(request, r0)>>
  BY DEF HandleSubmit, ExecutorTypeOK, Memory
<1>7. \A r \in SubRun, s \in SubflowStep :
        CreatingFor(r, s)' => r = r0 /\ s = s0 /\ known = None
  <2>1. CASE known # None
    <3>1. Acknowledge(request, known).op = "acknowledge"
      BY DEF Acknowledge
    <3>2. todo'[1].op # "journal"
      BY <1>6, <2>1, <3>1
    <3> QED BY <3>2 DEF CreatingFor, Creating, AboutTo
  <2>2. CASE known = None
    <3>1. Journal(SubRunCreated(r0, s0)).event.run = r0 /\ Journal(SubRunCreated(r0, s0)).event.step = s0
      BY DEF Journal, SubRunCreated
    <3> HIDE DEF request, s0, r0, known
    <3>2. todo'[1] = Journal(SubRunCreated(r0, s0))
      BY <1>6, <2>2
    <3> QED BY <2>2, <3>1, <3>2 DEF CreatingFor, Creating
  <2> QED BY <2>1, <2>2
<1>8. RequestedFor(r0, s0)
  BY <1>2, <1>3 DEF RequestedFor
<1>9. \A r, s : RequestedFor(r, s)' => RequestedFor(r, s) /\ r # r0
  BY <1>2, <1>5 DEF RequestedFor
<1> HIDE DEF request, s0, r0, known
<1> SUFFICES ASSUME ~past.checkpointed, NEW s \in SubflowStep
             PROVE  FewSubflows(s)' /\ FewClaims(s)' /\ JournalKnows(s)' /\ NoneToReuse(s)'
  BY <1>1 DEF SubflowInv
<1>10. FewSubflows(s) /\ FewClaims(s) /\ JournalKnows(s) /\ NoneToReuse(s)
  BY DEF SubflowInv
<1>11. /\ SubflowsOf(s)' = SubflowsOf(s) /\ Claimed(s)' \subseteq Claimed(s)
       /\ s = s0 /\ known # None => r0 \in Claimed(s) /\ r0 \notin Claimed(s)'
  BY <1>1, <1>3, <1>4, <1>7, <1>8, <1>9 DEF SubflowsOf, Claimed
<1>12. /\ Cardinality(Claimed(s)) \in Nat /\ Cardinality(Claimed(s)') \in Nat
       /\ Cardinality(Claimed(s)') <= Cardinality(Claimed(s))
       /\ past.retries[<<Root, s>>] \in Nat /\ ToSubmit(s) \in {0, 1} /\ ToReuse(s) \in {0, 1}
  <2>1. Claimed(s) \in SUBSET SubRun
    BY DEF Claimed
  <2> QED BY <1>11, <2>1, RetriesOf, SetsOfRuns
<1>13. ToSubmit(s)' = ToSubmit(s)
  BY <1>1, <1>6 DEF ToSubmit, MaySubmit
<1>14. Cardinality(Claimed(s)) + ToSubmit(s) <= 1 + past.retries[<<Root, s>>] + ToReuse(s)
  BY <1>1, <1>10 DEF FewClaims
<1>15. Cardinality(Claimed(s)') + ToSubmit(s)' <= 1 + past'.retries[<<Root, s>>] + ToReuse(s)'
  <2>1. CASE s = s0 /\ known # None
    <3>1. Claimed(s) \in SUBSET SubRun /\ Claimed(s) \ {r0} \in SUBSET SubRun
      BY DEF Claimed
    <3>2. Claimed(s)' \in SUBSET (Claimed(s) \ {r0})
      BY <1>11, <2>1
    <3>3. IsFiniteSet(Claimed(s)) /\ Cardinality(Claimed(s) \ {r0}) = Cardinality(Claimed(s)) - 1
      BY <1>11, <2>1, <3>1, SetsOfRuns, FS_RemoveElement
    <3>4. Cardinality(Claimed(s)') <= Cardinality(Claimed(s) \ {r0})
      BY <3>1, <3>2, SetsOfRuns
    <3>5. ToReuse(s) = 1 /\ ToReuse(s)' = 0
      <4>1. mem'.subflows[s] = None
        BY <1>6, <2>1 DEF ExecutorTypeOK, Memory
      <4> QED BY <2>1, <4>1 DEF ToReuse, known
    <3> QED BY <1>1, <1>12, <1>13, <1>14, <3>3, <3>4, <3>5
  <2>2. CASE s # s0 \/ known = None
    <3>1. mem'.subflows[s] = mem.subflows[s]
      BY <1>6, <2>2 DEF ExecutorTypeOK, Memory
    <3>2. ToReuse(s)' = ToReuse(s)
      BY <3>1 DEF ToReuse
    <3> QED BY <1>1, <1>12, <1>13, <1>14, <3>2
  <2> QED BY <2>1, <2>2
<1>16. NoneToReuse(s)'
  BY <1>6, <1>7 DEF NoneToReuse, known
<1>17. FewSubflows(s)' /\ JournalKnows(s)'
  BY <1>1, <1>10, <1>11 DEF FewSubflows, JournalKnows
<1> QED BY <1>15, <1>16, <1>17 DEF FewClaims

(* A future that submits claims a run, and may not submit again.           *)
LEMMA SubmitKeepsSubflows ==
    ASSUME ExecutorTypeOK, ExecutorTypeOK', ExecutorInv, SubflowInv, NEW t \in Task, Submit(t)
    PROVE  SubflowInv'
<1> DEFINE s0 == t[2]
           r0 == CHOOSE r \in FreeRuns : TRUE
           new == [task |-> t, attempt |-> mem.attempts[t], run |-> r0]
<1>1. /\ UNCHANGED <<mode, mem, todo, recoverable, past>>
      /\ futures' = [futures EXCEPT ![t] = [phase |-> "submitting"]]
      /\ futures[t].phase = "running" /\ requests' = Append(requests, new)
  BY DEF Submit
<1>2. s0 \in SubflowStep /\ t = <<Root, s0>> /\ r0 \in SubRun
  BY TaskParts DEF Submit, IsSubflow, FreeRuns
<1>3. new.task = t /\ new.run = r0
  OBVIOUS
<1> HIDE DEF s0, r0, new
<1>4. \A i \in DOMAIN requests' :
        \/ i \in DOMAIN requests /\ requests'[i] = requests[i]
        \/ i = Len(requests) + 1 /\ requests'[i] = new
  BY <1>1 DEF ExecutorTypeOK
<1>5. \A r, s : RequestedFor(r, s)' => RequestedFor(r, s) \/ (r = r0 /\ s = s0)
  BY <1>2, <1>3, <1>4 DEF RequestedFor
<1>6. \A r, s : CreatingFor(r, s)' <=> CreatingFor(r, s)
  BY <1>1 DEF CreatingFor, Creating, AboutTo
<1> SUFFICES ASSUME ~past.checkpointed, NEW s \in SubflowStep
             PROVE  FewSubflows(s)' /\ FewClaims(s)' /\ JournalKnows(s)' /\ NoneToReuse(s)'
  BY <1>1 DEF SubflowInv
<1>7. FewSubflows(s) /\ FewClaims(s) /\ JournalKnows(s) /\ NoneToReuse(s)
  BY DEF SubflowInv
<1>8. /\ SubflowsOf(s)' = SubflowsOf(s)
      /\ Claimed(s)' \subseteq Claimed(s) \union (IF s = s0 THEN {r0} ELSE {})
  BY <1>1, <1>5, <1>6 DEF SubflowsOf, Claimed
<1>9. /\ IsFiniteSet(Claimed(s)) /\ Cardinality(Claimed(s)) \in Nat /\ Cardinality(Claimed(s)') \in Nat
      /\ past.retries[<<Root, s>>] \in Nat /\ ToSubmit(s) \in {0, 1} /\ ToReuse(s) \in {0, 1}
  <2>1. Claimed(s) \in SUBSET SubRun /\ Claimed(s)' \in SUBSET SubRun
    BY DEF Claimed
  <2> QED BY <2>1, RetriesOf, SetsOfRuns
<1>10. ToReuse(s)' = ToReuse(s)
  BY <1>1 DEF ToReuse
<1>11. CASE s # s0
  <2>1. Claimed(s)' \in SUBSET Claimed(s) /\ Claimed(s) \in SUBSET SubRun
    BY <1>8, <1>11 DEF Claimed
  <2>2. Cardinality(Claimed(s)') <= Cardinality(Claimed(s))
    BY <2>1, SetsOfRuns
  <2>3. futures'[<<Root, s>>] = futures[<<Root, s>>]
    BY <1>1, <1>2, <1>11, TaskParts DEF ExecutorTypeOK
  <2>4. ToSubmit(s)' = ToSubmit(s)
    BY <1>1, <2>3 DEF ToSubmit, MaySubmit
  <2>5. FewClaims(s)'
    BY <1>1, <1>7, <1>9, <1>10, <2>2, <2>4 DEF FewClaims, Up
  <2> QED BY <1>1, <1>6, <1>7, <1>8, <2>5 DEF FewSubflows, JournalKnows, NoneToReuse
<1>12. CASE s = s0
  <2> DEFINE all == Claimed(s) \union {r0}
  <2>1. all \in SUBSET SubRun /\ Claimed(s)' \in SUBSET all
    BY <1>2, <1>8, <1>12 DEF Claimed
  <2>2. Cardinality(all) <= Cardinality(Claimed(s)) + 1 /\ Cardinality(all) \in Nat
    <3>1. Cardinality(all) = IF r0 \in Claimed(s) THEN Cardinality(Claimed(s))
                             ELSE Cardinality(Claimed(s)) + 1
      BY <1>9, FS_AddElement
    <3> QED BY <1>9, <3>1
  <2>3. Cardinality(Claimed(s)') <= Cardinality(all)
    BY <2>1, SetsOfRuns
  <2>4. Up /\ s \notin mem.completed[Root]
    <3>1. futures[t] # Idle
      BY <1>1 DEF Idle
    <3>2. Up
      BY <3>1 DEF ExecutorInv, ModeInv, Up
    <3>3. t[2] \notin mem.completed[t[1]]
      BY <3>1, <3>2 DEF ExecutorInv, ActiveInv, Active
    <3> QED BY <1>2, <1>12, <3>2, <3>3
  <2>5. ToSubmit(s) = 1
    BY <1>1, <1>2, <1>12, <2>4 DEF ToSubmit, MaySubmit
  <2>6. ToSubmit(s)' = 0
    <3>1. futures'[t].phase = "submitting"
      BY <1>1 DEF ExecutorTypeOK
    <3> QED BY <1>2, <1>12, <3>1 DEF ToSubmit, MaySubmit
  <2>7. FewClaims(s)'
    <3> HIDE DEF all
    <3> QED BY <1>1, <1>7, <1>9, <1>10, <2>2, <2>3, <2>4, <2>5, <2>6 DEF FewClaims
  <2> QED BY <1>1, <1>6, <1>7, <1>8, <2>7 DEF FewSubflows, JournalKnows, NoneToReuse
<1> QED BY <1>11, <1>12

LEMMA AnswerKeepsSubflows ==
    ASSUME ExecutorTypeOK, ExecutorTypeOK', ExecutorInv, SubflowInv, NEW t \in Task,
           Answer(t) \/ SubflowAnswers(t) \/ LoseWorker(t)
    PROVE  SubflowInv'
<1>1. PICK result : FutureEnds(t, result)
  BY DEF Answer, SubflowAnswers, LoseWorker
<1> DEFINE finished == [phase |-> "finished", result |-> result]
<1>2. /\ UNCHANGED <<mode, mem, todo, requests, recoverable, past>>
      /\ futures' = [futures EXCEPT ![t] = finished] /\ finished.phase = "finished"
  BY <1>1 DEF FutureEnds
<1> HIDE DEF finished
<1>3. \A s \in SubflowStep : MaySubmit(s)' => MaySubmit(s)
  <2> SUFFICES ASSUME NEW s \in SubflowStep, MaySubmit(s)' PROVE MaySubmit(s)
    OBVIOUS
  <2> DEFINE u == <<Root, s>>
  <2>1. u \in Task
    BY TaskParts
  <2> HIDE DEF u
  <2>2. futures'[u] = IF u = t THEN finished ELSE futures[u]
    BY <1>2, <2>1 DEF ExecutorTypeOK
  <2> QED BY <1>2, <2>2 DEF MaySubmit, u
<1>4. \A r \in SubRun, s \in SubflowStep : CreatingFor(r, s)' => CreatingFor(r, s)
  BY <1>2 DEF CreatingFor, Creating, AboutTo
<1> QED BY <1>2, <1>3, <1>4, CalmStep DEF Up

LEMMA CrashKeepsSubflows ==
    ASSUME ExecutorTypeOK, ExecutorTypeOK', ExecutorInv, SubflowInv, Crash
    PROVE  SubflowInv'
<1>1. mode' = "down" /\ todo' = <<>> /\ UNCHANGED <<recoverable, past>>
  BY DEF Crash
<1>2. \A r : ~Creating(r)'
  BY <1>1, StillNothing
<1> QED BY <1>1, <1>2 DEF SubflowInv, FewSubflows, SubflowsOf, FewClaims, Up, JournalKnows,
           NoneToReuse, CreatingFor

(* Recovery hands the subflow of each step to the executor, which has one  *)
(* less to submit.                                                         *)
LEMMA RecoverKeepsSubflows ==
    ASSUME ExecutorTypeOK, ExecutorTypeOK', ExecutorInv, SubflowInv, Recover
    PROVE  SubflowInv'
<1>1. /\ mode \in {"down", "deadlocked"} /\ requests' = <<>>
      /\ UNCHANGED <<todo, futures, recoverable, past>>
      /\ \/ mode' = "done" /\ mem' = mem
         \/ mode' = "starting" /\ mem' = RecoveredMemory
  BY DEF Recover
<1>2. todo' = <<>> /\ DOMAIN requests' = {}
  BY <1>1 DEF ExecutorInv, TodoInv
<1>3. \A r : ~Creating(r)'
  BY <1>2, StillNothing
<1> SUFFICES ASSUME ~past.checkpointed, NEW s \in SubflowStep
             PROVE  FewSubflows(s)' /\ FewClaims(s)' /\ JournalKnows(s)' /\ NoneToReuse(s)'
  BY <1>1 DEF SubflowInv
<1>4. FewSubflows(s) /\ JournalKnows(s) /\ SubflowsOf(s)' = SubflowsOf(s)
  BY <1>1 DEF SubflowInv, SubflowsOf
<1>5. FewSubflows(s)' /\ JournalKnows(s)' /\ NoneToReuse(s)'
  BY <1>1, <1>3, <1>4 DEF FewSubflows, JournalKnows, NoneToReuse, CreatingFor
<1>6. FewClaims(s)'
  <2>1. CASE mode' = "done"
    BY <2>1 DEF FewClaims, Up
  <2>2. CASE mode' = "starting" /\ mem' = RecoveredMemory
    <3>1. mem'.subflows = recoverable.subflows
      BY <2>2 DEF RecoveredMemory, FreshMemory
    <3>2. Claimed(s)' = SubflowsOf(s)
      BY <1>1, <1>2, <1>3 DEF Claimed, SubflowsOf, RequestedFor, CreatingFor
    <3>3. Cardinality(SubflowsOf(s)) \in Nat /\ past.retries[<<Root, s>>] \in Nat
      <4>1. SubflowsOf(s) \in SUBSET SubRun
        BY DEF SubflowsOf
      <4> QED BY <4>1, RetriesOf, SetsOfRuns
    <3>4. CASE SubflowsOf(s) = {}
      <4>1. Cardinality(SubflowsOf(s)) = 0
        BY <3>4, FS_EmptySet
      <4> QED BY <1>1, <3>2, <3>3, <4>1 DEF FewClaims, ToSubmit, ToReuse
    <3>5. CASE SubflowsOf(s) # {}
      <4>1. ToReuse(s)' = 1
        BY <1>4, <3>1, <3>5 DEF JournalKnows, ToReuse
      <4> QED BY <1>1, <1>4, <3>2, <3>3, <4>1 DEF FewClaims, FewSubflows, ToSubmit
    <3> QED BY <3>4, <3>5
  <2> QED BY <1>1, <2>1, <2>2
<1> QED BY <1>5, <1>6

LEMMA SubflowInvStep ==
    ExecutorTypeOK /\ ExecutorInv /\ SubflowInv /\ [Next]_vars => SubflowInv'
<1> SUFFICES ASSUME ExecutorTypeOK, ExecutorInv, SubflowInv, [Next]_vars PROVE SubflowInv'
  OBVIOUS
<1>1. ExecutorTypeOK'
  BY TypeStep
<1>2. CASE UNCHANGED vars
  <2>1. \A r \in SubRun, s \in SubflowStep : CreatingFor(r, s)' => CreatingFor(r, s)
    BY <1>2 DEF vars, CreatingFor, Creating, AboutTo
  <2>2. \A s \in SubflowStep : MaySubmit(s)' => MaySubmit(s)
    BY <1>2 DEF vars, MaySubmit
  <2> QED BY <1>1, <1>2, <2>1, <2>2, CalmStep DEF vars, Up
<1>3. CASE Write
  BY <1>1, <1>3, WriteKeepsSubflows
<1>4. CASE Loop
  BY <1>1, <1>4, CalmLoopKeepsSubflows, RetryKeepsSubflows, HandleSubmitKeepsSubflows DEF Loop
<1>5. ASSUME NEW t \in Task, Answer(t) \/ Submit(t) \/ SubflowAnswers(t) \/ LoseWorker(t)
      PROVE  SubflowInv'
  BY <1>1, <1>5, SubmitKeepsSubflows, AnswerKeepsSubflows
<1>6. CASE Crash \/ Recover
  BY <1>1, <1>6, CrashKeepsSubflows, RecoverKeepsSubflows
<1>7. CASE Stopped
  BY <1>2, <1>7 DEF Stopped
<1> QED BY <1>2, <1>3, <1>4, <1>5, <1>6, <1>7 DEF Next, Progress

(* Until a checkpoint is taken a step gets one subflow, and one more for   *)
(* each transport retry, however often the executor crashes: replay of     *)
(* SubRunCreated fills recovered_subflows, and handle_submit_request takes *)
(* the subflow from there before it creates another, so a request that was *)
(* in the channel or a step that was running at the crash is not counted   *)
(* again.                                                                  *)
THEOREM CrashesCreateNoSubflow == Spec => []CrashesDuplicateNoSubflow
<1>1. Init => ExecutorTypeOK /\ ExecutorInv /\ SubflowInv
  BY TypeInit, InvInit, SubflowInit
<1>2. ExecutorTypeOK /\ ExecutorInv /\ SubflowInv /\ [Next]_vars
      => (ExecutorTypeOK /\ ExecutorInv /\ SubflowInv)'
  BY TypeStep, InvStep, SubflowInvStep
<1>3. SubflowInv => CrashesDuplicateNoSubflow
  BY DEF SubflowInv, FewSubflows, CrashesDuplicateNoSubflow
<1> QED BY <1>1, <1>2, <1>3, PTL DEF Spec

-----------------------------------------------------------------------------
(* The executor implements an execution tree.  What memory counts as       *)
(* failed is what the journal does, and the completion that is about to be *)
(* written; ...                                                            *)
Fails(t) == Completing(t) /\ todo[1].event.result # "ok"
FailedThen ==
    [r \in Run |-> recoverable.failed[r] \union {s \in StepsOf(r) : Fails(<<r, s>>)}]

FailuresInv ==
    /\ \A r \in Run : recoverable.failed[r] \subseteq StepsOf(r)
    /\ Up => mem.failed = FailedThen

(* ... a run has no completions before it is created, and a subflow is     *)
(* created for a step that may run; ...                                    *)
NotBegun(r) == \A s \in SubStep : s \notin recoverable.completed[r] /\ ~Completing(<<r, s>>)

BegunInv == \A r \in SubRun : past.created[r] = None => NotBegun(r)

WantedInv ==
    Up => \A i \in DOMAIN requests :
            DependsOn[requests[i].task[2]] \subseteq mem.completed[Root]
CreationInv ==
    \A r \in SubRun : Creating(r) =>
        /\ past.created[r] = None /\ todo[1].event.step \in SubflowStep
        /\ DependsOn[todo[1].event.step] \subseteq recoverable.completed[Root]

(* ... wherever a step and its subflow are named together, the subflow was *)
(* created for that step; ...                                              *)
NamesInv ==
    /\ \A s \in SubflowStep :
         /\ mem.subflows[s] # None => past.created[mem.subflows[s]] = s
         /\ recoverable.subflows[s] # None => past.created[recoverable.subflows[s]] = s
    /\ \A t \in Task : futures[t].phase = "waiting" =>
         IsSubflow(t) /\ past.created[futures[t].run] = t[2]

(* ... a step succeeds on a failure only if it tolerates it, and a subflow  *)
(* step only by a subflow that has ended or by its default, in memory and  *)
(* in the journal; ...                                                     *)
HasEnded(s) ==
    \E r \in SubRun : /\ past.created[r] = s
                      /\ store.status[r] \in Terminal /\ store.result[r] # None
MaySucceed(t, failed) ==
    /\ t[2] \in Tolerant \/ DependsOn[t[2]] \intersect failed[t[1]] = {}
    /\ IsSubflow(t) => t[2] \in UsesDefault \/ HasEnded(t[2])

AnswersInv ==
    \A t \in Task :
        /\ futures[t].phase \in {"submitting", "waiting"} => MayRun(t)
        /\ futures[t].phase = "finished" /\ futures[t].result = "ok" => MaySucceed(t, mem.failed)

CompletionsInv ==
    \A t \in Task : Completing(t) =>
        /\ t[1] = Root \/ past.created[t[1]] # None
        /\ DependsOn[t[2]] \subseteq recoverable.completed[t[1]]
        /\ todo[1].event.result = "ok" => MaySucceed(t, recoverable.failed)

(* ... the result of a run is that of its failures; and the writes ahead   *)
(* keep all of this.                                                       *)
OutputsInv ==
    \A r \in Run : store.status[r] \in Terminal => store.result[r] = OutputOf(r, recoverable.failed)

IsFor(r, s) == past.created[r] = s \/ CreatingFor(r, s)
RecordsBefore(r, i) == \E j \in DOMAIN todo : j < i /\ todo[j].op = "record" /\ todo[j].run = r
Fits(op, i) ==
    /\ op.op = "create" => op.run \in SubRun /\ NotBegun(op.run)
    /\ op.op = "acknowledge" => IsFor(op.run, op.request.task[2])
    /\ op.op = "record" => op.result = OutputOf(op.run, FailedThen)
    /\ op.op = "status" => store.status[op.run] \in Terminal \/ RecordsBefore(op.run, i)
WritesInv == \A i \in DOMAIN todo : \A op \in {todo[i]} : Fits(op, i)

TreeInv ==
    /\ FailuresInv /\ BegunInv /\ WantedInv /\ CreationInv /\ NamesInv
    /\ AnswersInv /\ CompletionsInv /\ OutputsInv /\ WritesInv

LEMMA Typed ==
    ASSUME ExecutorTypeOK
    PROVE  /\ mem.failed \in [Run -> SUBSET Step] /\ mem.completed \in [Run -> SUBSET Step]
           /\ mem.subflows \in [SubflowStep -> SubRun \union {None}]
           /\ recoverable.failed \in [Run -> SUBSET Step]
           /\ recoverable.completed \in [Run -> SUBSET Step]
           /\ recoverable.subflows \in [SubflowStep -> SubRun \union {None}]
           /\ past.created \in [SubRun -> RootStep \union {None}]
           /\ past.completions \in [Task -> Nat]
           /\ futures \in [Task -> Future]
           /\ store.status \in [Run -> Terminal \union {"Running", None}]
           /\ store.result \in [Run -> {"ok", "error", None}]
BY DEF ExecutorTypeOK, Memory, Recoverable

LEMMA TypedNext ==
    ASSUME ExecutorTypeOK'
    PROVE  /\ mem'.failed \in [Run -> SUBSET Step] /\ mem'.completed \in [Run -> SUBSET Step]
           /\ mem'.subflows \in [SubflowStep -> SubRun \union {None}]
           /\ recoverable'.failed \in [Run -> SUBSET Step]
           /\ recoverable'.completed \in [Run -> SUBSET Step]
           /\ recoverable'.subflows \in [SubflowStep -> SubRun \union {None}]
           /\ past'.created \in [SubRun -> RootStep \union {None}]
           /\ past'.completions \in [Task -> Nat]
           /\ futures' \in [Task -> Future]
           /\ store'.status \in [Run -> Terminal \union {"Running", None}]
           /\ store'.result \in [Run -> {"ok", "error", None}]
BY DEF ExecutorTypeOK, Memory, Recoverable

LEMMA FailedNow ==
    ASSUME ExecutorTypeOK, \A t : ~Completing(t)
    PROVE  FailedThen = recoverable.failed
BY Typed DEF FailedThen, Fails

LEMMA FailedNext ==
    ASSUME ExecutorTypeOK', \A t : ~Completing(t)'
    PROVE  FailedThen' = recoverable'.failed
BY TypedNext DEF FailedThen, Fails

LEMMA TreeInit == Init => TreeInv
<1> SUFFICES ASSUME Init PROVE TreeInv
  OBVIOUS
<1>1. /\ todo = <<>> /\ DOMAIN todo = {} /\ DOMAIN requests = {}
      /\ \A t : ~Completing(t) /\ \A r : ~Creating(r)
  BY NothingToWrite DEF Init
<1>2. ExecutorTypeOK
  BY TypeInit
<1>3. FailuresInv
  <2>1. mem.failed = recoverable.failed /\ \A r \in Run : recoverable.failed[r] = {}
    BY DEF Init, FreshMemory, FreshRecoverable
  <2> QED BY <1>1, <1>2, <2>1, FailedNow DEF FailuresInv
<1>4. BegunInv
  <2>1. \A r \in SubRun : recoverable.completed[r] = {}
    BY TaskParts DEF Init, FreshRecoverable
  <2> QED BY <1>1, <2>1 DEF BegunInv, NotBegun
<1>5. WantedInv /\ CreationInv /\ CompletionsInv /\ WritesInv
  BY <1>1 DEF WantedInv, CreationInv, CompletionsInv, WritesInv
<1>6. NamesInv /\ AnswersInv
  BY DEF Init, FreshMemory, FreshRecoverable, NamesInv, AnswersInv, Idle
<1>7. OutputsInv
  BY DEF Init, OutputsInv, Terminal, None
<1> QED BY <1>3, <1>4, <1>5, <1>6, <1>7 DEF TreeInv

(* What has ended stays so.                                                *)
Onward ==
    /\ \A r \in SubRun : past.created[r] # None => past'.created[r] = past.created[r]
    /\ \A r \in Run : store.status[r] \in Terminal =>
         store'.status[r] \in Terminal /\ store'.result[r] = store.result[r]

LEMMA HasEndedStays ==
    ASSUME Onward, NEW s \in SubflowStep, HasEnded(s)
    PROVE  HasEnded(s)'
BY ConstantsAssumption, TaskParts DEF Onward, HasEnded

(* What a write leaves of the writes ahead.                                *)
LEMMA WritesShift ==
    ASSUME ExecutorTypeOK, WritesInv, todo # <<>>, todo' = Tail(todo),
           \A r \in SubRun : NotBegun(r) => NotBegun(r)',
           \A r \in SubRun, s \in SubflowStep : IsFor(r, s) => IsFor(r, s)',
           FailedThen' = FailedThen,
           \A r \in Run : \/ store.status[r] \in Terminal
                          \/ todo[1].op = "record" /\ todo[1].run = r
                          => store'.status[r] \in Terminal
    PROVE  WritesInv'
<1> SUFFICES ASSUME NEW i \in DOMAIN todo', NEW op, op = todo'[i]
             PROVE  Fits(op, i)'
  BY DEF WritesInv
<1>1. /\ i + 1 \in DOMAIN todo /\ op = todo[i + 1] /\ i \in Nat /\ op \in Op
      /\ \A j \in DOMAIN todo : j < i + 1 =>
            j = 1 \/ (j - 1 \in DOMAIN todo' /\ todo'[j - 1] = todo[j] /\ j - 1 < i)
  <2>1. todo \in Seq(Op)
    BY DEF ExecutorTypeOK
  <2>2. /\ DOMAIN todo' = {k \in Nat : k >= 1 /\ k + 1 \in DOMAIN todo}
        /\ \A k \in DOMAIN todo' : todo'[k] = todo[k + 1]
    BY <2>1, AfterWrite
  <2>3. DOMAIN todo = 1..Len(todo) /\ Len(todo) \in Nat /\ \A k \in DOMAIN todo : todo[k] \in Op
    BY <2>1
  <2>4. i + 1 \in DOMAIN todo /\ op = todo[i + 1] /\ i \in Nat
    BY <2>2
  <2>5. op \in Op
    BY <2>3, <2>4
  <2>6. ASSUME NEW j \in DOMAIN todo, j < i + 1, j # 1
        PROVE  j - 1 \in DOMAIN todo' /\ todo'[j - 1] = todo[j] /\ j - 1 < i
    <3>1. j \in Nat /\ j - 1 \in Nat /\ j - 1 >= 1 /\ (j - 1) + 1 = j
      BY <2>3, <2>6
    <3>2. j - 1 \in DOMAIN todo'
      BY <2>2, <3>1
    <3> QED BY <2>2, <2>4, <2>6, <3>1, <3>2
  <2> QED BY <2>4, <2>5, <2>6
<1>2. Fits(op, i + 1)
  BY <1>1 DEF WritesInv
<1>3. op.op = "create" => op.run \in SubRun /\ NotBegun(op.run)'
  BY <1>2 DEF Fits
<1>4. op.op = "acknowledge" => IsFor(op.run, op.request.task[2])'
  <2>1. op.op = "acknowledge" => op.run \in SubRun /\ op.request.task[2] \in SubflowStep
    BY <1>1, OpCases DEF Request
  <2> QED BY <1>2, <2>1 DEF Fits
<1>5. op.op = "record" => op.result = OutputOf(op.run, FailedThen')
  BY <1>2 DEF Fits
<1>6. op.op = "status" => store'.status[op.run] \in Terminal \/ RecordsBefore(op.run, i)'
  <2> SUFFICES ASSUME op.op = "status", store'.status[op.run] \notin Terminal
               PROVE  RecordsBefore(op.run, i)'
    OBVIOUS
  <2>1. op.run \in Run
    BY <1>1, OpCases
  <2>2. PICK j \in DOMAIN todo : j < i + 1 /\ todo[j].op = "record" /\ todo[j].run = op.run
    BY <1>2, <2>1 DEF Fits, RecordsBefore
  <2>3. j # 1
    BY <2>1, <2>2
  <2> QED BY <1>1, <2>2, <2>3 DEF RecordsBefore
<1>7. OutputOf(op.run, FailedThen') = OutputOf(op.run, FailedThen)'
  BY DEF OutputOf
<1> QED BY <1>3, <1>4, <1>5, <1>6, <1>7 DEF Fits

(* A run that is terminal has nothing that is about to fail.               *)
LEMMA EndedRunsAreSettled ==
    ASSUME ExecutorTypeOK, ExecutorInv, EndInv, NEW r \in Run, store.status[r] \in Terminal
    PROVE  /\ FailedThen[r] = recoverable.failed[r]
           /\ r \in SubRun => ~NotBegun(r)
<1>1. \A s \in StepsOf(r) : <<r, s>> \in Task /\ s \in recoverable.completed[r]
  BY TaskParts DEF EndInv, StoredInv, AllCompleted
<1>2. \A s \in StepsOf(r) : ~Completing(<<r, s>>)
  <2> SUFFICES ASSUME NEW s \in StepsOf(r), Completing(<<r, s>>) PROVE FALSE
    OBVIOUS
  <2>1. Up
    <3>1. 1 \in DOMAIN todo /\ Counted(todo[1])
      BY AfterWrite DEF ExecutorTypeOK, Completing, AboutTo, Counted
    <3> QED BY <3>1 DEF ExecutorInv, TodoInv
  <2> QED BY <1>1, <2>1 DEF ExecutorInv, MemoryInv
<1>3. FailedThen[r] = recoverable.failed[r]
  BY <1>2, Typed DEF FailedThen, Fails
<1>4. r \in SubRun => ~NotBegun(r)
  BY <1>1, ConstantsAssumption DEF NotBegun, StepsOf
<1> QED BY <1>3, <1>4

LEMMA DependenciesAreSteps ==
    /\ \A t \in Task : DependsOn[t[2]] \subseteq StepsOf(t[1])
    /\ \A s \in SubflowStep : DependsOn[s] \subseteq StepsOf(Root)
BY ConstantsAssumption DEF Task, StepsOf

(* What a write makes of what the journal has.                             *)
LEMMA WriteEffects ==
    ASSUME ExecutorTypeOK, ExecutorTypeOK', ExecutorInv, TreeInv, Write
    PROVE  /\ todo # <<>> /\ todo' = Tail(todo) /\ mode' = mode /\ requests' = requests
           /\ mem'.completed = mem.completed /\ mem'.failed = mem.failed
           /\ mem'.subflows = mem.subflows /\ mem'.attempts = mem.attempts
           /\ \A t : ~Completing(t)' /\ \A r : ~Creating(r)'
           /\ recoverable'.failed = FailedThen /\ FailedThen' = FailedThen
           /\ \A t \in Task : t[2] \in recoverable'.completed[t[1]] <=>
                                t[2] \in recoverable.completed[t[1]] \/ Completing(t)
           /\ \A r \in SubRun : past'.created[r] = IF Creating(r) THEN todo[1].event.step
                                                   ELSE past.created[r]
           /\ \A s \in SubflowStep :
                recoverable'.subflows[s] \in {recoverable.subflows[s], mem.subflows[s]}
                    \union {r \in SubRun : CreatingFor(r, s)}
<1>1. todo # <<>> /\ todo' = Tail(todo) /\ mode' = mode /\ requests' = requests
  BY DEF Write, WriteJournal, WriteCreateRun, WriteResult, WriteStatus, SpawnFutures,
         InitializeSubflow, EvictRun, AcknowledgeRequest, WriteCheckpoint, Doing, Done
<1>2. /\ mem'.completed = mem.completed /\ mem'.failed = mem.failed
      /\ mem'.subflows = mem.subflows /\ mem'.attempts = mem.attempts
  <2>1. CASE InitializeSubflow
    BY <2>1 DEF InitializeSubflow, ExecutorTypeOK, Memory
  <2>2. CASE EvictRun
    BY <2>2 DEF EvictRun, ExecutorTypeOK, Memory
  <2>3. CASE ~InitializeSubflow /\ ~EvictRun
    <3>1. mem' = mem
      BY <2>3 DEF Write, WriteJournal, WriteCreateRun, WriteResult, WriteStatus, SpawnFutures,
           AcknowledgeRequest, WriteCheckpoint
    <3> QED BY <3>1
  <2> QED BY <2>1, <2>2, <2>3
<1>3. /\ \A t : ~Completing(t)' /\ \A r : ~Creating(r)'
      /\ todo[1].op # "journal" => \A t : ~Completing(t) /\ ~Creating(t)
      /\ ~Up => todo[1].op \in {"journal", "create", "record", "status", "evict"}
  BY <1>1, Rest DEF ExecutorInv
<1>4. Head(todo) = todo[1] /\ todo[1] \in Op
  BY <1>1, AfterWrite DEF ExecutorTypeOK
<1>a. CASE WriteJournal
  <2>1. todo[1].event \in Event /\ todo[1].op = "journal"
    BY <1>4, <1>a, OpCases DEF WriteJournal, Doing
  <2>2. recoverable' = Replay(recoverable, todo[1].event) /\ past' = Remember(todo[1].event)
    BY <1>4, <1>a DEF WriteJournal
  <2>3. \A t \in Task : t[2] \in recoverable'.completed[t[1]] <=>
                          t[2] \in recoverable.completed[t[1]] \/ Completing(t)
    BY <1>a, JournalEffects
  <2>4. recoverable'.failed = FailedThen
    <3> DEFINE e == todo[1].event
    <3>1. CASE e.type = "TaskCompleted"
      <4>1. e.task \in Task
        BY <2>1, <3>1, EventCases
      <4>2. \A t : Fails(t) <=> t = e.task /\ e.result # "ok"
        BY <1>1, <2>1, <3>1 DEF Fails, Completing, AboutTo
      <4>3. recoverable'.failed = [recoverable.failed EXCEPT ![e.task[1]] =
                @ \union IF e.result = "ok" THEN {} ELSE {e.task[2]}]
        BY <2>2, <3>1, Typed DEF Replay, ReplayCompleted, ExecutorTypeOK, Recoverable
      <4>4. \A r \in Run : {s \in StepsOf(r) : Fails(<<r, s>>)} =
                IF r = e.task[1] /\ e.result # "ok" THEN {e.task[2]} ELSE {}
        <5> SUFFICES ASSUME NEW r \in Run
                     PROVE  \A s : (s \in StepsOf(r) /\ Fails(<<r, s>>)) <=>
                                   (r = e.task[1] /\ e.result # "ok" /\ s = e.task[2])
          OBVIOUS
        <5>1. e.task = <<e.task[1], e.task[2]>> /\ e.task[2] \in StepsOf(e.task[1])
          BY <4>1, TaskParts
        <5>2. \A s : <<r, s>> = e.task <=> r = e.task[1] /\ s = e.task[2]
          BY <5>1
        <5> QED BY <4>2, <5>1, <5>2
      <4> HIDE DEF e
      <4>5. \A r \in Run : recoverable'.failed[r] = FailedThen[r]
        BY <4>1, <4>3, <4>4, Typed, TaskParts DEF FailedThen
      <4> QED BY <4>5, TypedNext DEF FailedThen
    <3>2. CASE e.type # "TaskCompleted"
      <4>1. \A t : ~Completing(t)
        BY <3>2 DEF Completing, AboutTo
      <4>2. recoverable'.failed = recoverable.failed
        BY <2>1, <2>2, <3>2, EventCases
           DEF Replay, ReplayStarted, ExecutorTypeOK, Recoverable
      <4> QED BY <4>1, <4>2, FailedNow
    <3> QED BY <3>1, <3>2
  <2>5. \A r \in SubRun : past'.created[r] = IF Creating(r) THEN todo[1].event.step
                                             ELSE past.created[r]
    <3>1. CASE todo[1].event.type = "SubRunCreated"
      <4> DEFINE e == todo[1].event
      <4>1. e.run \in SubRun /\ \A r : Creating(r) <=> r = e.run
        BY <1>1, <2>1, <3>1, EventCases DEF Creating, AboutTo
      <4>2. past' = [past EXCEPT !.created[e.run] = e.step]
        BY <2>2, <3>1 DEF Remember
      <4> HIDE DEF e
      <4>3. past'.created = [past.created EXCEPT ![e.run] = e.step]
        BY <4>2 DEF ExecutorTypeOK
      <4>4. past.created \in [SubRun -> RootStep \union {None}]
        BY DEF ExecutorTypeOK
      <4> QED BY <4>1, <4>3, <4>4 DEF e
    <3>2. CASE todo[1].event.type # "SubRunCreated"
      <4>1. \A r : ~Creating(r)
        BY <3>2 DEF Creating, AboutTo
      <4>2. past'.created = past.created
        BY <2>1, <2>2, <3>2, EventCases DEF Remember, ExecutorTypeOK
      <4> QED BY <4>1, <4>2
    <3> QED BY <3>1, <3>2
  <2>6. \A s \in SubflowStep :
          recoverable'.subflows[s] \in {recoverable.subflows[s]}
              \union {r \in SubRun : CreatingFor(r, s)}
    <3>1. CASE todo[1].event.type = "SubRunCreated"
      <4> DEFINE e == todo[1].event
      <4>1. e.run \in SubRun /\ CreatingFor(e.run, e.step)
        BY <1>1, <2>1, <3>1, EventCases DEF CreatingFor, Creating, AboutTo
      <4>2. recoverable'.subflows = [recoverable.subflows EXCEPT ![e.step] = e.run]
        BY <2>2, <3>1 DEF Replay, ExecutorTypeOK, Recoverable
      <4> HIDE DEF e
      <4> QED BY <4>1, <4>2, Typed
    <3>2. CASE todo[1].event.type # "SubRunCreated"
      BY <2>1, <2>2, <3>2, EventCases
         DEF Replay, ReplayStarted, ReplayCompleted, ExecutorTypeOK, Recoverable
    <3> QED BY <3>1, <3>2
  <2> QED BY <1>1, <1>2, <1>3, <2>3, <2>4, <2>5, <2>6, FailedNext
<1>b. CASE WriteCheckpoint
  <2>1. todo[1].op = "checkpoint"
    BY <1>4, <1>b DEF WriteCheckpoint, Doing
  <2>2. Up /\ (\A t : ~Completing(t)) /\ (\A r : ~Creating(r))
    BY <1>3, <2>1
  <2>3. /\ recoverable'.failed = mem.failed /\ recoverable'.completed = mem.completed
        /\ recoverable'.subflows = mem.subflows /\ past'.created = past.created
    BY <1>b DEF WriteCheckpoint, Captured, ExecutorTypeOK
  <2>4. mem.failed = FailedThen
    BY <2>2 DEF TreeInv, FailuresInv
  <2>5. \A t \in Task : t[2] \in mem.completed[t[1]] <=> t[2] \in recoverable.completed[t[1]]
    BY <2>2 DEF ExecutorInv, MemoryInv
  <2> QED BY <1>1, <1>2, <1>3, <2>2, <2>3, <2>4, <2>5, FailedNext
<1>c. CASE ~WriteJournal /\ ~WriteCheckpoint
  <2>1. recoverable' = recoverable /\ past' = past /\ todo[1].op # "journal"
    BY <1>4, <1>c DEF Write, WriteCreateRun, WriteResult, WriteStatus, SpawnFutures,
         InitializeSubflow, EvictRun, AcknowledgeRequest, Doing
  <2>2. (\A t : ~Completing(t)) /\ (\A r : ~Creating(r))
    BY <1>3, <2>1
  <2>3. FailedThen = recoverable.failed
    BY <2>2, FailedNow
  <2> QED BY <1>1, <1>2, <1>3, <2>1, <2>2, <2>3, FailedNext
<1> QED BY <1>a, <1>b, <1>c

(* What a write makes of the metadata.                                     *)
LEMMA StoreEffects ==
    ASSUME ExecutorTypeOK, ExecutorInv, EndInv, TreeInv, Write
    PROVE  \A r \in Run :
             /\ store.status[r] \in Terminal =>
                  store'.status[r] \in Terminal /\ store'.result[r] = store.result[r]
             /\ todo[1].op = "record" /\ todo[1].run = r => store'.status[r] \in Terminal
             /\ store'.status[r] \in Terminal =>
                  \/ store.status[r] \in Terminal
                  \/ /\ WriteResult /\ todo[1].op = "record" /\ todo[1].run = r
                     /\ store'.result[r] = OutputOf(r, recoverable.failed)
<1> SUFFICES ASSUME NEW r \in Run
             PROVE  /\ store.status[r] \in Terminal =>
                         store'.status[r] \in Terminal /\ store'.result[r] = store.result[r]
                    /\ todo[1].op = "record" /\ todo[1].run = r => store'.status[r] \in Terminal
                    /\ store'.status[r] \in Terminal =>
                         \/ store.status[r] \in Terminal
                         \/ /\ WriteResult /\ todo[1].op = "record" /\ todo[1].run = r
                            /\ store'.result[r] = OutputOf(r, recoverable.failed)
  OBVIOUS
<1>1. todo # <<>> /\ todo' = Tail(todo) /\ mode' = mode
  BY DEF Write, WriteJournal, WriteCreateRun, WriteResult, WriteStatus, SpawnFutures,
         InitializeSubflow, EvictRun, AcknowledgeRequest, WriteCheckpoint, Doing, Done
<1>2. Head(todo) = todo[1] /\ todo[1] \in Op /\ 1 \in DOMAIN todo
  BY <1>1, AfterWrite DEF ExecutorTypeOK
<1>3. Fits(todo[1], 1)
  BY <1>2 DEF TreeInv, WritesInv
<1>4. /\ store.status \in [Run -> Terminal \union {"Running", None}]
      /\ store.result \in [Run -> {"ok", "error", None}]
      /\ store = [status |-> store.status, result |-> store.result]
  BY DEF ExecutorTypeOK
<1>5. {"Completed", "Failed"} = Terminal /\ "Running" \notin Terminal
  BY DEF Terminal
<1>a. CASE WriteResult
  <2>1. /\ todo[1].op = "record" /\ todo[1].run \in Run
        /\ store' = [store EXCEPT !.result[todo[1].run] = todo[1].result,
               !.status[todo[1].run] = IF todo[1].result = "ok" THEN "Completed" ELSE "Failed"]
    BY <1>2, <1>a, OpCases DEF WriteResult, Doing
  <2>2. /\ store'.result = [store.result EXCEPT ![todo[1].run] = todo[1].result]
        /\ store'.status = [store.status EXCEPT
               ![todo[1].run] = IF todo[1].result = "ok" THEN "Completed" ELSE "Failed"]
    BY <1>4, <2>1
  <2>3. FailedThen = recoverable.failed
    <3>1. \A t : ~Completing(t)
      BY <1>1, <2>1, Rest DEF ExecutorInv
    <3> QED BY <3>1, FailedNow
  <2>4. todo[1].result = OutputOf(todo[1].run, recoverable.failed)
    BY <1>3, <2>1, <2>3 DEF Fits
  <2>5. store.status[r] \in Terminal => store.result[r] = OutputOf(r, recoverable.failed)
    BY DEF TreeInv, OutputsInv
  <2>6. CASE r = todo[1].run
    BY <1>4, <1>5, <1>a, <2>1, <2>2, <2>4, <2>5, <2>6
  <2>7. CASE r # todo[1].run
    BY <1>4, <2>2, <2>7
  <2> QED BY <2>6, <2>7
<1>b. CASE WriteStatus
  <2>1. /\ todo[1].op = "status" /\ todo[1].run \in Run /\ todo[1].status \in Terminal
        /\ store' = [store EXCEPT !.status[todo[1].run] = todo[1].status]
    BY <1>2, <1>b, OpCases DEF WriteStatus, Doing
  <2>2. store.status[todo[1].run] \in Terminal
    <3>1. ~RecordsBefore(todo[1].run, 1)
      <4>1. \A j \in DOMAIN todo : ~(j < 1)
        BY DEF ExecutorTypeOK
      <4> QED BY <4>1 DEF RecordsBefore
    <3> QED BY <1>3, <2>1, <3>1 DEF Fits
  <2>3. /\ store'.result = store.result
        /\ store'.status = [store.status EXCEPT ![todo[1].run] = todo[1].status]
    BY <1>4, <2>1
  <2> QED BY <1>4, <2>1, <2>2, <2>3
<1>c. CASE WriteCreateRun
  <2>1. /\ todo[1].op = "create" /\ todo[1].run \in SubRun /\ NotBegun(todo[1].run)
        /\ store' = [store EXCEPT !.status[todo[1].run] = "Running"]
    BY <1>2, <1>3, <1>c DEF WriteCreateRun, Doing, Fits
  <2>2. store.status[todo[1].run] \notin Terminal
    BY <2>1, EndedRunsAreSettled, TaskParts
  <2>3. /\ store'.result = store.result
        /\ store'.status = [store.status EXCEPT ![todo[1].run] = "Running"]
    BY <1>4, <2>1
  <2>4. todo[1].op # "record"
    BY <2>1
  <2>5. todo[1].run \in Run
    BY <2>1, TaskParts
  <2> QED BY <1>4, <1>5, <2>2, <2>3, <2>4, <2>5
<1>d. CASE ~WriteResult /\ ~WriteStatus /\ ~WriteCreateRun
  <2>1. store' = store /\ todo[1].op # "record"
    BY <1>2, <1>d DEF Write, WriteJournal, SpawnFutures, InitializeSubflow, EvictRun,
         AcknowledgeRequest, WriteCheckpoint, Doing
  <2> QED BY <2>1
<1> QED BY <1>a, <1>b, <1>c, <1>d

LEMMA WriteOnward ==
    ASSUME ExecutorTypeOK, ExecutorTypeOK', ExecutorInv, EndInv, TreeInv, Write
    PROVE  Onward
<1>1. \A r \in SubRun : past.created[r] # None => past'.created[r] = past.created[r]
  <2>1. \A r \in SubRun : Creating(r) => past.created[r] = None
    BY DEF TreeInv, CreationInv
  <2> QED BY <2>1, WriteEffects
<1> QED BY <1>1, StoreEffects DEF Onward

LEMMA WriteKeepsTree ==
    ASSUME ExecutorTypeOK, ExecutorTypeOK', ExecutorInv, EndInv, TreeInv, Write
    PROVE  TreeInv'
<1>1. /\ todo # <<>> /\ todo' = Tail(todo) /\ mode' = mode /\ requests' = requests
      /\ mem'.completed = mem.completed /\ mem'.failed = mem.failed
      /\ mem'.subflows = mem.subflows /\ mem'.attempts = mem.attempts
      /\ \A t : ~Completing(t)' /\ \A r : ~Creating(r)'
      /\ recoverable'.failed = FailedThen /\ FailedThen' = FailedThen
  BY WriteEffects
<1>2. Up' <=> Up
  BY <1>1 DEF Up
<1>3. /\ \A t \in Task : t[2] \in recoverable'.completed[t[1]] <=>
                           t[2] \in recoverable.completed[t[1]] \/ Completing(t)
      /\ \A r \in SubRun : past'.created[r] = IF Creating(r) THEN todo[1].event.step
                                              ELSE past.created[r]
      /\ \A s \in SubflowStep :
                recoverable'.subflows[s] \in {recoverable.subflows[s], mem.subflows[s]}
                    \union {r \in SubRun : CreatingFor(r, s)}
  BY WriteEffects
<1>4. Onward /\ ((\A s \in SubflowStep : HasEnded(s) => HasEnded(s)'))
  BY WriteOnward, HasEndedStays
<1>5. todo[1] \in Op /\ Head(todo) = todo[1] /\ 1 \in DOMAIN todo
  BY <1>1, AfterWrite DEF ExecutorTypeOK
<1>6. /\ FailuresInv /\ BegunInv /\ WantedInv /\ CreationInv /\ NamesInv
      /\ AnswersInv /\ CompletionsInv /\ OutputsInv /\ WritesInv
  BY DEF TreeInv
<1>7. \A r \in SubRun : NotBegun(r) => NotBegun(r)'
  <2> SUFFICES ASSUME NEW r \in SubRun, NotBegun(r), NEW s \in SubStep
               PROVE  s \notin recoverable'.completed[r]
    BY <1>1 DEF NotBegun
  <2>1. <<r, s>> \in Task
    BY DEF Task
  <2> QED BY <1>3, <2>1 DEF NotBegun
<1>8. \A r \in SubRun : Creating(r) =>
        todo[1].event.step # None /\ past.created[r] = None /\ todo[1].event.step \in SubflowStep
  BY <1>6, ConstantsAssumption DEF CreationInv
<1>9. \A r \in SubRun, s \in SubflowStep : IsFor(r, s) => past'.created[r] = s
  BY <1>3, <1>8, ConstantsAssumption DEF IsFor, CreatingFor
<1>10. FailuresInv'
  <2>1. \A r \in Run : FailedThen[r] \subseteq StepsOf(r)
    BY <1>6 DEF FailuresInv, FailedThen
  <2> QED BY <1>1, <1>2, <1>6, <2>1 DEF FailuresInv
<1>11. BegunInv'
  BY <1>3, <1>6, <1>7, <1>8 DEF BegunInv
<1>12. WantedInv' /\ CreationInv'
  BY <1>1, <1>2, <1>6 DEF WantedInv, CreationInv
<1>13. NamesInv'
  <2>1. ASSUME NEW s \in SubflowStep, mem'.subflows[s] # None
        PROVE  past'.created[mem'.subflows[s]] = s
    <3>1. mem'.subflows[s] = mem.subflows[s] /\ mem.subflows[s] # None
      BY <1>1, <2>1
    <3>2. past.created[mem.subflows[s]] = s
      BY <1>6, <3>1 DEF NamesInv
    <3>3. mem.subflows[s] \in SubRun /\ s # None
      BY <3>1, Typed, ConstantsAssumption
    <3> QED BY <1>4, <3>1, <3>2, <3>3 DEF Onward
  <2>2. ASSUME NEW s \in SubflowStep, recoverable'.subflows[s] # None
        PROVE  past'.created[recoverable'.subflows[s]] = s
    <3>1. CASE recoverable'.subflows[s] = recoverable.subflows[s]
      BY <1>4, <1>6, <2>2, <3>1, Typed, ConstantsAssumption DEF NamesInv, Onward
    <3>2. CASE recoverable'.subflows[s] = mem.subflows[s]
      BY <1>1, <2>1, <2>2, <3>2
    <3>3. CASE recoverable'.subflows[s] \in {r \in SubRun : CreatingFor(r, s)}
      BY <1>9, <3>3 DEF IsFor
    <3> QED BY <1>3, <3>1, <3>2, <3>3
  <2>3. ASSUME NEW t \in Task, futures'[t].phase = "waiting"
        PROVE  IsSubflow(t) /\ past'.created[futures'[t].run] = t[2]
    <3>1. CASE futures'[t] = futures[t]
      <4>1. IsSubflow(t) /\ past.created[futures[t].run] = t[2]
        BY <1>6, <2>3, <3>1 DEF NamesInv
      <4>2. futures[t].run \in SubRun /\ t[2] \in SubflowStep
        BY <2>3, <3>1, <4>1, Typed DEF Future, IsSubflow
      <4> QED BY <1>4, <3>1, <4>1, <4>2, ConstantsAssumption DEF Onward
    <3>2. CASE futures'[t] # futures[t]
      <4>1. AcknowledgeRequest
        BY <2>3, <3>2 DEF Write, WriteJournal, WriteCreateRun, WriteResult, WriteStatus,
             SpawnFutures, InitializeSubflow, EvictRun, WriteCheckpoint
      <4>2. /\ todo[1].op = "acknowledge" /\ todo[1].request.task = t
            /\ futures'[t] = [phase |-> "waiting", run |-> todo[1].run]
        BY <1>5, <3>2, <4>1, Typed DEF AcknowledgeRequest, Doing
      <4>3. todo[1].run \in SubRun /\ IsSubflow(t)
        BY <1>5, <4>2, OpCases DEF Request, IsSubflow
      <4>4. IsFor(todo[1].run, t[2])
        BY <1>5, <1>6, <4>2 DEF WritesInv, Fits
      <4> QED BY <1>9, <4>2, <4>3, <4>4 DEF IsSubflow
    <3> QED BY <3>1, <3>2
  <2> QED BY <2>1, <2>2, <2>3 DEF NamesInv
<1>14. AnswersInv'
  <2> SUFFICES ASSUME NEW t \in Task
               PROVE  /\ futures'[t].phase \in {"submitting", "waiting"} => MayRun(t)
                      /\ futures'[t].phase = "finished" /\ futures'[t].result = "ok" =>
                           /\ t[2] \in Tolerant \/ DependsOn[t[2]] \intersect mem.failed[t[1]] = {}
                           /\ IsSubflow(t) => t[2] \in UsesDefault \/ HasEnded(t[2])
    BY <1>1, <1>4 DEF AnswersInv, MayRun, DependencyFailed, MaySucceed, IsSubflow
  <2>1. \/ futures'[t] = futures[t]
        \/ futures'[t].phase = "running"
        \/ futures'[t].phase = "waiting" /\ futures[t].phase = "submitting"
    <3>1. CASE SpawnFutures
      BY <3>1 DEF SpawnFutures
    <3>2. CASE AcknowledgeRequest
      BY <3>2, Typed DEF AcknowledgeRequest
    <3>3. CASE ~SpawnFutures /\ ~AcknowledgeRequest
      BY <3>3 DEF Write, WriteJournal, WriteCreateRun, WriteResult, WriteStatus,
             InitializeSubflow, EvictRun, WriteCheckpoint
    <3> QED BY <3>1, <3>2, <3>3
  <2> QED BY <1>6, <2>1 DEF AnswersInv, MaySucceed
<1>15. CompletionsInv'
  BY <1>1 DEF CompletionsInv
<1>16. OutputsInv'
  <2> SUFFICES ASSUME NEW r \in Run, store'.status[r] \in Terminal
               PROVE  store'.result[r] = OutputOf(r, FailedThen)
    BY <1>1 DEF OutputsInv, OutputOf
  <2>1. CASE store.status[r] \in Terminal
    <3>1. FailedThen[r] = recoverable.failed[r]
      BY <2>1, EndedRunsAreSettled
    <3> QED BY <1>6, <2>1, <3>1, StoreEffects DEF OutputsInv, OutputOf
  <2>2. CASE store.status[r] \notin Terminal
    <3>1. todo[1].op = "record" /\ store'.result[r] = OutputOf(r, recoverable.failed)
      BY <2>2, StoreEffects
    <3>2. FailedThen = recoverable.failed
      <4>1. \A t : ~Completing(t)
        BY <3>1 DEF Completing, AboutTo
      <4> QED BY <4>1, FailedNow
    <3> QED BY <3>1, <3>2
  <2> QED BY <2>1, <2>2
<1>17. WritesInv'
  <2>1. \A r \in SubRun, s \in SubflowStep : IsFor(r, s) => IsFor(r, s)'
    BY <1>9 DEF IsFor
  <2>2. \A r \in Run : \/ store.status[r] \in Terminal
                       \/ todo[1].op = "record" /\ todo[1].run = r
                       => store'.status[r] \in Terminal
    BY StoreEffects
  <2> QED BY <1>1, <1>6, <1>7, <2>1, <2>2, WritesShift
<1> QED BY <1>10, <1>11, <1>12, <1>13, <1>14, <1>15, <1>16, <1>17 DEF TreeInv

(* A step that is not journalled, creates and completes nothing.           *)
MayGoOn(t) ==
    \/ futures'[t] = futures[t]
    \/ futures'[t].phase \in {"idle", "running"}
    \/ futures'[t].phase = "submitting" /\ MayRun(t)
    \/ /\ futures'[t].phase = "finished"
       /\ futures'[t].result = "ok" => MaySucceed(t, mem.failed)

LEMMA CalmTreeStep ==
    ASSUME ExecutorTypeOK, ExecutorTypeOK', TreeInv,
           store' = store, recoverable' = recoverable, past'.created = past.created,
           \/ todo' = todo
           \/ /\ \A t : ~Completing(t) /\ ~Completing(t)'
              /\ CreationInv' /\ WritesInv',
           Up' => Up,
           \/ mem'.failed = mem.failed /\ mem'.completed = mem.completed
           \/ ~Up' /\ \A t \in Task : futures'[t] = Idle,
           \A s \in SubflowStep : mem'.subflows[s] \in {mem.subflows[s], None},
           \A i \in DOMAIN requests' :
               \/ \E j \in DOMAIN requests : requests'[i] = requests[j]
               \/ DependsOn[requests'[i].task[2]] \subseteq mem.completed[Root],
           \A t \in Task : MayGoOn(t)
    PROVE  TreeInv'
<1>1. /\ FailuresInv /\ BegunInv /\ WantedInv /\ CreationInv /\ NamesInv
      /\ AnswersInv /\ CompletionsInv /\ OutputsInv /\ WritesInv
  BY DEF TreeInv
<1>2. /\ \A t : Completing(t)' <=> Completing(t)
      /\ \A t : Completing(t) => todo' = todo
      /\ FailedThen' = FailedThen
  <2>1. CASE todo' = todo
    <3>1. \A t : Completing(t)' <=> Completing(t)
      BY <2>1 DEF Completing, AboutTo
    <3>2. \A t : Fails(t)' <=> Fails(t)
      BY <2>1, <3>1 DEF Fails
    <3> QED BY <2>1, <3>1, <3>2 DEF FailedThen
  <2>2. CASE \A t : ~Completing(t) /\ ~Completing(t)'
    BY <2>2, FailedNow, FailedNext
  <2> QED BY <2>1, <2>2
<1>3. \A s : HasEnded(s)' <=> HasEnded(s)
  BY DEF HasEnded
<1>4. \A r \in SubRun : NotBegun(r)' <=> NotBegun(r)
  BY <1>2 DEF NotBegun
<1>5. FailuresInv' /\ BegunInv'
  <2>1. Up' => mem'.failed = mem.failed
    OBVIOUS
  <2> QED BY <1>1, <1>2, <1>4, <2>1 DEF FailuresInv, BegunInv
<1>6. WantedInv'
  <2> SUFFICES ASSUME Up', NEW i \in DOMAIN requests'
               PROVE  DependsOn[requests'[i].task[2]] \subseteq mem.completed[Root]
    BY DEF WantedInv
  <2> QED BY <1>1 DEF WantedInv
<1>7. CreationInv'
  <2>1. CASE todo' = todo
    BY <1>1, <2>1 DEF CreationInv, Creating, AboutTo
  <2> QED BY <2>1
<1>8. NamesInv'
  <2>1. \A s \in SubflowStep : mem'.subflows[s] # None => mem'.subflows[s] = mem.subflows[s]
    OBVIOUS
  <2>2. \A t \in Task : futures'[t].phase = "waiting" => futures'[t] = futures[t]
    BY DEF MayGoOn
  <2>3. ASSUME NEW s \in SubflowStep, mem'.subflows[s] # None
        PROVE  past'.created[mem'.subflows[s]] = s
    BY <1>1, <2>1, <2>3 DEF NamesInv
  <2>4. ASSUME NEW s \in SubflowStep, recoverable'.subflows[s] # None
        PROVE  past'.created[recoverable'.subflows[s]] = s
    BY <1>1, <2>4 DEF NamesInv
  <2>5. ASSUME NEW t \in Task, futures'[t].phase = "waiting"
        PROVE  IsSubflow(t) /\ past'.created[futures'[t].run] = t[2]
    BY <1>1, <2>2, <2>5 DEF NamesInv
  <2> QED BY <2>3, <2>4, <2>5 DEF NamesInv
<1>9. AnswersInv'
  <2> SUFFICES ASSUME NEW t \in Task
               PROVE  /\ futures'[t].phase \in {"submitting", "waiting"} => MayRun(t)'
                      /\ futures'[t].phase = "finished" /\ futures'[t].result = "ok" =>
                           /\ t[2] \in Tolerant \/ DependsOn[t[2]] \intersect mem'.failed[t[1]] = {}
                           /\ IsSubflow(t) => t[2] \in UsesDefault \/ HasEnded(t[2])
    BY <1>3 DEF AnswersInv, MaySucceed, IsSubflow
  <2>1. CASE mem'.failed = mem.failed
    <3>1. MayRun(t)' <=> MayRun(t)
      BY <2>1 DEF MayRun, DependencyFailed
    <3> QED BY <1>1, <2>1, <3>1 DEF AnswersInv, MayGoOn, MaySucceed
  <2>2. CASE futures'[t] = Idle
    BY <2>2 DEF Idle
  <2> QED BY <2>1, <2>2
<1>10. CompletionsInv'
  <2> SUFFICES ASSUME NEW t \in Task, Completing(t)
               PROVE  /\ t[1] = Root \/ past.created[t[1]] # None
                      /\ DependsOn[t[2]] \subseteq recoverable.completed[t[1]]
                      /\ todo[1].event.result = "ok" =>
                           /\ t[2] \in Tolerant \/ DependsOn[t[2]] \intersect recoverable.failed[t[1]] = {}
                           /\ IsSubflow(t) => t[2] \in UsesDefault \/ HasEnded(t[2])
    BY <1>2, <1>3 DEF CompletionsInv, MaySucceed, IsSubflow
  <2> QED BY <1>1 DEF CompletionsInv, MaySucceed
<1>11. OutputsInv'
  BY <1>1 DEF OutputsInv, OutputOf
<1>12. WritesInv'
  <2>1. CASE todo' = todo
    <3>1. \A r, s : IsFor(r, s)' <=> IsFor(r, s)
      BY <2>1 DEF IsFor, CreatingFor, Creating, AboutTo
    <3>2. \A r, i : RecordsBefore(r, i)' <=> RecordsBefore(r, i)
      BY <2>1 DEF RecordsBefore
    <3>3. \A r : OutputOf(r, FailedThen') = OutputOf(r, FailedThen)
      BY <1>2
    <3>4. \A op, i : Fits(op, i) => Fits(op, i)'
      BY <1>2, <1>4, <3>1, <3>2, <3>3 DEF Fits, OutputOf
    <3> QED BY <1>1, <2>1, <3>4 DEF WritesInv
  <2> QED BY <2>1
<1> QED BY <1>5, <1>6, <1>7, <1>8, <1>9, <1>10, <1>11, <1>12 DEF TreeInv

(* The writes that do not bear on the tree.                                *)
LEMMA OtherWrites ==
    ASSUME \A i \in DOMAIN todo' : todo'[i].op \notin {"create", "acknowledge", "record", "status"}
    PROVE  WritesInv'
<1> SUFFICES ASSUME NEW i \in DOMAIN todo', NEW op, op = todo'[i]
             PROVE  Fits(op, i)'
  BY DEF WritesInv
<1> QED BY DEF Fits

LEMMA NothingCreated ==
    ASSUME \A r : ~Creating(r)'
    PROVE  CreationInv'
BY DEF CreationInv

(* The loop, where no task completes and no subflow is created.            *)
LEMMA FinishWrites ==
    ASSUME ExecutorTypeOK, ExecutorTypeOK', TreeInv, FinishRoot
    PROVE  (\A t : ~Completing(t)') /\ WritesInv'
<1>1. CASE todo' = <<>>
  <2>1. \A i \in DOMAIN todo' : FALSE
    BY <1>1
  <2> QED BY <1>1, <2>1, StillNothing DEF WritesInv
<1>2. CASE todo' # <<>>
  <2> DEFINE record == RecordResult(Root, OutputOf(Root, mem.failed))
             ended == Journal(RunCompleted(Root, FinalStatus(Root, mem.failed)))
             status == UpdateStatus(Root, FinalStatus(Root, mem.failed))
  <2>1. todo' = <<record, ended, status>> /\ recoverable' = recoverable /\ Up /\ todo = <<>>
    BY <1>2 DEF FinishRoot, EndOfRun, Handling, Up
  <2>2. /\ record.op = "record" /\ record.run = Root
        /\ record.result = OutputOf(Root, mem.failed)
        /\ ended.op = "journal" /\ status.op = "status" /\ status.run = Root
    BY DEF RecordResult, Journal, UpdateStatus
  <2> HIDE DEF record, ended, status
  <2>3. DOMAIN todo' = {1, 2, 3} /\ todo'[1] = record /\ todo'[2] = ended /\ todo'[3] = status
    BY <2>1
  <2>4. \A t : ~Completing(t) /\ ~Completing(t)'
    BY <2>1, <2>2, <2>3, NothingToWrite DEF Completing, AboutTo
  <2>5. mem.failed = FailedThen'
    <3>1. mem.failed = FailedThen
      BY <2>1 DEF TreeInv, FailuresInv
    <3> QED BY <2>1, <2>4, <3>1, FailedNow, FailedNext
  <2>6. WritesInv'
    <3> SUFFICES ASSUME NEW i \in DOMAIN todo', NEW op, op = todo'[i]
                 PROVE  Fits(op, i)'
      BY DEF WritesInv
    <3>1. CASE i = 1
      <4>1. op.op = "record" /\ op.run = Root /\ op.result = OutputOf(Root, FailedThen')
        BY <2>2, <2>3, <2>5, <3>1
      <4> QED BY <4>1 DEF Fits, OutputOf
    <3>2. CASE i = 2
      BY <2>2, <2>3, <3>2 DEF Fits
    <3>3. CASE i = 3
      <4>1. RecordsBefore(Root, i)'
        BY <2>2, <2>3, <3>3 DEF RecordsBefore
      <4> QED BY <2>2, <2>3, <3>3, <4>1 DEF Fits
    <3> QED BY <2>3, <3>1, <3>2, <3>3
  <2> QED BY <2>4, <2>6
<1> QED BY <1>1, <1>2

LEMMA DispatchesFit ==
    ASSUME NEW tasks, NEW attempts, NEW ids, MayCheckpoint(Dispatch(tasks, attempts, ids))
    PROVE  (\A t : ~Completing(t)') /\ WritesInv'
<1> DEFINE first == Journal(TasksStarted(tasks, attempts, ids))
<1>1. first.op = "journal" /\ first.event.type = "TasksStarted"
  BY DEF Journal, TasksStarted
<1>2. Spawn(tasks).op = "spawn" /\ TakeCheckpoint.op = "checkpoint"
  BY DEF Spawn, TakeCheckpoint
<1>3. \/ todo' = <<first, Spawn(tasks)>>
      \/ todo' = <<first, Spawn(tasks), TakeCheckpoint>>
  BY DEF Dispatch, MayCheckpoint
<1> HIDE DEF first
<1>4. todo'[1] = first /\ \A i \in DOMAIN todo' : todo'[i] \in {first, Spawn(tasks), TakeCheckpoint}
  BY <1>3
<1>5. \A t : ~Completing(t)'
  BY <1>1, <1>4 DEF Completing, AboutTo
<1>6. WritesInv'
  BY <1>1, <1>2, <1>4, OtherWrites
<1> QED BY <1>5, <1>6

LEMMA CalmLoopKeepsTree ==
    ASSUME ExecutorTypeOK, ExecutorTypeOK', ExecutorInv, TreeInv,
           \/ Start \/ SelectTasks \/ SelectNothing \/ FinishRoot
           \/ \E t \in Task : RetryTask(t)
    PROVE  TreeInv'
<1>1. /\ todo = <<>> /\ Up /\ UNCHANGED <<requests, store, recoverable>>
      /\ \A t : ~Completing(t)
  BY NothingToWrite DEF Start, SelectTasks, SelectNothing, FinishRoot, RetryTask, Handling, Up
<1>2. CreationInv'
  BY NoCreation, NothingCreated
<1>3. (\A t : ~Completing(t)') /\ WritesInv'
  <2>1. CASE Start
    <3> DEFINE announced == mem.runs \ (mem.recovered \ mem.needing)
               E == {Journal(StepsNeeded(r)) : r \in announced}
    <3>1. announced \in SUBSET Run
      BY DEF ExecutorTypeOK, Memory
    <3>2. todo' \in Seq(E)
      BY <2>1, <3>1, StepsNeededSeq DEF Start
    <3>3. \A i \in DOMAIN todo' : todo'[i] \in E /\ todo'[i].op = "journal"
                                  /\ todo'[i].event.type = "StepsNeeded"
      BY <3>2 DEF Journal, StepsNeeded
    <3>4. todo' # <<>> => 1 \in DOMAIN todo'
      BY <3>2
    <3> HIDE DEF E
    <3> QED BY <3>3, <3>4, OtherWrites DEF Completing, AboutTo
  <2>2. CASE SelectTasks
    <3>1. PICK tasks, attempts, ids : todo' = Dispatch(tasks, attempts, ids)
      BY <2>2 DEF SelectTasks
    <3> QED BY <3>1, DispatchesFit DEF MayCheckpoint
  <2>3. CASE SelectNothing
    <3>1. todo' = <<>>
      BY <1>1, <2>3 DEF SelectNothing
    <3> QED BY <3>1, StillNothing, OtherWrites
  <2>4. CASE FinishRoot
    BY <2>4, FinishWrites
  <2>5. ASSUME NEW t \in Task, RetryTask(t) PROVE (\A x : ~Completing(x)') /\ WritesInv'
    BY <2>5, DispatchesFit DEF RetryTask
  <2> QED BY <2>1, <2>2, <2>3, <2>4, <2>5
<1>4. /\ mem'.failed = mem.failed /\ mem'.completed = mem.completed
      /\ mem'.subflows = mem.subflows /\ past'.created = past.created
  <2>1. CASE Start
    BY <2>1 DEF Start, ExecutorTypeOK, Memory
  <2>2. CASE SelectTasks
    <3>1. PICK tasks \in kSubset(Min({MaxToStart, Cardinality(mem.queue)}), mem.queue) :
            LET attempts == [t \in Task |-> mem.attempts[t] + IF t \in tasks THEN 1 ELSE 0]
                ids == [t \in Task |-> IF t \in tasks THEN TaskId(t) ELSE mem.live_ids[t]]
            IN  /\ mem' = [mem EXCEPT !.queue = @ \ tasks,
                                      !.attempts = attempts,
                                      !.live_ids = ids,
                                      !.recovered_ids = [t \in Task |->
                                            IF t \in tasks THEN 0 ELSE @[t]]]
                /\ past' = [past EXCEPT !.issued = [t \in Task |->
                        IF t \in tasks THEN Max({@[t], ids[t]}) ELSE @[t]]]
      BY <2>2 DEF SelectTasks
    <3>2. /\ mem'.failed = mem.failed /\ mem'.completed = mem.completed
          /\ mem'.subflows = mem.subflows
      BY <3>1 DEF ExecutorTypeOK, Memory
    <3>3. past'.created = past.created
      BY <3>1 DEF ExecutorTypeOK
    <3> QED BY <3>2, <3>3
  <2>3. CASE SelectNothing \/ FinishRoot
    BY <2>3 DEF SelectNothing, FinishRoot
  <2>4. ASSUME NEW t \in Task, RetryTask(t)
        PROVE  /\ mem'.failed = mem.failed /\ mem'.completed = mem.completed
               /\ mem'.subflows = mem.subflows /\ past'.created = past.created
    BY <2>4 DEF RetryTask, ExecutorTypeOK, Memory
  <2> QED BY <2>1, <2>2, <2>3, <2>4
<1>5. \A t \in Task : MayGoOn(t)
  <2>1. \A t \in Task : futures'[t] = futures[t] \/ futures'[t] = Idle
    BY Typed DEF Start, SelectTasks, SelectNothing, FinishRoot, RetryTask
  <2> QED BY <2>1 DEF MayGoOn, Idle
<1> QED BY <1>1, <1>2, <1>3, <1>4, <1>5, CalmTreeStep

(* A submission: the run that is created was asked for by the step it is   *)
(* created for, and the run that is reused was.                            *)
LEMMA HandleSubmitKeepsTree ==
    ASSUME ExecutorTypeOK, ExecutorTypeOK', ExecutorInv, TreeInv, HandleSubmit
    PROVE  TreeInv'
<1>0. PICK request : request = Head(requests)
  OBVIOUS
<1> DEFINE s == request.task[2]
           r0 == request.run
           known == mem.subflows[s]
<1>1. /\ todo = <<>> /\ Up /\ UNCHANGED <<futures, store, recoverable, past>>
      /\ requests # <<>> /\ requests' = Tail(requests) /\ \A t : ~Completing(t)
  BY NothingToWrite DEF HandleSubmit, Handling, Up
<1>2. /\ request = requests[1] /\ request \in Request /\ 1 \in DOMAIN requests
      /\ \A i \in DOMAIN requests' : /\ i + 1 \in DOMAIN requests
                                     /\ requests'[i] = requests[i + 1]
  BY <1>0, <1>1 DEF ExecutorTypeOK
<1>3. r0 \in SubRun /\ s \in SubflowStep
  BY <1>2 DEF Request
<1>4. /\ mem'.failed = mem.failed /\ mem'.completed = mem.completed
      /\ \A x \in SubflowStep : mem'.subflows[x] \in {mem.subflows[x], None}
  <2>1. CASE known # None
    <3>1. mem' = [mem EXCEPT !.subflows[s] = None]
      BY <1>0, <2>1 DEF HandleSubmit
    <3> QED BY <1>3, <3>1 DEF ExecutorTypeOK, Memory
  <2>2. CASE known = None
    <3>1. mem' = [mem EXCEPT !.runs = @ \union {r0}]
      BY <1>0, <2>2 DEF HandleSubmit
    <3> QED BY <3>1 DEF ExecutorTypeOK, Memory
  <2> QED BY <2>1, <2>2
<1>5. (\A t : ~Completing(t)') /\ CreationInv' /\ WritesInv'
  <2>1. CASE known # None
    <3> DEFINE ack == Acknowledge(request, known)
    <3>1. todo' = <<ack>>
      BY <1>0, <2>1 DEF HandleSubmit
    <3>2. ack.op = "acknowledge" /\ ack.run = known /\ ack.request = request
      BY DEF Acknowledge
    <3>3. past.created[known] = s
      BY <1>3, <2>1 DEF TreeInv, NamesInv
    <3> HIDE DEF ack
    <3>4. \A i \in DOMAIN todo' : todo'[i] = ack
      BY <3>1
    <3>5. (\A t : ~Completing(t)') /\ (\A r : ~Creating(r)')
      BY <3>1, <3>2 DEF Completing, Creating, AboutTo
    <3>6. WritesInv'
      <4> SUFFICES ASSUME NEW i \in DOMAIN todo', NEW op, op = todo'[i]
                   PROVE  Fits(op, i)'
        BY DEF WritesInv
      <4>1. op.op = "acknowledge" /\ op.run = known /\ op.request.task[2] = s
        BY <3>2, <3>4
      <4>2. past'.created[op.run] = op.request.task[2]
        BY <1>1, <3>3, <4>1
      <4> QED BY <4>1, <4>2 DEF Fits, IsFor
    <3> QED BY <3>5, <3>6, NothingCreated
  <2>2. CASE known = None
    <3> DEFINE e == SubRunCreated(r0, s)
               a == Journal(e)
               b == CreateRun(r0)
               c == Journal(StepsNeeded(r0))
               d == Initialize(r0)
               f == Acknowledge(request, r0)
    <3>1. todo' = <<a, b, c, d, f>>
      BY <1>0, <2>2 DEF HandleSubmit
    <3>2. /\ a.op = "journal" /\ a.event = e /\ b.op = "create" /\ b.run = r0
          /\ c.op = "journal" /\ d.op = "initialize"
          /\ f.op = "acknowledge" /\ f.run = r0 /\ f.request = request
          /\ e.type = "SubRunCreated" /\ e.run = r0 /\ e.step = s
      BY DEF SubRunCreated, Journal, CreateRun, Initialize, Acknowledge
    <3> HIDE DEF a, b, c, d, e, f
    <3>3. /\ todo' # <<>> /\ DOMAIN todo' = 1..5 /\ todo'[1] = a /\ todo'[2] = b
          /\ todo'[3] = c /\ todo'[4] = d /\ todo'[5] = f
      BY <3>1
    <3>4. /\ \A t : ~Completing(t)'
          /\ \A r : Creating(r)' => r = r0
          /\ CreatingFor(r0, s)' /\ todo'[1].event.step = s
      BY <3>2, <3>3 DEF Completing, CreatingFor, Creating, AboutTo
    <3>5. past.created[r0] = None
      BY <1>2 DEF ExecutorInv, RequestsInv
    <3>6. DependsOn[s] \subseteq recoverable.completed[Root]
      <4>1. DependsOn[s] \subseteq mem.completed[Root]
        BY <1>1, <1>2 DEF TreeInv, WantedInv
      <4> SUFFICES ASSUME NEW x \in DependsOn[s] PROVE x \in recoverable.completed[Root]
        OBVIOUS
      <4>2. <<Root, x>> \in Task
        BY <1>3, DependenciesAreSteps, TaskParts
      <4> QED BY <1>1, <4>1, <4>2 DEF ExecutorInv, MemoryInv
    <3>7. CreationInv'
      <4> SUFFICES ASSUME NEW r \in SubRun, Creating(r)'
                   PROVE  /\ past'.created[r] = None /\ todo'[1].event.step \in SubflowStep
                          /\ DependsOn[todo'[1].event.step] \subseteq recoverable'.completed[Root]
        BY DEF CreationInv
      <4>1. r = r0
        BY <3>4
      <4> QED BY <1>1, <1>3, <3>4, <3>5, <3>6, <4>1
    <3>8. NotBegun(r0)'
      <4>1. NotBegun(r0)
        BY <1>3, <3>5 DEF TreeInv, BegunInv
      <4> QED BY <1>1, <3>4, <4>1 DEF NotBegun
    <3>9. WritesInv'
      <4> SUFFICES ASSUME NEW i \in DOMAIN todo', NEW op, op = todo'[i]
                   PROVE  Fits(op, i)'
        BY DEF WritesInv
      <4>1. CASE op.op \notin {"create", "acknowledge", "record", "status"}
        BY <4>1 DEF Fits
      <4>2. CASE i = 2
        BY <1>3, <3>2, <3>3, <3>8, <4>2 DEF Fits
      <4>3. CASE i = 5
        <5>1. op.op = "acknowledge" /\ op.run = r0 /\ op.request.task[2] = s
          BY <3>2, <3>3, <4>3
        <5>2. IsFor(op.run, op.request.task[2])'
          BY <3>4, <5>1 DEF IsFor
        <5> QED BY <5>1, <5>2 DEF Fits
      <4> QED BY <3>2, <3>3, <4>1, <4>2, <4>3
    <3> QED BY <3>4, <3>7, <3>9
  <2> QED BY <2>1, <2>2
<1>6. \A t \in Task : MayGoOn(t)
  BY <1>1 DEF MayGoOn
<1> QED BY <1>1, <1>2, <1>4, <1>5, <1>6, CalmTreeStep

(* The futures.                                                            *)
LEMMA FutureKeepsTree ==
    ASSUME ExecutorTypeOK, ExecutorTypeOK', ExecutorInv, TreeInv, NEW t \in Task,
           Answer(t) \/ Submit(t) \/ SubflowAnswers(t) \/ LoseWorker(t)
    PROVE  TreeInv'
<1>1. UNCHANGED <<mode, mem, todo, store, recoverable, past>>
  BY DEF Answer, Submit, SubflowAnswers, LoseWorker, FutureEnds
<1>2. Up
  <2>1. futures[t] # Idle
    BY DEF Answer, Submit, SubflowAnswers, LoseWorker, Idle
  <2> QED BY <2>1 DEF ExecutorInv, ModeInv, Up
<1>3. \A x \in Task : x # t => futures'[x] = futures[x]
  BY Typed DEF Answer, Submit, SubflowAnswers, LoseWorker, FutureEnds
<1>4. MayGoOn(t)
  <2>1. CASE Answer(t)
    <3>1. PICK result \in Outcomes(t) : FutureEnds(t, result)
      BY <2>1 DEF Answer
    <3>2. futures'[t] = [phase |-> "finished", result |-> result]
      BY <3>1, Typed DEF FutureEnds
    <3>3. result = "ok" => MayRun(t) /\ (IsSubflow(t) => t[2] \in UsesDefault)
      BY DEF Outcomes, HandedOn, WithDefault
    <3> QED BY <3>2, <3>3 DEF MayGoOn, MaySucceed, MayRun, DependencyFailed
  <2>2. CASE Submit(t)
    <3>1. futures'[t] = [phase |-> "submitting"] /\ MayRun(t)
      BY <2>2, Typed DEF Submit
    <3> QED BY <3>1 DEF MayGoOn
  <2>3. CASE SubflowAnswers(t)
    <3>1. /\ futures[t].phase = "waiting" /\ store.status[futures[t].run] \in Terminal
          /\ futures'[t].phase = "finished"
          /\ futures'[t].result = "ok" => t[2] \in UsesDefault \/ store.result[futures[t].run] # None
      BY <2>3, Typed DEF SubflowAnswers, FutureEnds, WithDefault
    <3>2. MayRun(t) /\ IsSubflow(t) /\ past.created[futures[t].run] = t[2]
      BY <3>1 DEF TreeInv, AnswersInv, NamesInv
    <3>3. futures[t].run \in SubRun
      BY <3>1, Typed DEF Future
    <3>4. futures'[t].result = "ok" => t[2] \in UsesDefault \/ HasEnded(t[2])
      BY <3>1, <3>2, <3>3 DEF HasEnded
    <3> QED BY <3>1, <3>2, <3>4 DEF MayGoOn, MaySucceed, MayRun, DependencyFailed
  <2>4. CASE LoseWorker(t)
    <3>1. /\ futures[t].phase \in {"submitting", "waiting"}
          /\ futures'[t].phase = "finished"
          /\ futures'[t].result = "ok" => t[2] \in UsesDefault
      BY <2>4, Typed DEF LoseWorker, FutureEnds, WithDefault
    <3>2. MayRun(t)
      BY <3>1 DEF TreeInv, AnswersInv
    <3> QED BY <3>1, <3>2 DEF MayGoOn, MaySucceed, MayRun, DependencyFailed
  <2> QED BY <2>1, <2>2, <2>3, <2>4
<1>5. \A i \in DOMAIN requests' :
         \/ \E j \in DOMAIN requests : requests'[i] = requests[j]
         \/ DependsOn[requests'[i].task[2]] \subseteq mem.completed[Root]
  <2>1. CASE ~Submit(t)
    <3>1. requests' = requests
      BY <2>1 DEF Answer, SubflowAnswers, LoseWorker, FutureEnds
    <3> QED BY <3>1
  <2>2. CASE Submit(t)
    <3> DEFINE request == [task |-> t, attempt |-> mem.attempts[t],
                           run |-> CHOOSE r \in FreeRuns : TRUE]
    <3>1. requests' = Append(requests, request) /\ requests \in Seq(Request) /\ IsSubflow(t)
      BY <2>2 DEF Submit, ExecutorTypeOK
    <3>2. request.task = t
      OBVIOUS
    <3> HIDE DEF request
    <3>3. \A i \in DOMAIN requests' :
             requests'[i] = request \/ \E j \in DOMAIN requests : requests'[i] = requests[j]
      BY <3>1
    <3>4. DependsOn[t[2]] \subseteq mem.completed[Root]
      <4>1. Active(t) /\ t[1] = Root
        BY <2>2 DEF Submit, Active, Idle, IsSubflow
      <4> QED BY <1>2, <4>1 DEF ExecutorInv, ActiveInv
    <3> QED BY <3>2, <3>3, <3>4
  <2> QED BY <2>1, <2>2
<1>6. \A x \in Task : MayGoOn(x)
  BY <1>3, <1>4 DEF MayGoOn
<1>7. Up' => Up
  BY <1>2
<1>8. mem'.subflows = mem.subflows /\ mem'.failed = mem.failed /\ mem'.completed = mem.completed
  BY <1>1
<1> QED BY <1>1, <1>5, <1>6, <1>7, <1>8, CalmTreeStep

(* A completion: what it depends on is complete, and what was begun on the *)
(* success of its dependencies does not depend on it.                      *)
LEMMA EndOfRunFits ==
    ASSUME NEW r \in Run, NEW failed, NEW i \in 1..3
    PROVE  LET op == EndOfRun(r, failed)[i] IN
             \/ op.op = "journal"
             \/ op.op = "record" /\ op.run = r /\ op.result = OutputOf(r, failed)
             \/ /\ op.op = "status" /\ op.run = r
                /\ \E j \in 1..3 : j < i /\ EndOfRun(r, failed)[j].op = "record"
                                         /\ EndOfRun(r, failed)[j].run = r
<1> DEFINE record == RecordResult(r, OutputOf(r, failed))
           ended == Journal(RunCompleted(r, FinalStatus(r, failed)))
           status == UpdateStatus(r, FinalStatus(r, failed))
<1>1. /\ record.op = "record" /\ record.run = r /\ record.result = OutputOf(r, failed)
      /\ ended.op = "journal" /\ status.op = "status" /\ status.run = r
  BY DEF RecordResult, Journal, UpdateStatus
<1>2. EndOfRun(r, failed) = IF r = Root THEN <<record, ended, status>> ELSE <<ended, record, status>>
  BY DEF EndOfRun
<1> HIDE DEF record, ended, status
<1> QED BY <1>1, <1>2

LEMMA CompletionWritesFit ==
    ASSUME NEW t \in Task, NEW result, Journal(TaskCompleted(t, result)) \in Op,
           NEW failed, NEW end, FailedThen' = failed,
           end = EndOfRun(t[1], failed) \o <<Evict(t[1])>> \/ end = <<>>,
           MayCheckpoint(<<Journal(TaskCompleted(t, result))>> \o end)
    PROVE  WritesInv'
<1> DEFINE first == Journal(TaskCompleted(t, result))
           last == Evict(t[1])
           three == EndOfRun(t[1], failed)
<1>1. first.op = "journal" /\ last.op = "evict" /\ TakeCheckpoint.op = "checkpoint"
  BY DEF Journal, Evict, TakeCheckpoint
<1>2. t[1] \in Run
  BY TaskParts
<1>3. three \in Seq(Op) /\ Len(three) = 3 /\ last \in Op
  BY <1>2, EndOfRunIsTyped, WritesAreTyped
<1>4. CASE end = <<>>
  <2> HIDE DEF first
  <2>1. todo' = <<first>> \/ todo' = <<first, TakeCheckpoint>>
    BY <1>4, WritesAreTyped DEF MayCheckpoint, first
  <2> QED BY <1>1, <2>1, OtherWrites
<1>5. CASE end = three \o <<last>>
  <2>1. \A i \in 1..3 :
           \/ three[i].op = "journal"
           \/ three[i].op = "record" /\ three[i].run = t[1] /\ three[i].result = OutputOf(t[1], failed)
           \/ /\ three[i].op = "status" /\ three[i].run = t[1]
              /\ \E j \in 1..3 : j < i /\ three[j].op = "record" /\ three[j].run = t[1]
    BY <1>2, EndOfRunFits
  <2> HIDE DEF first, last, three
  <2>2. /\ \A k \in 1..3 : k + 1 \in DOMAIN todo' /\ todo'[k + 1] = three[k]
        /\ \A i \in DOMAIN todo' :
             todo'[i] \in {first, last, TakeCheckpoint} \/ \E k \in 1..3 : i = k + 1
    <3>1. MayCheckpoint(<<first>> \o end) /\ first \in Op
      BY DEF first
    <3>2. /\ todo' # <<>> /\ todo'[1] = first
          /\ \A k \in 1..Len(three) : k + 1 \in DOMAIN todo' /\ todo'[k + 1] = three[k]
          /\ \A i \in DOMAIN todo' :
               todo'[i] \in {first, last, TakeCheckpoint} \/ \E k \in 1..Len(three) : i = k + 1
      BY <1>3, <1>5, <3>1, EndOfSubflowShape
    <3> QED BY <1>3, <3>2
  <2> SUFFICES ASSUME NEW i \in DOMAIN todo', NEW op, op = todo'[i]
               PROVE  Fits(op, i)'
    BY DEF WritesInv
  <2>3. CASE op.op \notin {"create", "acknowledge", "record", "status"}
    BY <2>3 DEF Fits
  <2>4. ASSUME NEW k \in 1..3, i = k + 1 PROVE Fits(op, i)'
    <3>1. op = three[k]
      BY <2>2, <2>4
    <3>2. CASE op.op = "record" /\ op.run = t[1] /\ op.result = OutputOf(t[1], failed)
      BY <3>2 DEF Fits, OutputOf
    <3>3. ASSUME NEW j \in 1..3, j < k, three[j].op = "record", three[j].run = t[1],
                 op.op = "status", op.run = t[1]
          PROVE  Fits(op, i)'
      <4>1. j + 1 \in DOMAIN todo' /\ todo'[j + 1] = three[j] /\ j + 1 < i
        BY <2>2, <2>4, <3>3
      <4>2. RecordsBefore(t[1], i)'
        BY <3>3, <4>1 DEF RecordsBefore
      <4> QED BY <3>3, <4>2 DEF Fits
    <3> QED BY <2>1, <2>3, <3>1, <3>2, <3>3
  <2> QED BY <1>1, <2>2, <2>3, <2>4
<1> QED BY <1>4, <1>5

LEMMA CompleteTaskKeepsTree ==
    ASSUME ExecutorTypeOK, ExecutorTypeOK', ExecutorInv, TreeInv,
           NEW t \in Task, CompleteTask(t)
    PROVE  TreeInv'
<1>0. PICK result : result = futures[t].result
  OBVIOUS
<1>1. PICK failed : failed = [mem.failed EXCEPT ![t[1]] = @ \union
                               IF result = "ok" THEN {} ELSE {t[2]}]
  OBVIOUS
<1>2. PICK end :
        /\ MayCheckpoint(<<Journal(TaskCompleted(t, result))>> \o end)
        /\ end = EndOfRun(t[1], failed) \o <<Evict(t[1])>> \/ end = <<>>
  BY <1>0, <1>1 DEF CompleteTask
<1>3. /\ todo = <<>> /\ Up /\ Up' /\ mode' = "select" /\ t[1] \in Run /\ t[2] \in StepsOf(t[1])
      /\ UNCHANGED <<requests, store, recoverable, past>>
      /\ futures' = [futures EXCEPT ![t] = Idle] /\ futures[t].phase = "finished"
  BY TaskParts DEF CompleteTask, Handling, Up, Finished
<1>4. /\ mem'.failed = failed /\ mem'.subflows = mem.subflows
      /\ mem.completed[Root] \subseteq mem'.completed[Root]
  <2> DEFINE completed == [mem.completed EXCEPT ![t[1]] = @ \union {t[2]}]
             ready == ReadyTasks(t[1], completed) \ ReadyTasks(t[1], mem.completed)
  <2>1. mem' = [mem EXCEPT !.completed = completed, !.failed = failed,
                           !.queue = @ \union ready, !.live_ids[t] = 0]
    BY <1>0, <1>1 DEF CompleteTask
  <2> HIDE DEF ready
  <2> QED BY <1>3, <2>1, TaskParts, SMTT(30) DEF ExecutorTypeOK, Memory
<1>5. result \in {"ok", "error", "transport", None} /\ Journal(TaskCompleted(t, result)) \in Op
  <2>1. result \in {"ok", "error", "transport", None}
    BY <1>0, <1>3, Typed DEF Future
  <2> QED BY <2>1, EventsAreTyped, WritesAreTyped
<1>6. /\ \A x : Completing(x)' <=> x = t
      /\ \A r : ~Creating(r)'
      /\ todo'[1].event.result = result
  <2>1. end \in Seq(Op) /\ \A i \in DOMAIN end : Plain(end[i])
    BY <1>2, <1>3, CompletionEnds
  <2>2. (\A x : Completing(x)' <=> x = t) /\ \A r : ~Creating(r)'
    BY <1>2, <1>3, <1>5, <2>1, CompletionWrites
  <2>3. todo'[1] = Journal(TaskCompleted(t, result))
    <3> DEFINE first == Journal(TaskCompleted(t, result))
    <3>1. first \in Op /\ MayCheckpoint(<<first>> \o end)
      BY <1>2, <1>5
    <3> HIDE DEF first
    <3>2. <<first>> \o end \in Seq(Op) /\ (<<first>> \o end)[1] = first /\ Len(<<first>> \o end) >= 1
      BY <2>1, <3>1
    <3>3. TakeCheckpoint \in Op
      BY WritesAreTyped
    <3> QED BY <3>1, <3>2, <3>3 DEF MayCheckpoint, first
  <2> QED BY <2>2, <2>3 DEF Journal, TaskCompleted
<1>7. /\ \A x : ~Completing(x)
      /\ mem.failed = recoverable.failed
  <2>1. \A x : ~Completing(x)
    BY <1>3, NothingToWrite
  <2> QED BY <1>3, <2>1, FailedNow DEF TreeInv, FailuresInv
<1>8. Active(t) /\ t[2] \notin mem.completed[t[1]]
      /\ DependsOn[t[2]] \subseteq mem.completed[t[1]]
      /\ (t[1] = Root \/ past.created[t[1]] # None)
  <2>1. Active(t)
    BY <1>3 DEF Active, Idle
  <2> QED BY <1>3, <2>1 DEF ExecutorInv, ActiveInv
<1>9. FailedThen' = failed
  <2>1. \A x : Fails(x)' <=> x = t /\ result # "ok"
    BY <1>6 DEF Fails
  <2>2. \A r \in Run : {s \in StepsOf(r) : Fails(<<r, s>>)'} =
                         IF r = t[1] /\ result # "ok" THEN {t[2]} ELSE {}
    <3> SUFFICES ASSUME NEW r \in Run
                 PROVE  \A s : (s \in StepsOf(r) /\ Fails(<<r, s>>)') <=>
                               (r = t[1] /\ result # "ok" /\ s = t[2])
      OBVIOUS
    <3>1. t = <<t[1], t[2]>>
      BY TaskParts
    <3>2. \A s : <<r, s>> = t <=> r = t[1] /\ s = t[2]
      BY <3>1
    <3> QED BY <1>3, <2>1, <3>2
  <2>3. FailedThen' = [r \in Run |-> recoverable'.failed[r] \union {s \in StepsOf(r) : Fails(<<r, s>>)'}]
    BY DEF FailedThen
  <2>4. FailedThen' = [r \in Run |-> mem.failed[r] \union
                         IF r = t[1] /\ result # "ok" THEN {t[2]} ELSE {}]
    BY <1>3, <1>7, <2>2, <2>3
  <2>5. failed = [r \in Run |-> IF r = t[1] THEN mem.failed[r] \union
                                   (IF result = "ok" THEN {} ELSE {t[2]}) ELSE mem.failed[r]]
    BY <1>1, Typed
  <2>6. \A r \in Run : (mem.failed[r] \union IF r = t[1] /\ result # "ok" THEN {t[2]} ELSE {}) =
                         (IF r = t[1] THEN mem.failed[r] \union
                                   (IF result = "ok" THEN {} ELSE {t[2]}) ELSE mem.failed[r])
    OBVIOUS
  <2> QED BY <2>4, <2>5, <2>6
<1>10. /\ FailuresInv /\ BegunInv /\ WantedInv /\ CreationInv /\ NamesInv
       /\ AnswersInv /\ CompletionsInv /\ OutputsInv /\ WritesInv
  BY DEF TreeInv
<1>11. \A s : HasEnded(s)' <=> HasEnded(s)
  BY <1>3 DEF HasEnded
<1>12. FailuresInv' /\ CreationInv'
  BY <1>3, <1>4, <1>6, <1>9, <1>10 DEF FailuresInv, CreationInv
<1>13. BegunInv'
  <2> SUFFICES ASSUME NEW r \in SubRun, past'.created[r] = None
               PROVE  NotBegun(r)'
    BY DEF BegunInv
  <2>1. NotBegun(r)
    BY <1>3, <1>10 DEF BegunInv
  <2>2. \A s \in SubStep : <<r, s>> # t
    BY <1>3, <1>8, ConstantsAssumption
  <2> QED BY <1>3, <1>6, <2>1, <2>2 DEF NotBegun
<1>14. WantedInv'
  BY <1>3, <1>4, <1>10 DEF WantedInv
<1>15. \A x \in Task : futures'[x] = IF x = t THEN Idle ELSE futures[x]
  BY <1>3, Typed
<1>16. NamesInv'
  <2>1. \A x \in Task : futures'[x].phase = "waiting" => futures'[x] = futures[x]
    BY <1>15 DEF Idle
  <2>2. ASSUME NEW s \in SubflowStep, mem'.subflows[s] # None
        PROVE  past'.created[mem'.subflows[s]] = s
    BY <1>3, <1>4, <1>10, <2>2 DEF NamesInv
  <2>3. ASSUME NEW s \in SubflowStep, recoverable'.subflows[s] # None
        PROVE  past'.created[recoverable'.subflows[s]] = s
    BY <1>3, <1>10, <2>3 DEF NamesInv
  <2>4. ASSUME NEW x \in Task, futures'[x].phase = "waiting"
        PROVE  IsSubflow(x) /\ past'.created[futures'[x].run] = x[2]
    BY <1>3, <1>10, <2>1, <2>4 DEF NamesInv
  <2> QED BY <2>2, <2>3, <2>4 DEF NamesInv
<1>17. AnswersInv'
  <2> SUFFICES ASSUME NEW x \in Task, futures'[x].phase \in {"submitting", "waiting", "finished"}
               PROVE  DependsOn[x[2]] \intersect mem.failed[x[1]] = {} =>
                        DependsOn[x[2]] \intersect failed[x[1]] = {}
    <3>1. \A x \in Task : futures'[x].phase \in {"submitting", "waiting", "finished"} =>
                            futures'[x] = futures[x]
      BY <1>15 DEF Idle
    <3> QED BY <1>4, <1>10, <1>11, <3>1 DEF AnswersInv, MaySucceed, MayRun, DependencyFailed, IsSubflow
  <2>1. x # t /\ futures[x] # Idle
    BY <1>15 DEF Idle
  <2>2. DependsOn[x[2]] \subseteq mem.completed[x[1]]
    BY <1>3, <2>1 DEF ExecutorInv, ActiveInv, Active
  <2>3. x[1] = t[1] => t[2] \notin DependsOn[x[2]]
    BY <1>8, <2>2
  <2>4. failed[x[1]] \subseteq mem.failed[x[1]] \union (IF x[1] = t[1] THEN {t[2]} ELSE {})
    BY <1>1, Typed, TaskParts
  <2> QED BY <2>3, <2>4
<1>18. CompletionsInv'
  <2>1. DependsOn[t[2]] \subseteq recoverable.completed[t[1]]
    <3> SUFFICES ASSUME NEW d \in DependsOn[t[2]] PROVE d \in recoverable.completed[t[1]]
      OBVIOUS
    <3>1. <<t[1], d>> \in Task
      BY <1>3, DependenciesAreSteps, TaskParts
    <3> QED BY <1>3, <1>7, <1>8, <3>1 DEF ExecutorInv, MemoryInv
  <2>2. result = "ok" => MaySucceed(t, mem.failed)
    BY <1>0, <1>3, <1>10 DEF AnswersInv
  <2>3. result = "ok" => /\ t[2] \in Tolerant \/ DependsOn[t[2]] \intersect recoverable'.failed[t[1]] = {}
                         /\ IsSubflow(t) => t[2] \in UsesDefault \/ HasEnded(t[2])'
    BY <1>3, <1>7, <1>11, <2>2 DEF MaySucceed
  <2> SUFFICES ASSUME NEW x \in Task, x = t
               PROVE  /\ x[1] = Root \/ past'.created[x[1]] # None
                      /\ DependsOn[x[2]] \subseteq recoverable'.completed[x[1]]
                      /\ todo'[1].event.result = "ok" =>
                           /\ x[2] \in Tolerant \/ DependsOn[x[2]] \intersect recoverable'.failed[x[1]] = {}
                           /\ IsSubflow(x) => x[2] \in UsesDefault \/ HasEnded(x[2])'
    BY <1>6 DEF CompletionsInv, MaySucceed, IsSubflow
  <2> QED BY <1>3, <1>6, <1>8, <2>1, <2>3
<1>19. OutputsInv'
  BY <1>3, <1>10 DEF OutputsInv, OutputOf
<1>20. WritesInv'
  BY <1>2, <1>5, <1>9, CompletionWritesFit
<1> QED BY <1>12, <1>13, <1>14, <1>16, <1>17, <1>18, <1>19, <1>20 DEF TreeInv

(* A crash, and a recovery, which finds nothing left to write.             *)
LEMMA CrashKeepsTree ==
    ASSUME ExecutorTypeOK, ExecutorTypeOK', TreeInv, Crash
    PROVE  TreeInv'
<1>1. /\ mode' = "down" /\ mem' = FreshMemory /\ todo' = <<>> /\ requests' = <<>>
      /\ futures' = [t \in Task |-> Idle] /\ UNCHANGED <<store, recoverable, past>>
  BY DEF Crash
<1>2. /\ \A t : ~Completing(t)' /\ \A r : ~Creating(r)' /\ DOMAIN todo' = {} /\ ~Up'
  BY <1>1, StillNothing DEF Up
<1>3. /\ FailuresInv /\ BegunInv /\ NamesInv /\ OutputsInv
  BY DEF TreeInv
<1>4. FailuresInv' /\ WantedInv'
  BY <1>1, <1>2, <1>3 DEF FailuresInv, WantedInv
<1>5. BegunInv'
  BY <1>1, <1>2, <1>3 DEF BegunInv, NotBegun
<1>6. CreationInv' /\ CompletionsInv' /\ WritesInv'
  BY <1>2 DEF CreationInv, CompletionsInv, WritesInv
<1>7. NamesInv'
  <2>1. \A s \in SubflowStep : mem'.subflows[s] = None
    BY <1>1 DEF FreshMemory
  <2>2. \A t \in Task : futures'[t].phase # "waiting"
    BY <1>1 DEF Idle
  <2>3. ASSUME NEW s \in SubflowStep, recoverable'.subflows[s] # None
        PROVE  past'.created[recoverable'.subflows[s]] = s
    BY <1>1, <1>3, <2>3 DEF NamesInv
  <2> QED BY <2>1, <2>2, <2>3 DEF NamesInv
<1>8. AnswersInv'
  BY <1>1 DEF AnswersInv, Idle
<1>9. OutputsInv'
  BY <1>1, <1>3 DEF OutputsInv, OutputOf
<1> QED BY <1>4, <1>5, <1>6, <1>7, <1>8, <1>9 DEF TreeInv

LEMMA RecoverKeepsTree ==
    ASSUME ExecutorTypeOK, ExecutorTypeOK', ExecutorInv, TreeInv, Recover
    PROVE  TreeInv'
<1>1. /\ mode \in {"down", "deadlocked"} /\ todo = <<>> /\ todo' = <<>> /\ requests' = <<>>
      /\ UNCHANGED <<futures, recoverable, past>> /\ store' = SyncedStore
  BY DEF Recover, ExecutorInv, TodoInv
<1>2. \/ mode' = "done" /\ mem' = mem
      \/ /\ mode' = "starting" /\ mem'.failed = recoverable.failed
         /\ mem'.subflows = recoverable.subflows
  BY DEF Recover, RecoveredMemory, FreshMemory
<1>3. \A t \in Task : futures'[t] = Idle
  BY <1>1 DEF ExecutorInv, ModeInv
<1>4. /\ \A t : ~Completing(t)' /\ \A r : ~Creating(r)' /\ DOMAIN todo' = {}
  BY <1>1, StillNothing
<1>5. /\ FailuresInv /\ BegunInv /\ NamesInv /\ OutputsInv
  BY DEF TreeInv
<1>6. FailuresInv'
  <2>1. FailedThen' = recoverable'.failed
    BY <1>4, FailedNext
  <2>2. Up' => mem'.failed = recoverable'.failed
    BY <1>1, <1>2 DEF Up
  <2> QED BY <1>1, <1>5, <2>1, <2>2 DEF FailuresInv
<1>7. BegunInv'
  BY <1>1, <1>4, <1>5 DEF BegunInv, NotBegun
<1>8. WantedInv' /\ CreationInv' /\ CompletionsInv' /\ WritesInv'
  BY <1>1, <1>4 DEF WantedInv, CreationInv, CompletionsInv, WritesInv
<1>9. NamesInv'
  <2>1. ASSUME NEW s \in SubflowStep, mem'.subflows[s] # None
        PROVE  past'.created[mem'.subflows[s]] = s
    <3>1. mem'.subflows[s] \in {mem.subflows[s], recoverable.subflows[s]}
      BY <1>2
    <3> QED BY <1>1, <1>5, <2>1, <3>1 DEF NamesInv
  <2>2. ASSUME NEW s \in SubflowStep, recoverable'.subflows[s] # None
        PROVE  past'.created[recoverable'.subflows[s]] = s
    BY <1>1, <1>5, <2>2 DEF NamesInv
  <2>3. \A t \in Task : futures'[t].phase # "waiting"
    BY <1>3 DEF Idle
  <2> QED BY <2>1, <2>2, <2>3 DEF NamesInv
<1>10. AnswersInv'
  BY <1>3 DEF AnswersInv, Idle
<1>11. OutputsInv'
  <2> SUFFICES ASSUME NEW r \in Run, SyncedStore.status[r] \in Terminal
               PROVE  SyncedStore.result[r] = OutputOf(r, recoverable.failed)
    BY <1>1 DEF OutputsInv, OutputOf
  <2>1. CASE recoverable.ended[r] # None /\ store.status[r] \notin Terminal
    BY <2>1 DEF SyncedStore
  <2>2. CASE ~(recoverable.ended[r] # None /\ store.status[r] \notin Terminal)
    <3>1. SyncedStore.result[r] = store.result[r] /\ SyncedStore.status[r] \in {"Running", store.status[r]}
      BY <2>2 DEF SyncedStore
    <3> QED BY <1>5, <3>1 DEF OutputsInv, Terminal
  <2> QED BY <2>1, <2>2
<1> QED BY <1>6, <1>7, <1>8, <1>9, <1>10, <1>11 DEF TreeInv

LEMMA TreeInvStep ==
    ExecutorTypeOK /\ ExecutorInv /\ EndInv /\ TreeInv /\ [Next]_vars => TreeInv'
<1> SUFFICES ASSUME ExecutorTypeOK, ExecutorInv, EndInv, TreeInv, [Next]_vars PROVE TreeInv'
  OBVIOUS
<1>0. ExecutorTypeOK'
  BY TypeStep
<1>1. CASE UNCHANGED vars
  <2>1. \A t \in Task : MayGoOn(t)
    BY <1>1 DEF MayGoOn, vars
  <2>2. Up' => Up
    BY <1>1 DEF Up, vars
  <2>3. /\ UNCHANGED <<mem, todo, store, recoverable, requests>> /\ past'.created = past.created
    BY <1>1 DEF vars
  <2>4. mem'.subflows = mem.subflows /\ mem'.failed = mem.failed /\ mem'.completed = mem.completed
    BY <2>3
  <2> QED BY <1>0, <2>1, <2>2, <2>3, <2>4, CalmTreeStep
<1>2. CASE Write
  BY <1>0, <1>2, WriteKeepsTree
<1>3. CASE Loop
  BY <1>0, <1>3, CalmLoopKeepsTree, HandleSubmitKeepsTree, CompleteTaskKeepsTree DEF Loop
<1>4. CASE Recover
  BY <1>0, <1>4, RecoverKeepsTree
<1>5. CASE \E t \in Task : Answer(t) \/ Submit(t) \/ SubflowAnswers(t) \/ LoseWorker(t)
  BY <1>0, <1>5, FutureKeepsTree
<1>6. CASE Crash
  BY <1>0, <1>6, CrashKeepsTree
<1>7. CASE Stopped
  BY <1>1, <1>7 DEF Stopped
<1> QED BY <1>1, <1>2, <1>3, <1>4, <1>5, <1>6, <1>7 DEF Next, Progress

(* The steps of the tree.  Most steps do not show; ...                     *)
Shown == <<past.completions, JournalledFailures, past.created, RecordedResults>>

LEMMA TreeNames ==
    /\ Tree!Task = Task /\ Tree!Run = Run /\ Tree!None = None
    /\ \A r : Tree!StepsOf(r) = StepsOf(r)
    /\ \A t : Tree!IsSubflow(t) <=> IsSubflow(t)
BY DEF Tree!Task, Task, Tree!Run, Run, Tree!None, None, Tree!StepsOf, StepsOf,
       Tree!IsSubflow, IsSubflow

LEMMA HiddenStep ==
    ASSUME UNCHANGED <<store, recoverable>>, past'.completions = past.completions,
           past'.created = past.created
    PROVE  UNCHANGED Shown
BY DEF Shown, JournalledFailures, RecordedResults

LEMMA LoopIsHidden ==
    ASSUME ExecutorTypeOK,
           \/ Loop \/ Crash \/ UNCHANGED vars
           \/ \E t \in Task : Answer(t) \/ Submit(t) \/ SubflowAnswers(t) \/ LoseWorker(t)
    PROVE  UNCHANGED Shown
<1>1. UNCHANGED <<store, recoverable>>
  BY DEF Loop, Start, SelectTasks, SelectNothing, FinishRoot, RetryTask, CompleteTask,
         HandleSubmit, Answer, Submit, SubflowAnswers, LoseWorker, FutureEnds, Crash, vars
<1>2. past'.completions = past.completions /\ past'.created = past.created
  <2>1. CASE SelectTasks
    <3>1. PICK tasks \in kSubset(Min({MaxToStart, Cardinality(mem.queue)}), mem.queue) :
            LET ids == [t \in Task |-> IF t \in tasks THEN TaskId(t) ELSE mem.live_ids[t]]
            IN  past' = [past EXCEPT !.issued = [t \in Task |->
                        IF t \in tasks THEN Max({@[t], ids[t]}) ELSE @[t]]]
      BY <2>1 DEF SelectTasks
    <3> QED BY <3>1 DEF ExecutorTypeOK
  <2>2. ASSUME NEW t \in Task, RetryTask(t)
        PROVE  past'.completions = past.completions /\ past'.created = past.created
    BY <2>2 DEF RetryTask, ExecutorTypeOK
  <2>3. CASE UNCHANGED past
    BY <2>3
  <2> QED BY <2>1, <2>2, <2>3
          DEF Loop, Start, SelectNothing, FinishRoot, CompleteTask,
              HandleSubmit, Answer, Submit, SubflowAnswers, LoseWorker, FutureEnds, Crash, vars
<1> QED BY <1>1, <1>2, HiddenStep

(* ... a run ends with what its journalled failures make of it; ...        *)
LEMMA EndMapsToEnd ==
    ASSUME ExecutorTypeOK, ExecutorInv, FailuresInv, NEW R \in SUBSET Run,
           \A r \in R : /\ store.status[r] \notin Terminal /\ store'.status[r] \in Terminal
                        /\ AllCompleted(r) /\ store'.result[r] = OutputOf(r, recoverable.failed),
           \A r \in Run \ R : /\ store.status[r] \in Terminal <=> store'.status[r] \in Terminal
                              /\ store.status[r] \in Terminal => store'.result[r] = store.result[r],
           UNCHANGED <<recoverable, past>>
    PROVE  Tree!TreeNext
<1>1. \A r \in R : RecordedResults[r] = Tree!None
  BY TreeNames DEF RecordedResults
<1>2. \A r \in R : \A s \in Tree!StepsOf(r) : Tree!IsDone(<<r, s>>)
  <2> SUFFICES ASSUME NEW r \in R, NEW s \in StepsOf(r)
               PROVE  past.completions[<<r, s>>] = 1
    BY TreeNames DEF Tree!IsDone
  <2>1. <<r, s>> \in Task /\ s \in recoverable.completed[r]
    BY TaskParts DEF AllCompleted
  <2> QED BY <2>1 DEF ExecutorInv, HistoryInv
<1>3. \A r \in Run : Tree!ResultOf(r) = OutputOf(r, recoverable.failed)
  <2> SUFFICES ASSUME NEW r \in Run
               PROVE  (\E s \in OutputStep : <<r, s>> \in JournalledFailures)
                        <=> recoverable.failed[r] \intersect OutputStep # {}
    BY DEF Tree!ResultOf, OutputOf
  <2>1. \A s : s \in recoverable.failed[r] => <<r, s>> \in Task
    BY TaskParts DEF FailuresInv
  <2>2. \A s : <<r, s>> \in JournalledFailures <=> s \in recoverable.failed[r]
    BY <2>1 DEF JournalledFailures
  <2> QED BY <2>2
<1>4. RecordedResults' = [r \in Run |-> IF r \in R THEN Tree!ResultOf(r) ELSE RecordedResults[r]]
  <2>1. \A r \in R : RecordedResults'[r] = Tree!ResultOf(r)
    BY <1>3 DEF RecordedResults
  <2>2. \A r \in Run \ R : RecordedResults'[r] = RecordedResults[r]
    BY DEF RecordedResults
  <2>3. RecordedResults' = [r \in Run |-> RecordedResults'[r]]
    BY DEF RecordedResults
  <2> QED BY <2>1, <2>2, <2>3
<1>5. UNCHANGED <<past.completions, JournalledFailures, past.created>>
  BY DEF JournalledFailures
<1>6. Tree!End(R)
  BY <1>1, <1>2, <1>4, <1>5, TreeNames DEF Tree!End
<1> QED BY <1>6, TreeNames DEF Tree!TreeNext

(* ... a completion that is journalled completes its task, once, ...       *)
LEMMA CompletionMapsToComplete ==
    ASSUME ExecutorTypeOK, ExecutorTypeOK', ExecutorInv, TreeInv, WriteJournal,
           NEW t \in Task, Completing(t)
    PROVE  Tree!TreeNext
<1> DEFINE success == todo[1].event.result = "ok"
<1>1. /\ todo # <<>> /\ store' = store /\ Head(todo) = todo[1] /\ todo[1] \in Op /\ 1 \in DOMAIN todo
      /\ todo[1].op = "journal" /\ todo[1].event.type = "TaskCompleted" /\ todo[1].event.task = t
      /\ todo[1].event \in Event
  <2>1. todo # <<>> /\ store' = store /\ todo[1].op = "journal"
    BY DEF WriteJournal, Doing, Completing, AboutTo
  <2>2. Head(todo) = todo[1] /\ todo[1] \in Op /\ 1 \in DOMAIN todo
    BY <2>1, AfterWrite DEF ExecutorTypeOK
  <2> QED BY <2>1, <2>2, OpCases DEF Completing, AboutTo
<1>2. Up
  <2>1. Counted(todo[1])
    BY <1>1 DEF Counted
  <2> QED BY <1>1, <2>1 DEF ExecutorInv, TodoInv
<1>3. \A x \in Task : past.completions[x] = IF x[2] \in recoverable.completed[x[1]] THEN 1 ELSE 0
  BY DEF ExecutorInv, HistoryInv
<1>4. t[2] \notin recoverable.completed[t[1]] /\ past.completions[t] = 0
  BY <1>2, <1>3 DEF ExecutorInv, MemoryInv
<1>5. /\ t[1] = Root \/ past.created[t[1]] # None
      /\ DependsOn[t[2]] \subseteq recoverable.completed[t[1]]
      /\ success => MaySucceed(t, recoverable.failed)
  BY DEF TreeInv, CompletionsInv
<1>6. \A d \in Tree!Before(t) : Tree!IsDone(d)
  <2> SUFFICES ASSUME NEW s \in DependsOn[t[2]] PROVE past.completions[<<t[1], s>>] = 1
    BY DEF Tree!Before, Tree!IsDone
  <2>1. <<t[1], s>> \in Task
    BY DependenciesAreSteps, TaskParts
  <2> QED BY <1>3, <1>5, <2>1
<1>7. success => Tree!MaySucceed(t)
  <2> SUFFICES ASSUME success PROVE Tree!MaySucceed(t)
    OBVIOUS
  <2>1. /\ t[2] \in Tolerant \/ DependsOn[t[2]] \intersect recoverable.failed[t[1]] = {}
        /\ IsSubflow(t) => t[2] \in UsesDefault \/ HasEnded(t[2])
    BY <1>5 DEF MaySucceed
  <2>2. t[2] \notin Tolerant => Tree!Before(t) \intersect JournalledFailures = {}
    BY <2>1 DEF Tree!Before, JournalledFailures
  <2>3. IsSubflow(t) /\ t[2] \notin UsesDefault =>
          \E r \in SubRun : past.created[r] = t[2] /\ RecordedResults[r] # None
    BY <2>1, TaskParts DEF HasEnded, RecordedResults
  <2> QED BY <2>2, <2>3, TreeNames DEF Tree!MaySucceed
<1>8. past'.completions = [past.completions EXCEPT ![t] = 1] /\ past'.created = past.created
  <2>1. past' = Remember(todo[1].event)
    BY <1>1 DEF WriteJournal
  <2>2. past'.completions = [past.completions EXCEPT ![t] = @ + 1] /\ past'.created = past.created
    BY <1>1, <2>1 DEF Remember, ExecutorTypeOK
  <2> QED BY <1>4, <2>2
<1>9. JournalledFailures' = JournalledFailures \union IF success THEN {} ELSE {t}
  <2>1. recoverable'.failed = FailedThen
    BY WriteEffects DEF Write
  <2>2. \A x : Fails(x) <=> x = t /\ ~success
    BY <1>1 DEF Fails, Completing, AboutTo
  <2>3. \A x \in Task : x[2] \in FailedThen[x[1]] <=> x[2] \in recoverable.failed[x[1]] \/ Fails(x)
    BY TaskParts DEF FailedThen
  <2> HIDE DEF success
  <2> QED BY <2>1, <2>2, <2>3 DEF JournalledFailures
<1>10. RecordedResults' = RecordedResults
  BY <1>1 DEF RecordedResults
<1>11. t[1] \in SubRun => past.created[t[1]] # Tree!None
  BY <1>5, TreeNames, ConstantsAssumption
<1> HIDE DEF success
<1>12. success \in BOOLEAN
  BY DEF success
<1>13. Tree!Complete(t, success)
  BY <1>4, <1>6, <1>7, <1>8, <1>9, <1>10, <1>11 DEF Tree!Complete
<1> QED BY <1>12, <1>13, TreeNames DEF Tree!TreeNext

(* ... a SubRunCreated begins a subflow, ...                               *)
LEMMA CreationMapsToBegin ==
    ASSUME ExecutorTypeOK, ExecutorTypeOK', ExecutorInv, TreeInv, WriteJournal,
           NEW r \in SubRun, Creating(r)
    PROVE  Tree!TreeNext
<1>0. PICK s : s = todo[1].event.step
  OBVIOUS
<1>1. /\ todo # <<>> /\ store' = store /\ Head(todo) = todo[1]
      /\ todo[1].event.type = "SubRunCreated" /\ todo[1].event.run = r
  <2>1. todo # <<>> /\ store' = store
    BY DEF WriteJournal, Doing
  <2> QED BY <2>1, AfterWrite DEF ExecutorTypeOK, Creating, AboutTo
<1>2. /\ past.created[r] = None /\ s \in SubflowStep
      /\ DependsOn[s] \subseteq recoverable.completed[Root]
  BY <1>0 DEF TreeInv, CreationInv
<1>3. \A d \in Tree!Before(<<Root, s>>) : Tree!IsDone(d)
  <2> SUFFICES ASSUME NEW x \in DependsOn[s] PROVE past.completions[<<Root, x>>] = 1
    BY DEF Tree!Before, Tree!IsDone
  <2>1. <<Root, x>> \in Task
    BY <1>2, DependenciesAreSteps, TaskParts
  <2> QED BY <1>2, <2>1 DEF ExecutorInv, HistoryInv
<1>4. past' = Remember(todo[1].event) /\ recoverable' = Replay(recoverable, todo[1].event)
  BY <1>1 DEF WriteJournal
<1>5. past'.created = [past.created EXCEPT ![r] = s] /\ past'.completions = past.completions
  BY <1>0, <1>1, <1>4 DEF Remember, ExecutorTypeOK
<1>6. recoverable'.failed = recoverable.failed
  BY <1>1, <1>4 DEF Replay, ExecutorTypeOK, Recoverable
<1>7. JournalledFailures' = JournalledFailures /\ RecordedResults' = RecordedResults
  BY <1>1, <1>6 DEF JournalledFailures, RecordedResults
<1>8. Tree!Begin(r, s)
  BY <1>2, <1>3, <1>5, <1>7, TreeNames DEF Tree!Begin
<1> QED BY <1>2, <1>8 DEF Tree!TreeNext

(* ... and the first record of a result ends a run; the other writes, and  *)
(* a status that says again what a result has said, do not show.           *)
LEMMA JournalMaps ==
    ASSUME ExecutorTypeOK, ExecutorTypeOK', ExecutorInv, TreeInv, WriteJournal
    PROVE  Tree!TreeNext \/ UNCHANGED Shown
<1>1. CASE \E t \in Task : Completing(t)
  BY <1>1, CompletionMapsToComplete
<1>2. CASE \E r \in SubRun : Creating(r)
  BY <1>2, CreationMapsToBegin
<1>3. CASE (\A t \in Task : ~Completing(t)) /\ (\A r \in SubRun : ~Creating(r))
  <2>1. todo # <<>> /\ store' = store
    BY DEF WriteJournal, Doing
  <2>2. /\ Head(todo) = todo[1] /\ todo[1].op = "journal" /\ todo[1].event \in Event
        /\ todo[1].event.type \notin {"TaskCompleted", "SubRunCreated"}
    <3>1. Head(todo) = todo[1] /\ todo[1].op = "journal" /\ todo[1].event \in Event
      BY <2>1, AfterWrite, OpCases DEF WriteJournal, Doing, ExecutorTypeOK
    <3>2. todo[1].event.type # "TaskCompleted"
      BY <1>3, <2>1, <3>1, EventCases DEF Completing, AboutTo
    <3>3. todo[1].event.type # "SubRunCreated"
      BY <1>3, <2>1, <3>1, EventCases DEF Creating, AboutTo
    <3> QED BY <3>1, <3>2, <3>3
  <2>3. past' = Remember(todo[1].event) /\ recoverable' = Replay(recoverable, todo[1].event)
    BY <2>2 DEF WriteJournal
  <2>4. past'.created = past.created /\ past'.completions = past.completions
    BY <2>2, <2>3 DEF Remember, ExecutorTypeOK
  <2>5. recoverable'.failed = recoverable.failed
    BY <2>2, <2>3, EventCases DEF Replay, ReplayStarted, ExecutorTypeOK, Recoverable
  <2> QED BY <2>1, <2>4, <2>5 DEF Shown, JournalledFailures, RecordedResults
<1> QED BY <1>1, <1>2, <1>3

LEMMA WriteMaps ==
    ASSUME ExecutorTypeOK, ExecutorTypeOK', ExecutorInv, EndInv, TreeInv, Write
    PROVE  Tree!TreeNext \/ UNCHANGED Shown
<1>1. CASE WriteJournal
  BY <1>1, JournalMaps
<1>2. CASE WriteCheckpoint
  <2>1. recoverable'.failed = recoverable.failed
    <3>1. todo # <<>> /\ todo[1].op = "checkpoint"
      BY <1>2, AfterWrite DEF WriteCheckpoint, Doing, ExecutorTypeOK
    <3>2. \A t : ~Completing(t)
      BY <3>1 DEF Completing, AboutTo
    <3> QED BY <3>2, FailedNow, WriteEffects
  <2>2. store' = store /\ past'.completions = past.completions /\ past'.created = past.created
    BY <1>2 DEF WriteCheckpoint, ExecutorTypeOK
  <2> QED BY <2>1, <2>2 DEF Shown, JournalledFailures, RecordedResults
<1>3. CASE ~WriteJournal /\ ~WriteCheckpoint
  <2>1. UNCHANGED <<recoverable, past>>
    BY <1>3 DEF Write, WriteCreateRun, WriteResult, WriteStatus, SpawnFutures,
         InitializeSubflow, EvictRun, AcknowledgeRequest
  <2>2. \A r \in Run :
          /\ store.status[r] \in Terminal =>
               store'.status[r] \in Terminal /\ store'.result[r] = store.result[r]
          /\ store'.status[r] \in Terminal =>
               \/ store.status[r] \in Terminal
               \/ /\ todo[1].op = "record" /\ todo[1].run = r
                  /\ store'.result[r] = OutputOf(r, recoverable.failed)
    BY StoreEffects
  <2> DEFINE R == {r \in Run : store.status[r] \notin Terminal /\ store'.status[r] \in Terminal}
  <2>3. \A r \in R : AllCompleted(r)
    <3> SUFFICES ASSUME NEW r \in R PROVE AllCompleted(r)
      OBVIOUS
    <3>1. todo[1].op = "record" /\ todo[1].run = r
      BY <2>2
    <3>2. todo # <<>> /\ 1 \in DOMAIN todo
      BY AfterWrite, WriteEffects DEF ExecutorTypeOK
    <3>3. \A s \in StepsOf(r) : s \in recoverable.completed[r] \/ Completing(<<r, s>>)
      BY <3>1, <3>2 DEF EndInv, EndingInv, Reports
    <3>4. \A t : ~Completing(t)
      BY <3>1 DEF Completing, AboutTo
    <3> QED BY <3>3, <3>4 DEF AllCompleted
  <2>4. FailuresInv
    BY DEF TreeInv
  <2>5. /\ R \in SUBSET Run
        /\ \A r \in R : /\ store.status[r] \notin Terminal /\ store'.status[r] \in Terminal
                        /\ AllCompleted(r) /\ store'.result[r] = OutputOf(r, recoverable.failed)
        /\ \A r \in Run \ R : /\ store.status[r] \in Terminal <=> store'.status[r] \in Terminal
                              /\ store.status[r] \in Terminal => store'.result[r] = store.result[r]
    BY <2>2, <2>3
  <2>6. PICK S \in SUBSET Run : S = R
    BY <2>5
  <2> HIDE DEF R
  <2> QED BY <2>1, <2>4, <2>5, <2>6, EndMapsToEnd
<1> QED BY <1>1, <1>2, <1>3

(* Recovery records the results of the runs that the journal has seen end. *)
LEMMA RecoverMaps ==
    ASSUME ExecutorTypeOK, ExecutorInv, EndInv, TreeInv, Recover
    PROVE  Tree!TreeNext
<1> DEFINE seen(r) == recoverable.ended[r] # None /\ store.status[r] \notin Terminal
           R == {r \in Run : seen(r)}
<1>1. /\ UNCHANGED <<recoverable, past>>
      /\ \A r \in Run :
           /\ store'.status[r] = IF seen(r) THEN recoverable.ended[r]
                                 ELSE IF store.status[r] = None /\ r \in recoverable.runs
                                 THEN "Running" ELSE store.status[r]
           /\ store'.result[r] = IF seen(r) THEN OutputOf(r, recoverable.failed) ELSE store.result[r]
  BY DEF Recover, SyncedStore
<1>2. \A r \in Run : recoverable.ended[r] \in Terminal \union {None}
  BY DEF ExecutorTypeOK, Recoverable
<1>3. \A r \in R : AllCompleted(r)
  BY DEF EndInv, ReplayedInv
<1>4. None \notin Terminal /\ "Running" \notin Terminal
  BY DEF None, Terminal
<1>5. /\ R \in SUBSET Run
      /\ \A r \in R : /\ store.status[r] \notin Terminal /\ store'.status[r] \in Terminal
                      /\ AllCompleted(r) /\ store'.result[r] = OutputOf(r, recoverable.failed)
      /\ \A r \in Run \ R : /\ store.status[r] \in Terminal <=> store'.status[r] \in Terminal
                            /\ store.status[r] \in Terminal => store'.result[r] = store.result[r]
  BY <1>1, <1>2, <1>3, <1>4
<1>6. PICK S \in SUBSET Run : S = R
  BY <1>5
<1> HIDE DEF R
<1>7. FailuresInv
  BY DEF TreeInv
<1> QED BY <1>1, <1>5, <1>6, <1>7, EndMapsToEnd

LEMMA InitMaps == Init => Tree!TreeInit
<1> SUFFICES ASSUME Init PROVE Tree!TreeInit
  OBVIOUS
<1>1. past.completions = [t \in Task |-> 0] /\ past.created = [r \in SubRun |-> None]
  BY DEF Init
<1>2. JournalledFailures = {}
  <2>1. \A t \in Task : recoverable.failed[t[1]] = {}
    BY TaskParts DEF Init, FreshRecoverable
  <2> QED BY <2>1 DEF JournalledFailures
<1>3. RecordedResults = [r \in Run |-> None]
  BY DEF Init, RecordedResults, Terminal, None
<1> QED BY <1>1, <1>2, <1>3, TreeNames DEF Tree!TreeInit

LEMMA NextMaps ==
    ExecutorTypeOK /\ ExecutorInv /\ EndInv /\ TreeInv /\ [Next]_vars => [Tree!TreeNext]_Shown
<1> SUFFICES ASSUME ExecutorTypeOK, ExecutorInv, EndInv, TreeInv, [Next]_vars
             PROVE  Tree!TreeNext \/ UNCHANGED Shown
  OBVIOUS
<1>1. ExecutorTypeOK'
  BY TypeStep
<1>2. CASE Write
  BY <1>1, <1>2, WriteMaps
<1>3. CASE Recover
  BY <1>3, RecoverMaps
<1>4. CASE \/ Loop \/ Crash \/ Stopped \/ UNCHANGED vars
           \/ \E t \in Task : Answer(t) \/ Submit(t) \/ SubflowAnswers(t) \/ LoseWorker(t)
  BY <1>4, LoopIsHidden DEF Stopped
<1> QED BY <1>2, <1>3, <1>4 DEF Next, Progress

(* The executor implements an execution tree that completes each step once *)
(* and never crashes: a TaskCompleted, a SubRunCreated and the first       *)
(* record of a result are its steps, in an order it allows, and no crash,  *)
(* transport retry, checkpoint or late answer of a lost worker adds,       *)
(* repeats or changes one.  A step succeeds on a failed one only where its *)
(* input tolerates that, and a subflow step only after a subflow of its    *)
(* has ended, well or not, or by its default.                              *)
THEOREM ExecutorImplementsTree == Spec => ImplementsExecutionTree
<1>1. Init => ExecutorTypeOK /\ ExecutorInv /\ EndInv /\ TreeInv
  BY TypeInit, InvInit, EndInit, TreeInit
<1>2. ExecutorTypeOK /\ ExecutorInv /\ EndInv /\ TreeInv /\ [Next]_vars
      => (ExecutorTypeOK /\ ExecutorInv /\ EndInv /\ TreeInv)'
  BY TypeStep, InvStep, EndStep, TreeInvStep
<1>3. Init => Tree!TreeInit
  BY InitMaps
<1>4. ExecutorTypeOK /\ ExecutorInv /\ EndInv /\ TreeInv /\ [Next]_vars
      => [Tree!TreeNext]_<<past.completions, JournalledFailures, past.created, RecordedResults>>
  BY NextMaps DEF Shown
<1> QED BY <1>1, <1>2, <1>3, <1>4, PTL DEF Spec, ImplementsExecutionTree, Tree!TreeSpec

=============================================================================
