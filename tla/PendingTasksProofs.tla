------------------------- MODULE PendingTasksProofs -------------------------
(***************************************************************************)
(* The two safety invariants of PendingTasks, for any set of workers and   *)
(* any number of attempts: the id of a task is never registered while its  *)
(* previous attempt is, and an attempt that is waited for is watched or    *)
(* about to be answered.                                                   *)
(***************************************************************************)
EXTENDS PendingTasks, TLAPS

(* The records, of which TypeOK names the fields that matter.              *)
EntryType == [phase : {None, "queued", "executing"}, worker : Worker \union {None},
              young : BOOLEAN]
ScannerType == [step : {"idle", "reset", "remove", "clear", "deliver"},
                victim : {None, "heartbeat", "execution", "queue"}, removed : BOOLEAN]
WorkerType == [state : {"polling", "parking", "parked", "pulled", "executing", "clearing",
                        "completing"},
               result : {None, "success", "failure"}]
Records ==
    /\ entry \in EntryType
    /\ scanner \in ScannerType
    /\ worker \in [Worker -> WorkerType]

(* Somebody listens on the channel exactly while a result may still come.  *)
Listening == executor \in {"tracking", "sending", "waiting"} /\ answer = None
RegisteredWhileListening == registered <=> Listening

(* An attempt is watched from the moment it is tracked.                    *)
TrackedIsWatched ==
    executor \in {"sending", "waiting"} /\ answer = None => Watched \/ AboutToAnswer

(* What is about to be delivered is an answer: a worker that completes has *)
(* a result, and the scanner remembers whether it removed an entry exactly *)
(* until it has answered for it.                                           *)
AnswersAtHand ==
    /\ \A w \in Worker : worker[w].state \in {"clearing", "completing"} => worker[w].result # None
    /\ scanner.removed => scanner.step \in {"clear", "deliver"}
    /\ scanner.step = "deliver" => scanner.removed

(* An attempt counts from its registration on.                             *)
AttemptCounts == executor # "idle" => attempt > 0

WatchInv ==
    /\ TypeOK /\ Records /\ AttemptCounts
    /\ RegisteredWhileListening /\ TrackedIsWatched /\ AnswersAtHand

-----------------------------------------------------------------------------
(* TaskRegistry::complete answers whoever listens, and nobody is left to.  *)
LEMMA DeliverAnswers ==
    ASSUME TypeOK, RegisteredWhileListening, NEW result \in {"success", "failure", "timeout"},
           Deliver(result), UNCHANGED <<executor, attempt>>
    PROVE  /\ RegisteredWhileListening'
           /\ registered' \in BOOLEAN /\ answer' \in {None, "success", "failure", "timeout"}
           /\ executor' \in {"sending", "waiting"} => answer' # None
  BY DEF Deliver, RegisteredWhileListening, Listening, TypeOK, None

LEMMA Initially == Init => WatchInv
<1> SUFFICES ASSUME Init PROVE WatchInv
  OBVIOUS
<1>1. entry \in EntryType /\ scanner \in ScannerType
  BY DEF Init, NoEntry, ScannerIdle, EntryType, ScannerType
<1>2. worker \in [Worker -> WorkerType] /\ \A w \in Worker : worker[w] = Free
  BY DEF Init, Free, WorkerType, None
<1>3. 0 \in 0..MaxAttempts /\ {} \subseteq 1..0
  BY ConstantsAssumption
<1>4. TypeOK
  BY <1>2, <1>3 DEF Init, TypeOK, NoEntry, ScannerIdle, Free, None, Executing
<1> QED
  BY <1>1, <1>2, <1>4
  DEF Init, WatchInv, AttemptCounts, Records, RegisteredWhileListening, Listening, TrackedIsWatched,
      AnswersAtHand, ScannerIdle, Free, None

-----------------------------------------------------------------------------
(* The steps of the runner.                                                *)
LEMMA RunnerKeepsWatch == WatchInv /\ Runner => WatchInv'
<1> SUFFICES ASSUME WatchInv, Runner PROVE WatchInv'
  OBVIOUS
<1> USE DEF WatchInv, TypeOK, Records, AttemptCounts, None
<1>0. MaxAttempts \in Nat /\ AfterFailure \in {"idle", "done"}
  BY ConstantsAssumption DEF AfterFailure
<1>1. CASE Register
  <2>1. TypeOK' /\ Records'
    BY <1>0, <1>1 DEF Register, Executing
  <2> QED
    BY <2>1, <1>1 DEF Register, RegisteredWhileListening, Listening, TrackedIsWatched, AnswersAtHand
<1>2. CASE Track
  <2>1. entry' \in EntryType /\ entry'.phase = "queued" /\ entry'.worker = None
    BY <1>2 DEF Track, NewEntry, EntryType
  <2>2. attempt \in 1..attempt
    BY <1>2 DEF Track
  <2>3. TypeOK' /\ Records'
    BY <1>2, <2>1, <2>2 DEF Track, Executing
  <2>4. TrackedIsWatched'
    BY <1>2, <2>1 DEF Track, TrackedIsWatched, Watched, Queued
  <2> QED
    BY <1>2, <2>3, <2>4 DEF Track, RegisteredWhileListening, Listening, AnswersAtHand
<1>3. CASE Send
  <2>1. \A w \in Worker : /\ worker'[w] \in WorkerType
                          /\ worker'[w].state \in {"clearing", "completing"}
                               <=> worker[w].state \in {"clearing", "completing"}
                          /\ worker'[w].state \in {"clearing", "completing"}
                               => worker'[w].result = worker[w].result
    BY <1>3 DEF Send, Free, WorkerType
  <2>2. worker' \in [Worker -> WorkerType]
    BY <1>3, <2>1 DEF Send
  <2>3. TypeOK' /\ Records'
    BY <1>3, <2>1, <2>2 DEF Send, Executing, WorkerType
  <2>4. TrackedIsWatched'
    BY <1>3, <2>1 DEF Send, TrackedIsWatched, Watched, AboutToAnswer, Queued, Executing
  <2>5. AnswersAtHand'
    BY <1>3, <2>1 DEF Send, AnswersAtHand
  <2> QED
    BY <1>3, <2>3, <2>4, <2>5 DEF Send, RegisteredWhileListening, Listening
<1>4. CASE SendFails
  <2>1. TypeOK' /\ Records'
    BY <1>0, <1>4 DEF SendFails, Executing, NoEntry, EntryType
  <2> QED
    BY <1>0, <1>4, <2>1
    DEF SendFails, RegisteredWhileListening, Listening, TrackedIsWatched, AnswersAtHand
<1>5. CASE Receive
  <2>1. TypeOK' /\ Records' /\ executor' \in {"idle", "done"}
    BY <1>0, <1>5 DEF Receive, Executing
  <2> QED
    BY <1>5, <2>1
    DEF Receive, RegisteredWhileListening, Listening, TrackedIsWatched, AnswersAtHand
<1> QED
  BY <1>1, <1>2, <1>3, <1>4, <1>5 DEF Runner

-----------------------------------------------------------------------------
(* The steps of the scanner and of the queue timers.                       *)
LEMMA ScannerKeepsWatch == WatchInv /\ (Scan \/ DeadlineFires) => WatchInv'
<1> SUFFICES ASSUME WatchInv, Scan \/ DeadlineFires PROVE WatchInv'
  OBVIOUS
<1> USE DEF WatchInv, TypeOK, Records, AttemptCounts, None
<1>1. CASE Collect
  <2>1. PICK victim \in Victims : scanner' = [scanner EXCEPT !.step = "reset", !.victim = victim]
    BY <1>1 DEF Collect
  <2>2. victim \in {None, "heartbeat", "execution", "queue"}
    BY DEF Victims
  <2>3. /\ scanner' \in ScannerType
        /\ scanner'.step = "reset" /\ scanner'.removed = scanner.removed /\ ~scanner.removed
    BY <1>1, <2>1, <2>2 DEF Collect, ScannerType, AnswersAtHand
  <2>4. entry' \in EntryType /\ entry'.phase = entry.phase /\ entry'.worker = entry.worker
    BY <1>1 DEF Collect, EntryType, Executing
  <2>5. TypeOK' /\ Records'
    BY <1>1, <2>3, <2>4 DEF Collect, Executing, ScannerType
  <2>6. TrackedIsWatched'
    BY <1>1, <2>3, <2>4 DEF Collect, TrackedIsWatched, Watched, AboutToAnswer, Queued, Executing
  <2> QED
    BY <1>1, <2>3, <2>5, <2>6 DEF Collect, RegisteredWhileListening, Listening, AnswersAtHand
<1>2. CASE ResetTracker
  <2>1. /\ scanner' \in ScannerType
        /\ scanner'.step \in {"idle", "remove"} /\ ~scanner'.removed /\ ~scanner.removed
    BY <1>2 DEF ResetTracker, ScannerType, ScannerIdle, AnswersAtHand
  <2>2. TypeOK' /\ Records'
    BY <1>2, <2>1 DEF ResetTracker, Executing, ScannerType
  <2>3. TrackedIsWatched'
    BY <1>2, <2>1 DEF ResetTracker, TrackedIsWatched, Watched, AboutToAnswer, Queued, Executing
  <2> QED
    BY <1>2, <2>1, <2>2, <2>3 DEF ResetTracker, RegisteredWhileListening, Listening, AnswersAtHand
<1>3. CASE DeadlineFires
  <2>1. /\ scanner' \in ScannerType /\ scanner'.step = "remove" /\ scanner'.victim = "queue"
        /\ ~scanner'.removed /\ ~scanner.removed
    BY <1>3 DEF DeadlineFires, ScannerType, AnswersAtHand
  <2>2. TypeOK' /\ Records'
    BY <1>3, <2>1 DEF DeadlineFires, Executing
  <2>3. TrackedIsWatched'
    BY <1>3, <2>1 DEF DeadlineFires, TrackedIsWatched, Watched, AboutToAnswer, Queued, Executing
  <2> QED
    BY <1>3, <2>1, <2>2, <2>3 DEF DeadlineFires, RegisteredWhileListening, Listening, AnswersAtHand
<1>4. CASE RemoveEntry
  <2>1. /\ scanner' \in ScannerType /\ scanner'.step = "clear"
        /\ scanner'.victim = scanner.victim /\ (scanner'.removed <=> Expired)
    BY <1>4 DEF RemoveEntry, ScannerType, Expired, Tracked, Queued, Executing
  <2>2. entry' \in EntryType /\ (~Expired => entry' = entry)
        /\ (entry'.phase = "executing" => entry' = entry)
        /\ (entry'.phase # "executing" => entry'.worker = None)
    BY <1>4 DEF RemoveEntry, EntryType, NoEntry, Executing
  <2>3. TypeOK' /\ Records'
    BY <1>4, <2>1, <2>2 DEF RemoveEntry, Executing, EntryType, ScannerType
  <2>4. Expired => AboutToAnswer'
    <3> HAVE Expired
    <3>1. scanner'.removed
      BY <2>1
    <3> QED
      BY <3>1 DEF AboutToAnswer
  <2>5. ~Expired => (Watched => Watched') /\ (AboutToAnswer => AboutToAnswer')
    <3> HAVE ~Expired
    <3>1. ~Queued /\ ~scanner.removed
      BY <1>4 DEF Expired, Tracked, RemoveEntry, AnswersAtHand
    <3> QED
      BY <1>4, <2>2, <3>1 DEF RemoveEntry, Watched, AboutToAnswer, Queued, Executing
  <2>6. TrackedIsWatched'
    BY <1>4, <2>4, <2>5 DEF RemoveEntry, TrackedIsWatched
  <2> QED
    BY <1>4, <2>1, <2>3, <2>6 DEF RemoveEntry, RegisteredWhileListening, Listening, AnswersAtHand
<1>5. CASE ClearMark
  <2>1. /\ scanner' \in ScannerType /\ (scanner'.removed <=> scanner.removed)
        /\ scanner'.step \in {"idle", "deliver"} /\ (scanner'.removed <=> scanner'.step = "deliver")
    BY <1>5 DEF ClearMark, ScannerType, ScannerIdle
  <2>2. TypeOK' /\ Records'
    BY <1>5, <2>1 DEF ClearMark, Executing, ScannerType
  <2>3. TrackedIsWatched'
    BY <1>5, <2>1 DEF ClearMark, TrackedIsWatched, Watched, AboutToAnswer, Queued, Executing
  <2> QED
    BY <1>5, <2>1, <2>2, <2>3 DEF ClearMark, RegisteredWhileListening, Listening, AnswersAtHand
<1>6. CASE DeliverTimeout
  <2>1. scanner' \in ScannerType /\ scanner'.step = "idle" /\ ~scanner'.removed
    BY <1>6 DEF DeliverTimeout, ScannerType, ScannerIdle
  <2>2. /\ RegisteredWhileListening'
        /\ registered' \in BOOLEAN /\ answer' \in {None, "success", "failure", "timeout"}
        /\ executor' \in {"sending", "waiting"} => answer' # None
    BY <1>6, DeliverAnswers DEF DeliverTimeout
  <2>3. TypeOK' /\ Records'
    BY <1>6, <2>1, <2>2 DEF DeliverTimeout, Executing, ScannerType
  <2> QED
    BY <1>6, <2>1, <2>2, <2>3 DEF DeliverTimeout, TrackedIsWatched, AnswersAtHand
<1> QED
  BY <1>1, <1>2, <1>3, <1>4, <1>5, <1>6 DEF Scan

-----------------------------------------------------------------------------
(* The steps of a worker.  One that takes nothing from the entry and       *)
(* completes nothing changes only where it is itself.                      *)
Harmless(w) ==
    /\ UNCHANGED <<executor, attempt, registered, answer, entry, deadlines, scanner>>
    /\ worker[w].state \notin {"clearing", "completing"}
    /\ \E r \in WorkerType : /\ worker' = [worker EXCEPT ![w] = r]
                             /\ r.state \notin {"clearing", "completing"}

LEMMA HarmlessKeepsWatch ==
    ASSUME WatchInv, NEW w \in Worker, Harmless(w), seen' \in BOOLEAN
    PROVE  WatchInv'
<1> USE DEF WatchInv, TypeOK, Records, AttemptCounts, None
<1>1. /\ worker' \in [Worker -> WorkerType]
      /\ worker'[w].state \notin {"clearing", "completing"}
      /\ \A x \in Worker \ {w} : worker'[x] = worker[x]
  BY DEF Harmless
<1>2. TypeOK' /\ Records'
  BY <1>1 DEF Harmless, Executing, WorkerType
<1>3. AboutToAnswer => AboutToAnswer'
  BY <1>1 DEF Harmless, AboutToAnswer
<1>4. TrackedIsWatched'
  BY <1>3 DEF Harmless, TrackedIsWatched, Watched, Queued, Executing
<1>5. AnswersAtHand'
  BY <1>1 DEF Harmless, AnswersAtHand
<1> QED
  BY <1>2, <1>4, <1>5 DEF Harmless, RegisteredWhileListening, Listening

LEMMA MovesAreHarmless ==
    ASSUME WatchInv, NEW w \in Worker,
           \/ Pull(w) \/ FindEmpty(w) \/ Park(w) \/ LoseWorker(w)
           \/ HeartbeatRefused(w) \/ HeartbeatUnknown(w)
    PROVE  Harmless(w) /\ seen' \in BOOLEAN
<1>1. /\ worker[w] \in WorkerType /\ seen' \in BOOLEAN
      /\ UNCHANGED <<executor, attempt, registered, answer, entry, deadlines, scanner>>
      /\ worker[w].state \notin {"clearing", "completing"}
  BY DEF WatchInv, Records, TypeOK, Pull, FindEmpty, Park, LoseWorker, HeartbeatRefused,
         HeartbeatUnknown, HasTask
<1>2. Free \in WorkerType /\ Free.state = "polling"
  BY DEF Free, WorkerType, None
<1>3. \A s \in {"parking", "parked", "pulled", "executing"} :
          [worker[w] EXCEPT !.state = s] \in WorkerType
          /\ [worker[w] EXCEPT !.state = s].state = s
  BY <1>1 DEF WorkerType
<1>4. \/ worker' = [worker EXCEPT ![w] = Free]
      \/ \E s \in {"parking", "parked", "pulled", "executing"} :
             worker' = [worker EXCEPT ![w] = [worker[w] EXCEPT !.state = s]]
  BY DEF Pull, FindEmpty, Park, LoseWorker, HeartbeatRefused, HeartbeatUnknown, Drop, Work
<1> QED
  BY <1>1, <1>2, <1>3, <1>4 DEF Harmless

LEMMA WorkerKeepsWatch ==
    ASSUME WatchInv, NEW w \in Worker, WorkerStep(w)
    PROVE  WatchInv'
<1> USE DEF WatchInv, TypeOK, Records, AttemptCounts, None
<1>1. CASE \/ Pull(w) \/ FindEmpty(w) \/ Park(w) \/ LoseWorker(w)
           \/ HeartbeatRefused(w) \/ HeartbeatUnknown(w)
  BY <1>1, MovesAreHarmless, HarmlessKeepsWatch
<1>2. CASE HeartbeatAccepted(w)
  <2>1. /\ entry' \in EntryType /\ entry'.phase = "executing" /\ entry'.worker \in Worker
    BY <1>2 DEF HeartbeatAccepted, Claimed, Accepts, EntryType, Queued, Executing
  <2>2. /\ worker' \in [Worker -> WorkerType]
        /\ worker'[w].state = "executing"
        /\ \A x \in Worker \ {w} : worker'[x] = worker[x]
    BY <1>2 DEF HeartbeatAccepted, Work, WorkerType
  <2>3. TypeOK' /\ Records'
    BY <1>2, <2>1, <2>2 DEF HeartbeatAccepted, Executing, WorkerType
  <2>4. TrackedIsWatched' /\ AnswersAtHand'
    BY <1>2, <2>1, <2>2 DEF HeartbeatAccepted, TrackedIsWatched, Watched, Executing, AnswersAtHand
  <2> QED
    BY <1>2, <2>3, <2>4 DEF HeartbeatAccepted, RegisteredWhileListening, Listening
<1>3. CASE \E result \in {"success", "failure"} : CompleteEntry(w, result)
  <2>1. PICK result \in {"success", "failure"} : CompleteEntry(w, result)
    BY <1>3
  <2>2. /\ worker' \in [Worker -> WorkerType]
        /\ worker'[w].state = "clearing" /\ worker'[w].result # None
        /\ \A x \in Worker \ {w} : worker'[x] = worker[x]
    BY <2>1 DEF CompleteEntry, WorkerType
  <2>3. entry' \in EntryType /\ entry'.phase = None /\ entry'.worker = None
    BY <2>1 DEF CompleteEntry, NoEntry, EntryType
  <2>4. TypeOK' /\ Records'
    BY <2>1, <2>2, <2>3 DEF CompleteEntry, Executing, WorkerType
  <2>5. TrackedIsWatched' /\ AnswersAtHand'
    BY <2>1, <2>2 DEF CompleteEntry, TrackedIsWatched, AboutToAnswer, AnswersAtHand
  <2> QED
    BY <2>1, <2>4, <2>5 DEF CompleteEntry, RegisteredWhileListening, Listening
<1>4. CASE CompleteMark(w)
  <2>1. /\ worker' \in [Worker -> WorkerType]
        /\ worker'[w].state = "completing" /\ worker'[w].result = worker[w].result
        /\ \A x \in Worker \ {w} : worker'[x] = worker[x]
    BY <1>4 DEF CompleteMark, WorkerType
  <2>2. TypeOK' /\ Records'
    <3>1. seen' \in BOOLEAN /\ \A x \in Worker : worker'[x] \in WorkerType
      BY <1>4, <2>1 DEF CompleteMark
    <3>2. \A r \in WorkerType : r.state \in {"polling", "parking", "parked", "pulled",
                                            "executing", "clearing", "completing"}
      BY DEF WorkerType
    <3> QED
      BY <1>4, <2>1, <3>1, <3>2 DEF CompleteMark, Executing
  <2>3. TrackedIsWatched' /\ AnswersAtHand'
    BY <1>4, <2>1 DEF CompleteMark, TrackedIsWatched, AboutToAnswer, AnswersAtHand
  <2> QED
    BY <1>4, <2>2, <2>3 DEF CompleteMark, RegisteredWhileListening, Listening
<1>5. CASE CompleteChannel(w)
  <2>1. worker[w].result \in {"success", "failure", "timeout"}
    BY <1>5 DEF CompleteChannel, AnswersAtHand, WorkerType
  <2>2. /\ RegisteredWhileListening'
        /\ registered' \in BOOLEAN /\ answer' \in {None, "success", "failure", "timeout"}
        /\ executor' \in {"sending", "waiting"} => answer' # None
    BY <1>5, <2>1, DeliverAnswers DEF CompleteChannel
  <2>3. /\ worker' \in [Worker -> WorkerType]
        /\ worker'[w].state \in {"polling", "executing"}
        /\ \A x \in Worker \ {w} : worker'[x] = worker[x]
    BY <1>5 DEF CompleteChannel, Drop, Work, Free, WorkerType
  <2>4. TypeOK' /\ Records'
    BY <1>5, <2>2, <2>3 DEF CompleteChannel, Executing, WorkerType
  <2> QED
    BY <1>5, <2>2, <2>3, <2>4 DEF CompleteChannel, TrackedIsWatched, AnswersAtHand
<1> QED
  BY <1>1, <1>2, <1>3, <1>4, <1>5 DEF WorkerStep, Heartbeat

-----------------------------------------------------------------------------
(* The inductive invariant: types, who listens on the channel of the task, *)
(* who watches it, and what is about to be delivered.                      *)
THEOREM PendingInvariant == Spec => []WatchInv
<1>1. WatchInv /\ [Next]_vars => WatchInv'
  <2> SUFFICES ASSUME WatchInv, [Next]_vars PROVE WatchInv'
    OBVIOUS
  <2>1. CASE UNCHANGED vars
    BY <2>1 DEF vars, WatchInv, TypeOK, Records, AttemptCounts, RegisteredWhileListening,
                Listening,                TrackedIsWatched, AnswersAtHand, Watched, AboutToAnswer, Queued, Executing
  <2> QED
    BY <2>1, RunnerKeepsWatch, ScannerKeepsWatch, WorkerKeepsWatch DEF Next
<1> QED
  BY <1>1, Initially, PTL DEF Spec

(* The channel of a task id is never registered twice, whatever stale      *)
(* workers, timers and scans of earlier attempts do (TaskRegistry::register*)
(* would panic).                                                           *)
THEOREM NoDoubleRegistration == Spec => []NeverRegisteredTwice
<1>1. WatchInv => NeverRegisteredTwice
  BY DEF WatchInv, RegisteredWhileListening, Listening, NeverRegisteredTwice
<1> QED
  BY <1>1, PendingInvariant, PTL

(* An executor that waits for an answer is never left with nobody who      *)
(* watches its task or is about to answer it.                              *)
THEOREM WaitersAreWatched == Spec => []WaitingIsWatched
<1>1. WatchInv => WaitingIsWatched
  BY DEF WatchInv, RegisteredWhileListening, Listening, TrackedIsWatched, WaitingIsWatched
<1> QED
  BY <1>1, PendingInvariant, PTL
=============================================================================
