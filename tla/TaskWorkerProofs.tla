-------------------------- MODULE TaskWorkerProofs --------------------------
(***************************************************************************)
(* The slots of a worker, for every number of slots, executions and        *)
(* retries and for all four workers: none is created, none gets lost but   *)
(* by the failed sessions of the Python NATS worker, and so the limit of   *)
(* concurrent executions holds.                                            *)
(***************************************************************************)
EXTENDS TaskWorker, FiniteSetTheorems, TLAPS

(* Every slot in use belongs to the semaphore in use.                      *)
AllCurrent == \A h \in Handler : handler[h].current
KeepsCurrent(h, record) == handler[h].current => record.current

(* Where an execution ends: joined later, or over.                         *)
EndStage(record) ==
    IF sdk = "rust grpc" THEN record.stage = "finished" ELSE record.stage \in {"idle", "dead"}

(* While a semaphore is in use, only the Python NATS worker loses slots.   *)
Counting == loop \in {"throttled", "pulling"} \/ (loop = "connecting" /\ sdk # "rust nats")
LostOnlyByFailures ==
    /\ sdk = "python nats" => Lost <= failures
    /\ sdk # "python nats" => Lost = 0

(* The inductive invariant.  The signal that is used up and the room that  *)
(* is not waited for belong to rust grpc; Lost counts the slots that are   *)
(* neither free nor held.                                                  *)
Connected == loop \in {"connecting", "throttled", "pulling"}
RetriesLeft == Connected => failures < MaxRetries
SignalKept == sdk # "rust grpc" => shutdown # "consumed"
RoomToPull == sdk = "rust grpc" /\ shutdown # "consumed" /\ loop = "pulling" => permits > 0
NoDebt == shutdown # "consumed" => permits >= 0
OneSemaphore == sdk # "rust nats" => AllCurrent
NoneCreated == Lost >= 0
FewLost == Counting => LostOnlyByFailures

SlotsInv ==
    /\ RetriesLeft /\ SignalKept /\ RoomToPull /\ NoDebt
    /\ OneSemaphore /\ NoneCreated /\ FewLost

-----------------------------------------------------------------------------
(* What the steps of a handler do to the set of executions that hold a     *)
(* slot.                                                                   *)
LEMMA Parameters ==
    /\ IsFiniteSet(Handler)
    /\ 0 \in 0..MaxRetries
    /\ MaxConcurrent \in Nat /\ MaxConcurrent > 0
    /\ MaxRetries \in Nat /\ MaxRetries > 0
<1>1. MaxConcurrent \in Nat \ {0} /\ MaxRetries \in Nat \ {0}
  BY WorkerAssumption
<1>2. IsFiniteSet(Handler)
  BY WorkerAssumption
<1>3. 0 \in 0..MaxRetries
  BY <1>1
<1> QED
  BY <1>1, <1>2, <1>3

LEMMA BusyFinite == IsFiniteSet(Busy) /\ Cardinality(Busy) \in Nat
<1>1. Busy \subseteq Handler
  BY DEF Busy, Running, Unreaped
<1> QED
  BY <1>1, FS_Subset, FS_CardinalityType, WorkerAssumption

LEMMA BusyFinite2 == IsFiniteSet(Busy') /\ Cardinality(Busy') \in Nat
<1>1. Busy' \subseteq Handler
  BY DEF Busy, Running, Unreaped
<1> QED
  BY <1>1, FS_Subset, FS_CardinalityType, WorkerAssumption

LEMMA BusyGrows ==
    ASSUME NEW h \in Handler, h \notin Busy, Busy' = Busy \union {h}
    PROVE  Cardinality(Busy') = Cardinality(Busy) + 1
  BY BusyFinite, FS_AddElement

LEMMA BusyShrinks ==
    ASSUME NEW h \in Handler, h \in Busy, Busy' = Busy \ {h}
    PROVE  Cardinality(Busy') = Cardinality(Busy) - 1
  BY BusyFinite, FS_RemoveElement

LEMMA IdleType == Idle \in HandlerType
  BY DEF Idle, HandlerType

LEMMA AbandonEffect ==
    ASSUME WorkerTypeOK, AbandonAll
    PROVE  /\ handler' \in [Handler -> HandlerType]
           /\ Cardinality(Busy') = 0
           /\ AllCurrent => AllCurrent'
<1>1. ASSUME NEW h \in Handler
      PROVE  /\ Abandoned(h) \in HandlerType
             /\ Abandoned(h).stage \in {"idle", "dead"}
             /\ handler[h].current => Abandoned(h).current
  BY <1>1, IdleType DEF Abandoned, WorkerTypeOK, HandlerType, Idle
<1>2. \A h \in Handler : handler'[h] = Abandoned(h)
  BY DEF AbandonAll
<1>3. Busy' = {}
  BY <1>1, <1>2 DEF Busy, Running, Unreaped
<1> QED
  BY <1>1, <1>2, <1>3, FS_EmptySet DEF AbandonAll, AllCurrent

LEMMA StartEffect ==
    ASSUME WorkerTypeOK, NEW h \in Handler, FreeHandler(h),
           NEW t \in Task \union {None}, handler' = Started(h, t)
    PROVE  /\ handler' \in [Handler -> HandlerType]
           /\ Cardinality(Busy') = Cardinality(Busy) + 1
           /\ AllCurrent => AllCurrent'
<1>1. ASSUME NEW x \in Handler
      PROVE  /\ Started(h, t)[x] \in HandlerType
             /\ handler[x].current => Started(h, t)[x].current
             /\ x # h => /\ Started(h, t)[x].stage = handler[x].stage
                         /\ Started(h, t)[x].current = handler[x].current
             /\ x = h => /\ Started(h, t)[x].stage = "claiming"
                         /\ Started(h, t)[x].current = TRUE
  BY <1>1 DEF Started, WorkerTypeOK, HandlerType, Idle
<1>2. Busy' = Busy \union {h}
  BY <1>1 DEF Busy, Running, Unreaped
<1>3. h \notin Busy
  BY DEF Busy, Running, Unreaped, FreeHandler
<1>4. handler' \in [Handler -> HandlerType]
  BY <1>1 DEF Started
<1> QED
  BY <1>1, <1>2, <1>3, <1>4, BusyGrows DEF AllCurrent

LEMMA MoveEffect ==
    ASSUME WorkerTypeOK, NEW h \in Handler, NEW r \in HandlerType,
           h \in Running, r.stage \in {"claiming", "executing", "completing"},
           handler[h].current = r.current,
           handler' = [handler EXCEPT ![h] = r]
    PROVE  /\ handler' \in [Handler -> HandlerType]
           /\ Cardinality(Busy') = Cardinality(Busy)
           /\ AllCurrent => AllCurrent'
<1>1. handler' \in [Handler -> HandlerType]
  BY DEF WorkerTypeOK
<1>2. handler'[h] = r /\ \A x \in Handler : x # h => handler'[x] = handler[x]
  BY DEF WorkerTypeOK
<1>3. Busy' = Busy
  BY <1>2 DEF Busy, Running, Unreaped
<1> QED
  BY <1>1, <1>2, <1>3 DEF AllCurrent

(* A handler that ends frees its slot, keeps it until it is joined over    *)
(* gRPC in Rust, or has held one of an earlier session.                    *)
LEMMA EndEffect ==
    ASSUME WorkerTypeOK, SlotsInv, NEW h \in Handler, NEW r \in HandlerType,
           h \in Running, FreesSlot(h), handler' = [handler EXCEPT ![h] = r],
           EndStage(r), KeepsCurrent(h, r)
    PROVE  /\ handler' \in [Handler -> HandlerType]
           /\ permits' \in Int /\ permits' >= permits
           /\ permits' + Cardinality(Busy') = permits + Cardinality(Busy)
           /\ AllCurrent => AllCurrent'
<1>1. handler' \in [Handler -> HandlerType]
  BY DEF WorkerTypeOK
<1>2. handler'[h] = r /\ \A x \in Handler : x # h => handler'[x] = handler[x]
  BY DEF WorkerTypeOK
<1>3. AllCurrent => AllCurrent'
  BY <1>2 DEF AllCurrent, KeepsCurrent
<1>4. permits \in Int
  BY DEF WorkerTypeOK
<1>5. Cardinality(Busy) \in Nat
  BY BusyFinite
<1> DEFINE Kept == /\ permits' \in Int /\ permits' >= permits
                   /\ permits' + Cardinality(Busy') = permits + Cardinality(Busy)
<1>6. ASSUME sdk = "rust grpc" PROVE Kept
  <2>1. handler[h].current /\ r.current /\ r.stage = "finished"
    BY <1>6 DEF SlotsInv, OneSemaphore, AllCurrent, KeepsCurrent, EndStage
  <2>2. Busy' = Busy
    BY <1>2, <2>1 DEF Busy, Running, Unreaped
  <2>3. permits' = permits
    BY <1>6 DEF FreesSlot
  <2> QED
    BY <1>4, <1>5, <2>2, <2>3
<1>7. ASSUME sdk # "rust grpc", handler[h].current PROVE Kept
  <2>1. h \in Busy /\ Busy' = Busy \ {h}
    BY <1>2, <1>7 DEF Busy, Running, Unreaped, EndStage
  <2>2. Cardinality(Busy') = Cardinality(Busy) - 1
    BY <2>1, BusyShrinks
  <2>3. permits' = permits + 1
    BY <1>7 DEF FreesSlot
  <2> QED
    BY <1>4, <1>5, <2>2, <2>3
<1>8. ASSUME sdk # "rust grpc", ~handler[h].current PROVE Kept
  <2>1. Busy' = Busy
    BY <1>2, <1>8 DEF Busy, Running, Unreaped, EndStage
  <2>2. permits' = permits
    BY <1>8 DEF FreesSlot
  <2> QED
    BY <1>4, <1>5, <2>1, <2>2
<1>9. Kept
  BY <1>6, <1>7, <1>8
<1> QED
  BY <1>1, <1>3, <1>9

-----------------------------------------------------------------------------
LEMMA WorkerInit == Init => WorkerTypeOK /\ SlotsInv
<1> SUFFICES ASSUME Init PROVE WorkerTypeOK /\ SlotsInv
  OBVIOUS
<1>1. \A h \in Handler : handler[h] = Idle
  BY DEF Init
<1>2. Busy = {}
  BY <1>1 DEF Busy, Running, Unreaped, Idle
<1>3. Cardinality(Busy) = 0
  BY <1>2, FS_EmptySet
<1>4. handler \in [Handler -> HandlerType]
  BY IdleType DEF Init
<1>5. permits \in Int /\ failures \in 0..MaxRetries
  BY Parameters DEF Init
<1>6. WorkerTypeOK
  BY <1>4, <1>5 DEF Init, WorkerTypeOK
<1>7. AllCurrent
  BY <1>1 DEF Idle, AllCurrent
<1>8. Held = 0 /\ Lost = 0
  BY <1>3, Parameters DEF Init, Lost, Held
<1>9. permits > 0 /\ shutdown = "no" /\ loop = "connecting" /\ failures = 0
  BY Parameters DEF Init
<1>10. SlotsInv
  BY <1>7, <1>8, <1>9, <1>5, Parameters
     DEF SlotsInv, RetriesLeft, SignalKept, RoomToPull, NoDebt, OneSemaphore, NoneCreated,
         FewLost, LostOnlyByFailures, Counting, Connected
<1> QED
  BY <1>6, <1>10

(* Steps of the loop that touch no execution.                              *)
LEMMA HandlerUnchanged ==
    ASSUME WorkerTypeOK, UNCHANGED handler
    PROVE  /\ handler' \in [Handler -> HandlerType]
           /\ Cardinality(Busy') = Cardinality(Busy)
           /\ AllCurrent => AllCurrent'
<1>1. Busy' = Busy
  BY DEF Busy, Running, Unreaped
<1> QED
  BY <1>1 DEF WorkerTypeOK, AllCurrent

LEMMA LostValue ==
    ASSUME WorkerTypeOK
    PROVE  /\ Held \in {0, 1}
           /\ Nats /\ loop = "pulling" => Held = 1
           /\ ~Nats \/ loop # "pulling" => Held = 0
           /\ Lost = MaxConcurrent - permits - Held - Cardinality(Busy)
           /\ Lost \in Int
<1>1. Held \in {0, 1}
  BY DEF Held
<1>2. Lost = MaxConcurrent - permits - Held - Cardinality(Busy)
  BY DEF Lost
<1>3. permits \in Int
  BY DEF WorkerTypeOK
<1>4. Lost \in Int
  BY <1>1, <1>2, <1>3, BusyFinite, Parameters
<1> QED
  BY <1>1, <1>2, <1>4 DEF Held

LEMMA LostValue2 ==
    ASSUME WorkerTypeOK'
    PROVE  /\ Held' \in {0, 1}
           /\ Nats' /\ loop' = "pulling" => Held' = 1
           /\ ~Nats' \/ loop' # "pulling" => Held' = 0
           /\ Lost' = MaxConcurrent - permits' - Held' - Cardinality(Busy')
           /\ Lost' \in Int
<1>1. Held' \in {0, 1}
  BY DEF Held
<1>2. Lost' = MaxConcurrent - permits' - Held' - Cardinality(Busy')
  BY DEF Lost
<1>3. permits' \in Int
  BY DEF WorkerTypeOK
<1>4. Lost' \in Int
  BY <1>1, <1>2, <1>3, BusyFinite2, Parameters
<1> QED
  BY <1>1, <1>2, <1>4 DEF Held

SlotsKept ==
    Counting' => Counting /\ Lost' = Lost /\ (sdk = "python nats" => failures' = failures)

(* What is left to show for a step that neither creates nor loses a slot,  *)
(* unless the semaphore is no longer in use.                               *)
LEMMA KeepsSlots ==
    ASSUME SlotsInv, sdk' = sdk, RetriesLeft', SignalKept', RoomToPull', NoDebt',
           AllCurrent => AllCurrent', WorkerTypeOK, WorkerTypeOK',
           Lost' >= Lost,
           SlotsKept
    PROVE  SlotsInv'
<1>1. OneSemaphore'
  BY DEF SlotsInv, OneSemaphore
<1>2. Lost \in Int /\ Lost' \in Int
  BY LostValue, LostValue2
<1>3. NoneCreated'
  <2>1. Lost >= 0
    BY DEF SlotsInv, NoneCreated
  <2> QED
    BY <2>1, <1>2 DEF NoneCreated
<1>4. ASSUME Counting' PROVE LostOnlyByFailures'
  <2>1. LostOnlyByFailures
    BY <1>4 DEF SlotsInv, FewLost, SlotsKept
  <2>2. Lost' = Lost /\ (sdk = "python nats" => failures' = failures)
    BY <1>4 DEF SlotsKept
  <2> QED
    BY <2>1, <2>2 DEF LostOnlyByFailures
<1>5. FewLost'
  BY <1>4 DEF FewLost
<1> QED
  BY <1>1, <1>3, <1>5 DEF SlotsInv

LEMMA SessionFailsKeeps ==
    ASSUME WorkerTypeOK, SlotsInv, SessionFails, loop \in {"connecting", "pulling"}
    PROVE  (WorkerTypeOK /\ SlotsInv)'
<1>1. permits \in Int /\ failures \in 0..MaxRetries /\ Cardinality(Busy) \in Nat
  BY BusyFinite DEF WorkerTypeOK
<1>2. failures' = failures + 1 /\ failures' \in 0..MaxRetries
  <2>1. failures < MaxRetries /\ failures' = failures + 1
    BY DEF SessionFails, SlotsInv, RetriesLeft, Connected
  <2> QED
    BY <1>1, <2>1, Parameters
<1>3. /\ handler' \in [Handler -> HandlerType]
      /\ AllCurrent => AllCurrent'
      /\ Cardinality(Busy') = Cardinality(Busy) \/ Cardinality(Busy') = 0
      /\ loop' # "gave up" => Cardinality(Busy') = Cardinality(Busy)
  BY HandlerUnchanged, AbandonEffect DEF SessionFails
<1>4. WorkerTypeOK'
  BY <1>2, <1>3 DEF SessionFails, WorkerTypeOK, Over
<1>5. /\ loop' \in {"connecting", "draining", "gave up"}
      /\ loop' = "connecting" => failures' < MaxRetries
  BY <1>2 DEF SessionFails
<1>6. permits' = permits /\ shutdown' = shutdown /\ sdk' = sdk
  BY DEF SessionFails
<1>7. Held' = 0
  BY <1>4, <1>5, LostValue2
<1>8. /\ Lost = MaxConcurrent - permits - Held - Cardinality(Busy)
      /\ Lost' = MaxConcurrent - permits - Cardinality(Busy')
      /\ Held \in {0, 1} /\ Lost \in Int /\ Lost' \in Int
  BY <1>1, <1>4, <1>6, <1>7, LostValue, LostValue2, BusyFinite2, Parameters
<1>9. RetriesLeft' /\ SignalKept' /\ RoomToPull' /\ NoDebt' /\ OneSemaphore'
  BY <1>3, <1>5, <1>6
     DEF SlotsInv, RetriesLeft, Connected, SignalKept, RoomToPull, NoDebt, OneSemaphore
<1>10. NoneCreated'
  <2>1. Lost >= 0
    BY DEF SlotsInv, NoneCreated
  <2>2. Cardinality(Busy') = Cardinality(Busy) \/ Cardinality(Busy') = 0
    BY <1>3
  <2>3. Lost' >= 0
    BY <2>1, <2>2, <1>1, <1>8, Parameters
  <2> QED
    BY <2>3 DEF NoneCreated
<1>11. ASSUME Counting' PROVE LostOnlyByFailures'
  <2>1. loop' = "connecting" /\ sdk # "rust nats" /\ Counting
    BY <1>5, <1>6, <1>11 DEF Counting
  <2>2. LostOnlyByFailures
    BY <2>1 DEF SlotsInv, FewLost
  <2>3. Cardinality(Busy') = Cardinality(Busy)
    BY <1>3, <2>1
  <2>4. ASSUME sdk = "python nats" PROVE Lost' <= failures'
    <3>1. Lost <= failures
      BY <2>2, <2>4 DEF LostOnlyByFailures
    <3>2. Lost' = Lost + Held
      BY <2>3, <1>1, <1>8, Parameters
    <3> QED
      BY <3>1, <3>2, <1>1, <1>2, <1>8
  <2>5. ASSUME sdk # "python nats" PROVE Lost' = 0
    <3>1. Held = 0
      BY <2>1, <2>5, LostValue DEF Nats
    <3>2. Lost = 0
      BY <2>2, <2>5 DEF LostOnlyByFailures
    <3> QED
      BY <3>1, <3>2, <2>3, <1>1, <1>8, Parameters
  <2> QED
    BY <2>4, <2>5, <1>6 DEF LostOnlyByFailures
<1>12. SlotsInv'
  BY <1>9, <1>10, <1>11 DEF SlotsInv, FewLost
<1> QED
  BY <1>4, <1>12

(* A slot changes hands.                                                   *)
Balance ==
    permits' + Held' + Cardinality(Busy') = permits + Held + Cardinality(Busy)

LEMMA BalanceKeepsLost ==
    ASSUME WorkerTypeOK, WorkerTypeOK', Balance
    PROVE  Lost' = Lost /\ Lost' >= Lost
<1>1. permits \in Int /\ permits' \in Int
  BY DEF WorkerTypeOK
<1>2. Held \in Int /\ Held' \in Int
  BY LostValue, LostValue2
<1>3. Cardinality(Busy) \in Int /\ Cardinality(Busy') \in Int /\ MaxConcurrent \in Int
  BY BusyFinite, BusyFinite2, Parameters
<1>4. /\ Lost = MaxConcurrent - permits - Held - Cardinality(Busy)
      /\ Lost' = MaxConcurrent - permits' - Held' - Cardinality(Busy')
  BY LostValue, LostValue2
<1> QED
  BY <1>1, <1>2, <1>3, <1>4 DEF Balance

LEMMA Balanced ==
    ASSUME SlotsInv, WorkerTypeOK, WorkerTypeOK', sdk' = sdk,
           RetriesLeft', SignalKept', RoomToPull', NoDebt', AllCurrent => AllCurrent',
           Balance, Counting' => Counting, sdk = "python nats" => failures' = failures
    PROVE  SlotsInv'
<1>1. Lost' = Lost /\ Lost' >= Lost
  BY BalanceKeepsLost
<1>2. SlotsKept
  BY <1>1 DEF SlotsKept
<1> QED
  BY <1>1, <1>2, KeepsSlots

(* A worker that ends: no slot is in use, and none is counted any more.    *)
LEMMA EndingKeeps ==
    ASSUME WorkerTypeOK, SlotsInv, AbandonAll, loop' \in Over, permits' = permits,
           UNCHANGED <<sdk, received, failures, connected, shutdown>>
    PROVE  (WorkerTypeOK /\ SlotsInv)'
<1>1. WorkerTypeOK'
  BY AbandonEffect DEF WorkerTypeOK
<1>2. loop' \notin {"connecting", "throttled", "pulling"}
  BY DEF Over
<1>3. RetriesLeft' /\ SignalKept' /\ RoomToPull' /\ NoDebt'
  BY <1>2 DEF SlotsInv, RetriesLeft, Connected, SignalKept, RoomToPull, NoDebt
<1>4. SlotsKept
  BY <1>2 DEF SlotsKept, Counting
<1>5. /\ Lost = MaxConcurrent - permits - Held - Cardinality(Busy)
      /\ Lost' = MaxConcurrent - permits - 0 - 0
  BY <1>1, <1>2, AbandonEffect, LostValue, LostValue2
<1>6. permits \in Int /\ Held \in {0, 1} /\ Cardinality(Busy) \in Nat
  BY LostValue, BusyFinite DEF WorkerTypeOK
<1>7. Lost' >= Lost
  BY <1>5, <1>6, Parameters
<1> QED
  BY <1>1, <1>3, <1>4, <1>7, KeepsSlots, AbandonEffect

(* Steps of the loop by which a slot changes hands.                        *)
LEMMA AcquireKeeps ==
    ASSUME WorkerTypeOK, SlotsInv, Acquire
    PROVE  (WorkerTypeOK /\ SlotsInv)'
<1>1. permits \in Int /\ permits > 0 /\ permits' = permits - 1
  BY DEF Acquire, WorkerTypeOK
<1>2. WorkerTypeOK'
  BY <1>1, HandlerUnchanged DEF Acquire, WorkerTypeOK
<1>3. Held = 0 /\ Held' = 1
  BY <1>2, LostValue, LostValue2 DEF Acquire, Nats
<1>4. Balance
  BY <1>1, <1>3, HandlerUnchanged, BusyFinite DEF Acquire, Balance
<1>5. RetriesLeft' /\ SignalKept' /\ RoomToPull' /\ Counting
  BY DEF Acquire, SlotsInv, RetriesLeft, Connected, SignalKept, RoomToPull, Counting, Nats
<1>6. NoDebt'
  BY <1>1 DEF NoDebt
<1> QED
  BY <1>2, <1>4, <1>5, <1>6, Balanced, HandlerUnchanged DEF Acquire

LEMMA FetchNothingKeeps ==
    ASSUME WorkerTypeOK, SlotsInv, FetchNothing
    PROVE  (WorkerTypeOK /\ SlotsInv)'
<1>1. permits \in Int /\ permits' = permits + 1
  BY DEF FetchNothing, WorkerTypeOK
<1>2. WorkerTypeOK'
  BY <1>1, HandlerUnchanged DEF FetchNothing, WorkerTypeOK
<1>3. Held = 1 /\ Held' = 0
  BY <1>2, LostValue, LostValue2 DEF FetchNothing
<1>4. Balance
  BY <1>1, <1>3, HandlerUnchanged, BusyFinite DEF FetchNothing, Balance
<1>5. RetriesLeft' /\ SignalKept' /\ RoomToPull' /\ Counting
  BY DEF FetchNothing, SlotsInv, RetriesLeft, Connected, SignalKept, RoomToPull, Counting
<1>6. NoDebt'
  <2>1. shutdown' # "consumed" => permits >= 0
    BY DEF FetchNothing, SlotsInv, NoDebt
  <2> QED
    BY <1>1, <2>1 DEF NoDebt
<1> QED
  BY <1>2, <1>4, <1>5, <1>6, Balanced, HandlerUnchanged DEF FetchNothing

LEMMA ConnectKeeps ==
    ASSUME WorkerTypeOK, SlotsInv, Connect
    PROVE  (WorkerTypeOK /\ SlotsInv)'
<1>1. /\ sdk' = sdk /\ shutdown' = shutdown /\ received' = received /\ connected' = connected
      /\ failures \in 0..MaxRetries /\ permits \in Int
      /\ loop = "connecting" /\ loop' \in {"throttled", "draining", "pulling"}
  BY DEF Connect, Turn, WorkerTypeOK
<1>2. failures' \in {0, failures} /\ (sdk # "rust grpc" => failures' = failures)
  BY DEF Connect
<1>3. failures' \in 0..MaxRetries /\ failures' < MaxRetries
  <2>1. failures < MaxRetries
    BY <1>1 DEF SlotsInv, RetriesLeft, Connected
  <2>2. failures \in 0..MaxRetries /\ failures' \in {0, failures}
    BY <1>1, <1>2
  <2> QED
    BY <2>1, <2>2, Parameters
<1>4. Nats => loop' # "pulling"
  BY DEF Connect
<1>5. CASE sdk # "rust nats"
  <2>1. permits' = permits /\ UNCHANGED handler
    BY <1>5 DEF Connect
  <2>2. WorkerTypeOK'
    BY <2>1, <1>1, <1>3, HandlerUnchanged DEF WorkerTypeOK
  <2>3. Held = 0 /\ Held' = 0
    BY <1>1, <1>4, <2>2, LostValue, LostValue2 DEF Nats
  <2>4. Balance
    BY <2>1, <2>3, HandlerUnchanged DEF Balance
  <2>5. RoomToPull'
    <3>1. ASSUME sdk = "rust grpc", loop' = "pulling" PROVE permits > 0
      <4>1. ~(permits <= 0)
        BY <3>1 DEF Connect, Turn, Nats
      <4> QED
        BY <4>1, <1>1
    <3> QED
      BY <3>1, <2>1, <1>1 DEF RoomToPull
  <2>6. RetriesLeft' /\ SignalKept' /\ NoDebt'
    BY <1>1, <1>3, <2>1 DEF SlotsInv, RetriesLeft, SignalKept, NoDebt
  <2>7. Counting
    BY <1>1, <1>5 DEF Counting
  <2> QED
    BY <1>1, <1>2, <2>1, <2>2, <2>4, <2>5, <2>6, <2>7, Balanced, HandlerUnchanged
<1>6. CASE sdk = "rust nats"
  <2>1. permits' = MaxConcurrent /\ handler' = OldSession
    BY <1>6 DEF Connect
  <2>2. \A h \in Handler : OldSession[h] \in HandlerType /\ ~OldSession[h].current
    BY DEF OldSession, WorkerTypeOK, HandlerType
  <2>3. handler' \in [Handler -> HandlerType]
    BY <2>1, <2>2 DEF OldSession
  <2>4. WorkerTypeOK'
    BY <2>1, <2>3, <1>1, <1>3, Parameters DEF WorkerTypeOK
  <2>5. Busy' = {}
    BY <2>1, <2>2 DEF Busy, Running, Unreaped
  <2>6. Lost' = 0
    <3>1. Held' = 0 /\ Cardinality(Busy') = 0
      BY <1>1, <1>4, <1>6, <2>4, <2>5, LostValue2, FS_EmptySet DEF Nats
    <3> QED
      BY <2>1, <2>4, <3>1, LostValue2, Parameters
  <2>7. RetriesLeft' /\ SignalKept' /\ RoomToPull' /\ OneSemaphore'
    BY <1>1, <1>3, <1>6 DEF SlotsInv, RetriesLeft, SignalKept, RoomToPull, OneSemaphore
  <2>8. NoDebt' /\ NoneCreated'
    BY <2>1, <2>6, Parameters DEF NoDebt, NoneCreated
  <2>9. FewLost'
    BY <1>1, <1>6, <2>6 DEF FewLost, LostOnlyByFailures
  <2> QED
    BY <2>4, <2>7, <2>8, <2>9 DEF SlotsInv
<1> QED
  BY <1>5, <1>6

(* The loop leaves a session, or goes on in one, without any slot.         *)
LEMMA LeavingKeeps ==
    ASSUME WorkerTypeOK, SlotsInv, WorkerTypeOK', RetriesLeft',
           UNCHANGED <<sdk, permits, shutdown, handler>>, loop' # "pulling", ~Counting'
    PROVE  SlotsInv'
<1>1. Held' = 0
  BY LostValue2
<1>2. /\ Lost = MaxConcurrent - permits - Held - Cardinality(Busy)
      /\ Lost' = MaxConcurrent - permits - 0 - Cardinality(Busy)
      /\ permits \in Int /\ Held \in {0, 1} /\ Cardinality(Busy) \in Nat
  BY <1>1, LostValue, LostValue2, HandlerUnchanged, BusyFinite DEF WorkerTypeOK
<1>3. Lost' >= Lost
  BY <1>2, Parameters
<1>4. SignalKept' /\ RoomToPull' /\ NoDebt'
  BY DEF SlotsInv, SignalKept, RoomToPull, NoDebt
<1>5. SlotsKept
  BY DEF SlotsKept
<1> QED
  BY <1>3, <1>4, <1>5, HandlerUnchanged, KeepsSlots

LEMMA SamePlaceKeeps ==
    ASSUME WorkerTypeOK, SlotsInv, WorkerTypeOK', RetriesLeft', SignalKept', RoomToPull', NoDebt',
           UNCHANGED <<sdk, permits, handler>>, loop = "pulling" <=> loop' = "pulling",
           Counting' => Counting, sdk = "python nats" => failures' = failures
    PROVE  SlotsInv'
<1>1. Held' = Held
  BY LostValue, LostValue2 DEF Nats
<1>2. Balance
  BY <1>1, HandlerUnchanged DEF Balance
<1> QED
  BY <1>2, HandlerUnchanged, Balanced

LEMMA ConnectionLostKeeps ==
    ASSUME WorkerTypeOK, SlotsInv, ConnectionLost
    PROVE  (WorkerTypeOK /\ SlotsInv)'
<1>0. failures' = 0
  BY DEF ConnectionLost
<1>1. failures' \in 0..MaxRetries /\ failures' < MaxRetries
  BY <1>0, Parameters
<1>2. WorkerTypeOK'
  BY <1>1 DEF ConnectionLost, WorkerTypeOK
<1>3. RetriesLeft'
  BY <1>1 DEF RetriesLeft
<1>4. ~Counting'
  BY DEF ConnectionLost, Counting
<1> QED
  BY <1>2, <1>3, <1>4, LeavingKeeps DEF ConnectionLost

LEMMA PythonGrpcReceivesKeeps ==
    ASSUME WorkerTypeOK, SlotsInv, NEW t \in Task, PythonGrpcReceives(t)
    PROVE  (WorkerTypeOK /\ SlotsInv)'
<1>1. WorkerTypeOK'
  BY DEF PythonGrpcReceives, WorkerTypeOK
<1>2. RetriesLeft' /\ SignalKept' /\ RoomToPull' /\ NoDebt' /\ Counting
  BY DEF PythonGrpcReceives, SlotsInv, RetriesLeft, Connected, SignalKept, RoomToPull, NoDebt, Counting
<1>3. Held = 0 /\ Held' = 0
  BY <1>1, LostValue, LostValue2 DEF PythonGrpcReceives, Nats
<1>4. Balance
  BY <1>3, HandlerUnchanged DEF PythonGrpcReceives, Balance
<1> QED
  BY <1>1, <1>2, <1>4, HandlerUnchanged, Balanced DEF PythonGrpcReceives

LEMMA PythonGrpcStreamEndsKeeps ==
    ASSUME WorkerTypeOK, SlotsInv, PythonGrpcStreamEnds
    PROVE  (WorkerTypeOK /\ SlotsInv)'
<1>0. failures' = 0
  BY DEF PythonGrpcStreamEnds
<1>1. failures' \in 0..MaxRetries /\ failures' < MaxRetries
  BY <1>0, Parameters
<1>2. WorkerTypeOK'
  BY <1>1 DEF PythonGrpcStreamEnds, WorkerTypeOK
<1>3. RetriesLeft'
  BY <1>1 DEF RetriesLeft
<1>4. SignalKept' /\ RoomToPull' /\ NoDebt' /\ Counting
  BY DEF PythonGrpcStreamEnds, SlotsInv, SignalKept, RoomToPull, NoDebt, Counting
<1>5. Held = 0 /\ Held' = 0
  BY <1>2, LostValue, LostValue2 DEF PythonGrpcStreamEnds, Nats
<1>6. Balance
  BY <1>5, HandlerUnchanged DEF PythonGrpcStreamEnds, Balance
<1> QED
  BY <1>2, <1>3, <1>4, <1>6, HandlerUnchanged, Balanced DEF PythonGrpcStreamEnds

LEMMA PythonGrpcStreamFailsKeeps ==
    ASSUME WorkerTypeOK, SlotsInv, PythonGrpcStreamFails
    PROVE  (WorkerTypeOK /\ SlotsInv)'
<1>1. CASE SessionFails
  BY <1>1, SessionFailsKeeps DEF PythonGrpcStreamFails
<1>2. CASE /\ loop' = "draining"
           /\ UNCHANGED <<sdk, received, permits, failures, connected, shutdown, handler>>
  <2>1. WorkerTypeOK'
    BY <1>2 DEF WorkerTypeOK
  <2>2. RetriesLeft' /\ ~Counting'
    BY <1>2 DEF RetriesLeft, Connected, Counting
  <2> QED
    BY <1>2, <2>1, <2>2, LeavingKeeps
<1> QED
  BY <1>1, <1>2 DEF PythonGrpcStreamFails

LEMMA SignalKeeps ==
    ASSUME WorkerTypeOK, SlotsInv, Signal
    PROVE  (WorkerTypeOK /\ SlotsInv)'
<1>1. WorkerTypeOK'
  BY DEF Signal, WorkerTypeOK
<1>2. RetriesLeft' /\ SignalKept' /\ RoomToPull' /\ NoDebt' /\ (Counting' => Counting)
  BY DEF Signal, SlotsInv, RetriesLeft, Connected, SignalKept, RoomToPull, NoDebt, Counting
<1> QED
  BY <1>1, <1>2, SamePlaceKeeps DEF Signal

LEMMA RustSeesSignalKeeps ==
    ASSUME WorkerTypeOK, SlotsInv, RustSeesSignal
    PROVE  (WorkerTypeOK /\ SlotsInv)'
<1>1. WorkerTypeOK'
  BY DEF RustSeesSignal, WorkerTypeOK
<1>2. CASE sdk = "rust grpc" /\ loop = "throttled"
  <2>1. RetriesLeft' /\ SignalKept' /\ RoomToPull' /\ NoDebt' /\ Counting
    BY <1>2 DEF RustSeesSignal, SlotsInv, RetriesLeft, Connected, SignalKept, RoomToPull, NoDebt, Counting
  <2>2. Held = 0 /\ Held' = 0
    BY <1>1, <1>2, LostValue, LostValue2 DEF RustSeesSignal, Nats
  <2>3. Balance
    BY <2>2, HandlerUnchanged DEF RustSeesSignal, Balance
  <2> QED
    BY <1>1, <2>1, <2>3, HandlerUnchanged, Balanced DEF RustSeesSignal
<1>3. CASE ~(sdk = "rust grpc" /\ loop = "throttled")
  <2>1. RetriesLeft' /\ ~Counting' /\ shutdown' = shutdown /\ loop' # "pulling"
    BY <1>3 DEF RustSeesSignal, RetriesLeft, Connected, Counting
  <2> QED
    BY <1>1, <2>1, LeavingKeeps DEF RustSeesSignal
<1> QED
  BY <1>2, <1>3

-----------------------------------------------------------------------------
(* Steps that start, join and end executions.                              *)
LEMMA NatsReceivesKeeps ==
    ASSUME WorkerTypeOK, SlotsInv, NEW h \in Handler, NatsReceives(h)
    PROVE  (WorkerTypeOK /\ SlotsInv)'
<1>1. FreeHandler(h) /\ handler' = Started(h, None) /\ None \in Task \union {None}
  BY DEF NatsReceives
<1>2. WorkerTypeOK'
  BY <1>1, StartEffect DEF NatsReceives, WorkerTypeOK
<1>3. Held = 1 /\ Held' = 0 /\ permits' = permits /\ permits \in Int
  BY <1>2, LostValue, LostValue2 DEF NatsReceives, WorkerTypeOK
<1>4. Cardinality(Busy') = Cardinality(Busy) + 1 /\ Cardinality(Busy) \in Nat
  BY <1>1, StartEffect, BusyFinite
<1>5. Balance
  BY <1>3, <1>4 DEF Balance
<1>6. RetriesLeft' /\ SignalKept' /\ RoomToPull' /\ NoDebt' /\ Counting
  BY DEF NatsReceives, SlotsInv, RetriesLeft, Connected, SignalKept, RoomToPull, NoDebt, Counting
<1> QED
  BY <1>1, <1>2, <1>5, <1>6, StartEffect, Balanced DEF NatsReceives

LEMMA PythonGrpcStartsKeeps ==
    ASSUME WorkerTypeOK, SlotsInv, NEW h \in Handler, PythonGrpcStarts(h)
    PROVE  (WorkerTypeOK /\ SlotsInv)'
<1>1. FreeHandler(h) /\ handler' = Started(h, received) /\ received \in Task \union {None}
  BY DEF PythonGrpcStarts, WorkerTypeOK
<1>2. permits \in Int /\ permits > 0 /\ permits' = permits - 1
  BY DEF PythonGrpcStarts, WorkerTypeOK
<1>3. WorkerTypeOK'
  <2>1. permits' \in Int
    BY <1>2
  <2> QED
    BY <1>1, <2>1, StartEffect DEF PythonGrpcStarts, WorkerTypeOK
<1>4. Held = 0 /\ Held' = 0
  BY <1>3, LostValue, LostValue2 DEF PythonGrpcStarts, Nats
<1>5. Cardinality(Busy') = Cardinality(Busy) + 1 /\ Cardinality(Busy) \in Nat
  BY <1>1, StartEffect, BusyFinite
<1>6. Balance
  BY <1>2, <1>4, <1>5 DEF Balance
<1>7. RetriesLeft' /\ SignalKept' /\ RoomToPull' /\ Counting
  BY DEF PythonGrpcStarts, SlotsInv, RetriesLeft, Connected, SignalKept, RoomToPull, Counting
<1>8. NoDebt'
  BY <1>2 DEF NoDebt
<1> QED
  BY <1>1, <1>3, <1>6, <1>7, <1>8, StartEffect, Balanced DEF PythonGrpcStarts

(* The loop goes on pulling only with room left.                           *)
LEMMA SomeOrNone == \A n \in Int : n <= 0 \/ n > 0
  OBVIOUS

LEMMA TurnLeavesRoom ==
    ASSUME sdk = "rust grpc", NEW free \in Int, Turn(free) = "pulling"
    PROVE  free > 0
<1>1. ~(free <= 0)
  BY DEF Turn
<1> QED
  BY <1>1, SomeOrNone

LEMMA RustGrpcReceivesKeeps ==
    ASSUME WorkerTypeOK, SlotsInv, NEW h \in Handler, RustGrpcReceives(h)
    PROVE  (WorkerTypeOK /\ SlotsInv)'
<1>1. FreeHandler(h) /\ handler' = Started(h, None) /\ None \in Task \union {None}
  BY DEF RustGrpcReceives
<1>2. permits \in Int /\ permits' = permits - 1 /\ failures' = 0 /\ permits' \in Int
  <2>1. permits \in Int /\ permits' = permits - 1 /\ failures' = 0
    BY DEF RustGrpcReceives, WorkerTypeOK
  <2> QED
    BY <2>1
<1>3. /\ sdk = "rust grpc" /\ loop = "pulling" /\ shutdown' = shutdown /\ sdk' = sdk
      /\ loop' = Turn(permits') /\ loop' \in {"throttled", "pulling"}
  BY <1>2 DEF RustGrpcReceives, Turn
<1>4. WorkerTypeOK'
  BY <1>1, <1>2, <1>3, Parameters, StartEffect DEF RustGrpcReceives, WorkerTypeOK
<1>5. Held = 0 /\ Held' = 0
  BY <1>3, <1>4, LostValue, LostValue2 DEF Nats
<1>6. Cardinality(Busy') = Cardinality(Busy) + 1 /\ Cardinality(Busy) \in Nat
  BY <1>1, StartEffect, BusyFinite
<1>7. Balance
  BY <1>2, <1>5, <1>6 DEF Balance
<1>8. RetriesLeft' /\ SignalKept' /\ Counting
  BY <1>2, <1>3, Parameters DEF RetriesLeft, SignalKept, Counting
<1>9. RoomToPull'
  BY <1>2, <1>3, TurnLeavesRoom DEF RoomToPull
<1>10. NoDebt'
  <2>1. ASSUME shutdown' # "consumed" PROVE permits' >= 0
    <3>1. permits > 0
      BY <1>3, <2>1 DEF SlotsInv, RoomToPull
    <3> QED
      BY <3>1, <1>2
  <2> QED
    BY <2>1 DEF NoDebt
<1> QED
  BY <1>1, <1>3, <1>4, <1>7, <1>8, <1>9, <1>10, StartEffect, Balanced

LEMMA RustGrpcJoinsKeeps ==
    ASSUME WorkerTypeOK, SlotsInv, NEW h \in Handler, RustGrpcJoins(h)
    PROVE  (WorkerTypeOK /\ SlotsInv)'
<1> DEFINE r == IF handler[h].beating THEN [handler[h] EXCEPT !.stage = "dead"] ELSE Idle
<1>1. handler' = [handler EXCEPT ![h] = r] /\ handler \in [Handler -> HandlerType]
  BY DEF RustGrpcJoins, WorkerTypeOK
<1>2. r \in HandlerType /\ r.stage \in {"idle", "dead"} /\ (handler[h].current => r.current)
  BY <1>1, IdleType DEF HandlerType, Idle
<1> HIDE DEF r
<1>3. permits \in Int /\ permits' = permits + 1 /\ permits' \in Int
  <2>1. permits \in Int /\ permits' = permits + 1
    BY DEF RustGrpcJoins, WorkerTypeOK
  <2> QED
    BY <2>1
<1>4. /\ sdk = "rust grpc" /\ shutdown' = shutdown /\ sdk' = sdk /\ failures' = failures
      /\ loop' = Turn(permits') /\ loop' \in {"throttled", "pulling"}
      /\ loop \in {"throttled", "pulling"}
  BY <1>3 DEF RustGrpcJoins, Turn
<1>5. handler' \in [Handler -> HandlerType]
  BY <1>1, <1>2
<1>6. WorkerTypeOK'
  BY <1>3, <1>4, <1>5 DEF RustGrpcJoins, WorkerTypeOK
<1>7. handler'[h] = r /\ \A x \in Handler : x # h => handler'[x] = handler[x]
  BY <1>1
<1>8. AllCurrent /\ AllCurrent'
  BY <1>2, <1>4, <1>7 DEF SlotsInv, OneSemaphore, AllCurrent
<1>9. h \in Busy /\ Busy' = Busy \ {h}
  BY <1>2, <1>7, <1>8 DEF Busy, Running, Unreaped, AllCurrent, RustGrpcJoins
<1>10. Cardinality(Busy') = Cardinality(Busy) - 1 /\ Cardinality(Busy) \in Nat
  BY <1>9, BusyShrinks, BusyFinite
<1>11. Held = 0 /\ Held' = 0
  BY <1>4, <1>6, LostValue, LostValue2 DEF Nats
<1>12. Balance
  BY <1>3, <1>10, <1>11 DEF Balance
<1>13. RetriesLeft' /\ SignalKept' /\ Counting
  BY <1>4 DEF SlotsInv, RetriesLeft, Connected, SignalKept, Counting
<1>14. RoomToPull'
  BY <1>3, <1>4, TurnLeavesRoom DEF RoomToPull
<1>15. NoDebt'
  <2>1. shutdown' # "consumed" => permits >= 0
    BY <1>4 DEF SlotsInv, NoDebt
  <2> QED
    BY <2>1, <1>3 DEF NoDebt
<1> QED
  BY <1>4, <1>6, <1>8, <1>12, <1>13, <1>14, <1>15, Balanced

LEMMA MoveKeeps ==
    ASSUME WorkerTypeOK, SlotsInv, NEW h \in Handler, NEW r \in HandlerType, Moves(h, r),
           h \in Running, r.stage \in {"claiming", "executing", "completing"},
           handler[h].current = r.current
    PROVE  (WorkerTypeOK /\ SlotsInv)'
<1>1. /\ handler' \in [Handler -> HandlerType]
      /\ Cardinality(Busy') = Cardinality(Busy) /\ (AllCurrent => AllCurrent')
  BY MoveEffect DEF Moves
<1>2. WorkerTypeOK'
  BY <1>1 DEF Moves, WorkerTypeOK, loopVars
<1>3. Held' = Held
  BY <1>2, LostValue, LostValue2 DEF Moves, loopVars, Nats
<1>4. Balance
  BY <1>1, <1>3 DEF Moves, loopVars, Balance
<1>5. RetriesLeft' /\ SignalKept' /\ RoomToPull' /\ NoDebt' /\ (Counting' => Counting)
  BY DEF Moves, loopVars, SlotsInv, RetriesLeft, Connected, SignalKept, RoomToPull, NoDebt, Counting
<1> QED
  BY <1>1, <1>2, <1>4, <1>5, Balanced DEF Moves, loopVars

LEMMA HeartbeatStopsKeeps ==
    ASSUME WorkerTypeOK, SlotsInv, NEW h \in Handler, HeartbeatStops(h)
    PROVE  (WorkerTypeOK /\ SlotsInv)'
<1>1. handler' = [handler EXCEPT ![h] = [handler[h] EXCEPT !.beating = FALSE]]
  BY DEF HeartbeatStops, Moves
<1>2. \A x \in Handler : /\ handler'[x].stage = handler[x].stage
                         /\ handler'[x].current = handler[x].current
                         /\ handler'[x] \in HandlerType
  BY <1>1, ZenonT(60) DEF WorkerTypeOK, HandlerType
<1>3. Busy' = Busy
  BY <1>2 DEF Busy, Running, Unreaped
<1>4. handler' \in [Handler -> HandlerType] /\ (AllCurrent => AllCurrent')
  BY <1>1, <1>2 DEF WorkerTypeOK, AllCurrent
<1>5. WorkerTypeOK'
  BY <1>4 DEF HeartbeatStops, Moves, WorkerTypeOK, loopVars
<1>6. Held' = Held
  BY <1>5, LostValue, LostValue2 DEF HeartbeatStops, Moves, loopVars, Nats
<1>7. Balance
  BY <1>3, <1>6 DEF HeartbeatStops, Moves, loopVars, Balance
<1>8. RetriesLeft' /\ SignalKept' /\ RoomToPull' /\ NoDebt' /\ (Counting' => Counting)
  BY DEF HeartbeatStops, Moves, loopVars, SlotsInv, RetriesLeft, Connected, SignalKept,
         RoomToPull, NoDebt, Counting
<1> QED
  BY <1>4, <1>5, <1>7, <1>8, Balanced DEF HeartbeatStops, Moves, loopVars

LEMMA EndKeeps ==
    ASSUME WorkerTypeOK, SlotsInv, NEW h \in Handler, NEW r \in HandlerType,
           h \in Running, FreesSlot(h), handler' = [handler EXCEPT ![h] = r],
           EndStage(r), KeepsCurrent(h, r),
           UNCHANGED <<sdk, loop, received, failures, connected, shutdown>>
    PROVE  (WorkerTypeOK /\ SlotsInv)'
<1>1. /\ handler' \in [Handler -> HandlerType]
      /\ permits' \in Int /\ permits' >= permits /\ permits \in Int
      /\ permits' + Cardinality(Busy') = permits + Cardinality(Busy)
      /\ AllCurrent => AllCurrent'
  BY EndEffect DEF WorkerTypeOK
<1>2. WorkerTypeOK'
  BY <1>1 DEF WorkerTypeOK
<1>3. Held' = Held /\ Held \in {0, 1}
  BY <1>2, LostValue, LostValue2 DEF Nats
<1>4. Balance
  <2>1. Cardinality(Busy) \in Nat /\ Cardinality(Busy') \in Nat
    BY BusyFinite, BusyFinite2
  <2>2. permits' + Cardinality(Busy') = permits + Cardinality(Busy)
    BY <1>1
  <2>3. permits' \in Int /\ permits \in Int
    BY <1>1
  <2> QED
    BY <2>1, <2>2, <2>3, <1>3 DEF Balance
<1>5. RetriesLeft' /\ SignalKept' /\ (Counting' => Counting)
  BY DEF SlotsInv, RetriesLeft, Connected, SignalKept, Counting
<1>6. permits > 0 => permits' > 0
  BY <1>1
<1>7. permits >= 0 => permits' >= 0
  BY <1>1
<1>8. RoomToPull' /\ NoDebt'
  BY <1>6, <1>7 DEF SlotsInv, RoomToPull, NoDebt
<1> QED
  BY <1>1, <1>2, <1>4, <1>5, <1>8, Balanced

LEMMA ExitKeeps ==
    ASSUME WorkerTypeOK, SlotsInv, NEW h \in Handler, h \in Running, Exit(h)
    PROVE  (WorkerTypeOK /\ SlotsInv)'
<1> DEFINE r == IF sdk = "rust grpc" THEN [Idle EXCEPT !.stage = "finished"] ELSE Idle
<1>1. r \in HandlerType /\ EndStage(r) /\ KeepsCurrent(h, r)
  BY IdleType DEF HandlerType, Idle, EndStage, KeepsCurrent
<1>2. handler' = [handler EXCEPT ![h] = r]
  BY DEF Exit
<1> HIDE DEF r
<1> QED
  BY <1>1, <1>2, EndKeeps DEF Exit

LEMMA ComponentPanicsKeeps ==
    ASSUME WorkerTypeOK, SlotsInv, NEW h \in Handler, ComponentPanics(h)
    PROVE  (WorkerTypeOK /\ SlotsInv)'
<1> DEFINE r == [handler[h] EXCEPT !.stage = IF sdk = "rust grpc" THEN "finished" ELSE "dead"]
<1>1. handler[h] \in HandlerType /\ h \in Running
  BY DEF ComponentPanics, WorkerTypeOK, Running
<1>2. r \in HandlerType /\ EndStage(r) /\ KeepsCurrent(h, r)
  BY <1>1 DEF HandlerType, EndStage, KeepsCurrent
<1>3. handler' = [handler EXCEPT ![h] = r]
  BY DEF ComponentPanics
<1> HIDE DEF r
<1> QED
  BY <1>1, <1>2, <1>3, EndKeeps DEF ComponentPanics

LEMMA HandleKeeps ==
    ASSUME WorkerTypeOK, SlotsInv, NEW h \in Handler, Handle(h)
    PROVE  (WorkerTypeOK /\ SlotsInv)'
<1>1. handler[h] \in HandlerType /\ handler[h].tries \in Nat
  BY DEF WorkerTypeOK, HandlerType
<1>2. CASE ClaimAccepted(h)
  <2> DEFINE r == [handler[h] EXCEPT !.stage = "executing", !.tries = 0, !.beating = TRUE]
  <2>1. /\ r \in HandlerType /\ r.stage = "executing" /\ handler[h].current = r.current
        /\ h \in Running /\ Moves(h, r)
    BY <1>1, <1>2 DEF ClaimAccepted, HandlerType, Running
  <2> HIDE DEF r
  <2> QED
    BY <2>1, MoveKeeps
<1>3. CASE ClaimRefused(h) \/ Completed(h)
  BY <1>3, ExitKeeps DEF ClaimRefused, Completed, Running
<1>4. CASE ClaimUnavailable(h) \/ CompleteUnavailable(h)
  <2> DEFINE r == [handler[h] EXCEPT !.tries = @ + 1]
  <2>1. /\ handler[h].stage \in {"claiming", "completing"} /\ h \in Running /\ Moves(h, r)
    BY <1>4 DEF ClaimUnavailable, CompleteUnavailable, Running
  <2>2. handler[h].tries + 1 \in Nat
    BY <1>1
  <2>3. r \in HandlerType /\ r.stage = handler[h].stage /\ handler[h].current = r.current
    BY <1>1, <2>2 DEF HandlerType
  <2> HIDE DEF r
  <2> QED
    BY <2>1, <2>3, MoveKeeps
<1>5. CASE ComponentReturns(h)
  <2> DEFINE r == [handler[h] EXCEPT !.stage = "completing", !.beating = Python /\ @]
  <2>1. /\ r \in HandlerType /\ r.stage = "completing" /\ handler[h].current = r.current
        /\ h \in Running /\ Moves(h, r)
    BY <1>1, <1>5 DEF ComponentReturns, HandlerType, Running
  <2> HIDE DEF r
  <2> QED
    BY <2>1, MoveKeeps
<1>6. CASE ComponentPanics(h)
  BY <1>6, ComponentPanicsKeeps
<1> QED
  BY <1>2, <1>3, <1>4, <1>5, <1>6 DEF Handle

LEMMA WorkerNext ==
    ASSUME WorkerTypeOK, SlotsInv, [Next]_vars
    PROVE  (WorkerTypeOK /\ SlotsInv)'
<1>1. CASE Session
  <2>1. ConnectFails \/ FetchFails \/ RustGrpcStreamEnds => (WorkerTypeOK /\ SlotsInv)'
    BY SessionFailsKeeps DEF ConnectFails, FetchFails, RustGrpcStreamEnds
  <2>2. \A t \in Task : PythonGrpcReceives(t) => (WorkerTypeOK /\ SlotsInv)'
    BY PythonGrpcReceivesKeeps
  <2>3. \A h \in Handler : NatsReceives(h) \/ PythonGrpcStarts(h)
                             \/ RustGrpcReceives(h) \/ RustGrpcJoins(h) => (WorkerTypeOK /\ SlotsInv)'
    BY NatsReceivesKeeps, PythonGrpcStartsKeeps, RustGrpcReceivesKeeps, RustGrpcJoinsKeeps
  <2> QED
    BY <1>1, <2>1, <2>2, <2>3, ConnectKeeps, AcquireKeeps, FetchNothingKeeps, ConnectionLostKeeps,
       PythonGrpcStreamEndsKeeps, PythonGrpcStreamFailsKeeps DEF Session
<1>2. CASE Signal
  BY <1>2, SignalKeeps
<1>3. CASE Stop
  <2>1. RustPollsAgain \/ Drained \/ GraceExpires => (WorkerTypeOK /\ SlotsInv)'
    BY EndingKeeps DEF RustPollsAgain, Drained, GraceExpires, Over
  <2> QED
    BY <1>3, <2>1, RustSeesSignalKeeps DEF Stop
<1>4. CASE \E h \in Handler : Handle(h) \/ HeartbeatStops(h)
  BY <1>4, HandleKeeps, HeartbeatStopsKeeps
<1>5. CASE UNCHANGED vars
  <2>1. WorkerTypeOK'
    BY <1>5 DEF vars, loopVars, WorkerTypeOK
  <2>2. RetriesLeft' /\ SignalKept' /\ RoomToPull' /\ NoDebt' /\ (Counting' => Counting)
    BY <1>5 DEF vars, loopVars, SlotsInv, RetriesLeft, Connected, SignalKept, RoomToPull, NoDebt, Counting
  <2> QED
    BY <1>5, <2>1, <2>2, SamePlaceKeeps DEF vars, loopVars
<1> QED
  BY <1>1, <1>2, <1>3, <1>4, <1>5 DEF Next

(* Type correctness, and the slots of the semaphore in use: on no path is  *)
(* one created, and none is lost but by failed sessions of the Python NATS *)
(* worker.                                                                 *)
THEOREM WorkerInvariant == Spec => [](WorkerTypeOK /\ SlotsInv)
<1>1. Init => WorkerTypeOK /\ SlotsInv
  BY WorkerInit
<1>2. (WorkerTypeOK /\ SlotsInv) /\ [Next]_vars => (WorkerTypeOK /\ SlotsInv)'
  BY WorkerNext
<1> QED
  BY <1>1, <1>2, PTL DEF Spec

(* Every slot is free, held by the loop or held by an execution.           *)
THEOREM SlotsAccounted == Spec => []SlotsAreAccounted
<1>1. WorkerTypeOK /\ SlotsInv => SlotsAreAccounted
  <2> SUFFICES ASSUME WorkerTypeOK, SlotsInv, loop \in {"throttled", "pulling"}
               PROVE  IF sdk = "python nats" THEN Lost \in 0..failures ELSE Lost = 0
    BY DEF SlotsAreAccounted
  <2>1. LostOnlyByFailures
    BY DEF SlotsInv, FewLost, Counting
  <2>2. CASE sdk = "python nats"
    <3>1. Lost \in Int /\ failures \in 0..MaxRetries
      BY LostValue DEF WorkerTypeOK
    <3>2. 0 <= Lost /\ Lost <= failures
      BY <2>1, <2>2, <3>1 DEF LostOnlyByFailures, SlotsInv, NoneCreated
    <3>3. Lost \in 0..failures
      BY <3>1, <3>2, Parameters
    <3> QED
      BY <2>2, <3>3
  <2>3. CASE sdk # "python nats"
    BY <2>1, <2>3 DEF LostOnlyByFailures
  <2> QED
    BY <2>2, <2>3
<1> QED
  BY <1>1, WorkerInvariant, PTL

(* The limit of concurrent executions follows: what runs holds slots.      *)
THEOREM ConcurrencyBounded == Spec => []AtMostMaxConcurrent
<1>1. WorkerTypeOK /\ SlotsInv => AtMostMaxConcurrent
  <2> SUFFICES ASSUME WorkerTypeOK, SlotsInv, shutdown # "consumed"
               PROVE  Cardinality(IF sdk = "rust nats" THEN Busy ELSE Running) <= MaxConcurrent
    BY DEF AtMostMaxConcurrent
  <2>1. permits >= 0 /\ Lost >= 0
    BY DEF SlotsInv, NoDebt, NoneCreated
  <2>2. /\ Lost = MaxConcurrent - permits - Held - Cardinality(Busy)
        /\ Held \in {0, 1} /\ Cardinality(Busy) \in Nat /\ permits \in Int
    BY LostValue, BusyFinite DEF WorkerTypeOK
  <2>3. Cardinality(Busy) <= MaxConcurrent
    BY <2>1, <2>2, Parameters
  <2>4. CASE sdk = "rust nats"
    BY <2>3, <2>4
  <2>5. CASE sdk # "rust nats"
    <3>1. Running \subseteq Busy
      BY <2>5 DEF SlotsInv, OneSemaphore, AllCurrent, Busy, Running
    <3>2. Cardinality(Running) \in Nat /\ Cardinality(Running) <= Cardinality(Busy)
      BY <3>1, BusyFinite, FS_Subset, FS_CardinalityType
    <3>3. Cardinality(Running) <= MaxConcurrent
      BY <2>2, <2>3, <3>2, Parameters
    <3> QED
      BY <2>5, <3>3
  <2> QED
    BY <2>4, <2>5
<1> QED
  BY <1>1, WorkerInvariant, PTL

=============================================================================
