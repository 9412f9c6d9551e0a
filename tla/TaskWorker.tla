----------------------------- MODULE TaskWorker -----------------------------
(***************************************************************************)
(* A worker process: the loop that pulls tasks under a limit of concurrent *)
(* executions, reconnects and shuts down, and the handler that claims a    *)
(* task, executes its component beside a heartbeat loop and reports the    *)
(* result.  Four workers share the protocol: the Python and the Rust SDK,  *)
(* each over gRPC and over NATS (sdks/python/stepflow-py/.../worker and    *)
(* sdks/rust/crates/stepflow-worker/src).                                  *)
(*                                                                         *)
(* The orchestrator is the environment: it assigns any task at any time,   *)
(* the same one again after a retry, and answers each call with any of its *)
(* answers (PendingTasks models which one, and when).                      *)
(***************************************************************************)
EXTENDS Integers, FiniteSets

CONSTANTS
    Sdk,                \* the workers considered
    Task,               \* task ids
    Handler,            \* concurrent executions of handle_task
    None,
    MaxConcurrent,      \* max_concurrent
    MaxRetries,         \* max_retries: failures before a worker gives up
    ClaimTries,         \* calls of a Python worker to claim a task
    CompleteRetries     \* repetitions of CompleteTask by a Python worker

ASSUME WorkerAssumption ==
    /\ Sdk \subseteq {"python grpc", "python nats", "rust grpc", "rust nats"}
    /\ IsFiniteSet(Handler)
    /\ MaxConcurrent \in Nat \ {0} /\ MaxRetries \in Nat \ {0}
    /\ ClaimTries \in Nat \ {0} /\ CompleteRetries \in Nat

VARIABLES
    sdk,        \* the worker this is
    loop,       \* where the pull loop is
    received,   \* python grpc: the task that waits for a slot
    permits,    \* free slots of the semaphore; rust grpc: room in in_flight
    failures,   \* consecutive_failures
    connected,  \* python grpc: had_successful_connection
    shutdown,   \* the signal: "no", "sent", or "consumed" (the future is used up)
    handler     \* the executions

loopVars == <<loop, received, permits, failures, connected, shutdown>>
vars == <<sdk, loopVars, handler>>

Python == sdk \in {"python grpc", "python nats"}
Rust == sdk \in {"rust grpc", "rust nats"}
Nats == sdk \in {"python nats", "rust nats"}

(* A handler: its stage, its task (only _InFlightTasks asks for it), how   *)
(* often it has tried the current call, whether its heartbeat loop runs,   *)
(* whether _InFlightTasks lists it, and whether its slot belongs to the    *)
(* semaphore in use.                                                       *)
Idle == [stage |-> "idle", task |-> None, tries |-> 0, beating |-> FALSE,
         listed |-> FALSE, current |-> TRUE]
HandlerType ==
    [stage : {"idle", "claiming", "executing", "completing", "finished", "dead"},
     task : Task \union {None}, tries : Nat,
     beating : BOOLEAN, listed : BOOLEAN, current : BOOLEAN]

Running == {h \in Handler : handler[h].stage \in {"claiming", "executing", "completing"}}
Unreaped == {h \in Handler : handler[h].stage = "finished"}
Busy == {h \in Running \union Unreaped : handler[h].current}

Init ==
    /\ sdk \in Sdk
    /\ loop = "connecting"
    /\ received = None
    /\ permits = MaxConcurrent
    /\ failures = 0
    /\ connected = FALSE
    /\ shutdown = "no"
    /\ handler = [h \in Handler |-> Idle]

-----------------------------------------------------------------------------
(* The end of a process.  A Python worker takes everything with it; Rust   *)
(* drops its JoinSet, which aborts the handlers and detaches the heartbeat *)
(* loops they had spawned.                                                 *)
Abandoned(h) ==
    IF Rust /\ handler[h].beating THEN [handler[h] EXCEPT !.stage = "dead"] ELSE Idle
AbandonAll == handler' = [h \in Handler |-> Abandoned(h)]
Over == {"drained", "cut short", "gave up", "panicked"}

(* A failed session; one too many ends the worker, python grpc gracefully. *)
SessionFails ==
    /\ failures' = failures + 1
    /\ UNCHANGED <<sdk, received, permits, connected, shutdown>>
    /\ IF failures + 1 < MaxRetries THEN loop' = "connecting" /\ UNCHANGED handler
       ELSE IF sdk = "python grpc" THEN loop' = "draining" /\ UNCHANGED handler
       ELSE loop' = "gave up" /\ AbandonAll

(* Faulty variant, to test the properties: it waits one task too late.     *)
TurnLate(free) == IF sdk = "rust grpc" /\ free < 0 THEN "throttled" ELSE "pulling"

(* rust grpc: with in_flight full the loop waits for a task to end.        *)
Turn(free) == IF sdk = "rust grpc" /\ free <= 0 THEN "throttled" ELSE "pulling"

(* A semaphore is made by the process in Python, by each session in Rust.  *)
OldSession == [h \in Handler |-> [handler[h] EXCEPT !.current = FALSE]]

Connect ==
    /\ loop = "connecting"
    /\ loop' = IF Nats THEN "throttled"
               ELSE IF sdk = "python grpc" /\ shutdown = "sent" THEN "draining"
               ELSE Turn(permits)
    /\ failures' = IF sdk = "rust grpc" THEN 0 ELSE failures
    /\ IF sdk = "rust nats"
       THEN permits' = MaxConcurrent /\ handler' = OldSession
       ELSE UNCHANGED <<permits, handler>>
    /\ UNCHANGED <<sdk, received, connected, shutdown>>

(* A gRPC channel of the Python worker connects with its first call.       *)
ConnectFails ==
    /\ loop = "connecting" /\ sdk # "python grpc"
    /\ SessionFails

-----------------------------------------------------------------------------
(* NATS: a slot before a message.                                          *)
Acquire ==
    /\ Nats /\ loop = "throttled" /\ permits > 0
    /\ permits' = permits - 1
    /\ loop' = "pulling"
    /\ UNCHANGED <<sdk, received, failures, connected, shutdown, handler>>

(* No message in time, one that is no task or cannot be decoded, or a      *)
(* discovery task that Python answers beside the loop: the slot is free.   *)
FetchNothing ==
    /\ Nats /\ loop = "pulling"
    /\ permits' = permits + 1
    /\ loop' = "throttled"
    /\ UNCHANGED <<sdk, received, failures, connected, shutdown, handler>>

(* Fetching fails, or acknowledging in Python: the exception leaves the    *)
(* loop, and only a dropped Rust permit frees its slot.                    *)
FetchFails ==
    /\ Nats /\ loop = "pulling"
    /\ SessionFails

(* rust nats: an error in the stream of messages ends a good session.      *)
ConnectionLost ==
    /\ sdk = "rust nats" /\ loop = "pulling"
    /\ failures' = 0
    /\ loop' = "connecting"
    /\ UNCHANGED <<sdk, received, permits, connected, shutdown, handler>>

(* create_task or spawn; in_flight.register replaces the entry of an       *)
(* earlier execution of the same task (nothing ever unregisters, so the    *)
(* entries of ended executions stay and are waited for in vain).           *)
Started(h, t) ==
    [x \in Handler |->
        IF x = h THEN [Idle EXCEPT !.stage = "claiming", !.task = t,
                                   !.listed = (sdk = "python grpc")]
        ELSE IF handler[x].task = t THEN [handler[x] EXCEPT !.listed = FALSE]
        ELSE handler[x]]

FreeHandler(h) == handler[h].stage = "idle"

NatsReceives(h) ==
    /\ Nats /\ loop = "pulling" /\ FreeHandler(h)
    /\ handler' = Started(h, None)
    /\ loop' = "throttled"
    /\ UNCHANGED <<sdk, received, permits, failures, connected, shutdown>>

(* Faulty variant, to test the properties: nobody looks at the signal.     *)
PythonGrpcReceivesAnyway(t) ==
    /\ sdk = "python grpc" /\ loop = "pulling"
    /\ loop' = "throttled" /\ received' = t
    /\ UNCHANGED <<sdk, permits, failures, connected, shutdown, handler>>

(* python grpc: a task that arrives after the signal is dropped.           *)
PythonGrpcReceives(t) ==
    /\ sdk = "python grpc" /\ loop = "pulling"
    /\ IF shutdown = "sent" THEN loop' = "draining" /\ UNCHANGED received
       ELSE loop' = "throttled" /\ received' = t
    /\ UNCHANGED <<sdk, permits, failures, connected, shutdown, handler>>

PythonGrpcStarts(h) ==
    /\ sdk = "python grpc" /\ loop = "throttled"
    /\ permits > 0 /\ FreeHandler(h)
    /\ handler' = Started(h, received)
    /\ permits' = permits - 1
    /\ received' = None
    /\ loop' = "pulling"
    /\ UNCHANGED <<sdk, failures, connected, shutdown>>

PythonGrpcStreamEnds ==
    /\ sdk = "python grpc" /\ loop = "pulling"
    /\ failures' = 0
    /\ connected' = TRUE
    /\ loop' = "connecting"
    /\ UNCHANGED <<sdk, received, permits, shutdown, handler>>

(* After a good session an unreachable server is taken to be gone.         *)
PythonGrpcStreamFails ==
    /\ sdk = "python grpc" /\ loop = "pulling"
    /\ \/ shutdown = "no" /\ SessionFails
       \/ /\ shutdown = "sent" \/ connected
          /\ loop' = "draining"
          /\ UNCHANGED <<sdk, received, permits, failures, connected, shutdown, handler>>

RustGrpcReceives(h) ==
    /\ sdk = "rust grpc" /\ loop = "pulling" /\ FreeHandler(h)
    /\ handler' = Started(h, None)
    /\ failures' = 0
    /\ permits' = permits - 1
    /\ loop' = Turn(permits - 1)
    /\ UNCHANGED <<sdk, received, connected, shutdown>>

(* Faulty variant, to test the properties: nobody joins while throttled.   *)
JoinsWhilePulling(h) ==
    /\ sdk = "rust grpc" /\ loop = "pulling"
    /\ handler[h].stage = "finished"
    /\ handler' = [handler EXCEPT ![h] = Idle]
    /\ permits' = permits + 1
    /\ loop' = Turn(permits + 1)
    /\ UNCHANGED <<sdk, received, failures, connected, shutdown>>

(* join_next.                                                              *)
RustGrpcJoins(h) ==
    /\ sdk = "rust grpc" /\ loop \in {"throttled", "pulling"}
    /\ handler[h].stage = "finished"
    /\ handler' = [handler EXCEPT ![h] =
                     IF @.beating THEN [@ EXCEPT !.stage = "dead"] ELSE Idle]
    /\ permits' = permits + 1
    /\ loop' = Turn(permits + 1)
    /\ UNCHANGED <<sdk, received, failures, connected, shutdown>>

RustGrpcStreamEnds ==
    /\ sdk = "rust grpc" /\ loop = "pulling"
    /\ SessionFails

-----------------------------------------------------------------------------
(* Shutdown.  The Python NATS worker does not handle the signal.           *)
Signal ==
    /\ sdk # "python nats" /\ shutdown = "no" /\ loop \notin Over
    /\ shutdown' = "sent"
    /\ UNCHANGED <<sdk, loop, received, permits, failures, connected, handler>>

(* Rust waits for the signal in each select!.  The one that waits for room *)
(* in in_flight only leaves its own loop, having used the future up.       *)
RustSeesSignal ==
    /\ Rust /\ shutdown = "sent" /\ loop \in {"connecting", "throttled", "pulling"}
    /\ IF sdk = "rust grpc" /\ loop = "throttled"
       THEN shutdown' = "consumed" /\ loop' = "pulling"
       ELSE shutdown' = shutdown /\ loop' = "draining"
    /\ UNCHANGED <<sdk, received, permits, failures, connected, handler>>

(* Polling an async block again that has returned panics.                  *)
RustPollsAgain ==
    /\ shutdown = "consumed" /\ loop \in {"connecting", "throttled", "pulling"}
    /\ loop' = "panicked"
    /\ AbandonAll
    /\ UNCHANGED <<sdk, received, permits, failures, connected, shutdown>>

(* The executions that shutdown waits for.                                 *)
Awaited == {h \in Running : sdk = "python grpc" => handler[h].listed}

Drained ==
    /\ loop = "draining" /\ Awaited = {}
    /\ loop' = "drained"
    /\ AbandonAll
    /\ UNCHANGED <<sdk, received, permits, failures, connected, shutdown>>

GraceExpires ==
    /\ loop = "draining" /\ Awaited # {}
    /\ loop' = "cut short"
    /\ AbandonAll
    /\ UNCHANGED <<sdk, received, permits, failures, connected, shutdown>>

-----------------------------------------------------------------------------
(* handle_task, from its first await to its last.                          *)
(* The finally block in Python; in Rust the permit dropped, or the task    *)
(* left to be joined.                                                      *)
FreesSlot(h) ==
    permits' = IF sdk = "rust grpc" \/ ~handler[h].current THEN permits ELSE permits + 1

(* Faulty variant, to test the properties: no slot on this way out.        *)
ExitWithoutRelease(h) ==
    /\ UNCHANGED permits
    /\ handler' = [handler EXCEPT ![h] =
                     IF sdk = "rust grpc" THEN [Idle EXCEPT !.stage = "finished"] ELSE Idle]
    /\ UNCHANGED <<sdk, loop, received, failures, connected, shutdown>>

Exit(h) ==
    /\ FreesSlot(h)
    /\ handler' = [handler EXCEPT ![h] =
                     IF sdk = "rust grpc" THEN [Idle EXCEPT !.stage = "finished"] ELSE Idle]
    /\ UNCHANGED <<sdk, loop, received, failures, connected, shutdown>>

Moves(h, record) ==
    /\ handler' = [handler EXCEPT ![h] = record]
    /\ UNCHANGED <<sdk, loopVars>>

(* The first heartbeat is the claim; once it is accepted the heartbeat     *)
(* loop runs beside the component.                                         *)
ClaimAccepted(h) ==
    /\ handler[h].stage = "claiming"
    /\ Moves(h, [handler[h] EXCEPT !.stage = "executing", !.tries = 0, !.beating = TRUE])

(* should_abort in Python, ALREADY_CLAIMED in Rust, or an error: the task  *)
(* is left to the orchestrator.                                            *)
ClaimRefused(h) ==
    /\ handler[h].stage = "claiming"
    /\ Exit(h)

(* UNAVAILABLE: the run is being recovered; Python asks again.             *)
ClaimUnavailable(h) ==
    /\ Python /\ handler[h].stage = "claiming"
    /\ handler[h].tries + 1 < ClaimTries
    /\ Moves(h, [handler[h] EXCEPT !.tries = @ + 1])

(* The heartbeat loop of Python ends at should_abort or an error other     *)
(* than UNAVAILABLE, and the component goes on; that of Rust never ends.   *)
HeartbeatStops(h) ==
    /\ Python /\ handler[h].beating
    /\ Moves(h, [handler[h] EXCEPT !.beating = FALSE])

(* A result, or an error that is reported like one.                        *)
ComponentReturns(h) ==
    /\ handler[h].stage = "executing"
    /\ Moves(h, [handler[h] EXCEPT !.stage = "completing", !.beating = Python /\ @])

(* A panic unwinds handle_task, drops the handle of the heartbeat loop and *)
(* with it the way to stop it.                                             *)
ComponentPanics(h) ==
    /\ Rust /\ handler[h].stage = "executing"
    /\ FreesSlot(h)
    /\ handler' = [handler EXCEPT ![h].stage =
                     IF sdk = "rust grpc" THEN "finished" ELSE "dead"]
    /\ UNCHANGED <<sdk, loop, received, failures, connected, shutdown>>

(* CompleteTask: delivered, no longer wanted, or given up.                 *)
Completed(h) ==
    /\ handler[h].stage = "completing"
    /\ Exit(h)

CompleteUnavailable(h) ==
    /\ Python /\ handler[h].stage = "completing"
    /\ handler[h].tries < CompleteRetries
    /\ Moves(h, [handler[h] EXCEPT !.tries = @ + 1])

-----------------------------------------------------------------------------
Session ==
    \/ Connect \/ ConnectFails
    \/ Acquire \/ FetchNothing \/ FetchFails \/ ConnectionLost
    \/ PythonGrpcStreamEnds \/ PythonGrpcStreamFails \/ RustGrpcStreamEnds
    \/ \E t \in Task : PythonGrpcReceives(t)
    \/ \E h \in Handler : \/ NatsReceives(h) \/ PythonGrpcStarts(h)
                            \/ RustGrpcReceives(h) \/ RustGrpcJoins(h)
Stop == RustSeesSignal \/ RustPollsAgain \/ Drained \/ GraceExpires
Handle(h) ==
    \/ ClaimAccepted(h) \/ ClaimRefused(h) \/ ClaimUnavailable(h)
    \/ ComponentReturns(h) \/ ComponentPanics(h)
    \/ Completed(h) \/ CompleteUnavailable(h)

Next ==
    \/ Session \/ Signal \/ Stop
    \/ \E h \in Handler : Handle(h) \/ HeartbeatStops(h)

(* The event loop is fair to what can run: a waiting loop that has a slot, *)
(* a task that ended, a signal, a pause before the next session.           *)
(* Components return and calls are answered.  Nobody promises a worker     *)
(* tasks, or that a stream or a session ends.                              *)
Spec ==
    /\ Init /\ [][Next]_vars
    /\ WF_vars(sdk = "python grpc" /\ Connect)
    /\ WF_vars(Acquire)
    /\ WF_vars(\E h \in Handler : PythonGrpcStarts(h) \/ RustGrpcJoins(h))
    /\ WF_vars(Stop)
    /\ \A h \in Handler : WF_vars(Handle(h))

-----------------------------------------------------------------------------
WorkerTypeOK ==
    /\ sdk \in Sdk
    /\ loop \in {"connecting", "throttled", "pulling", "draining"} \union Over
    /\ received \in Task \union {None}
    /\ permits \in Int
    /\ failures \in 0..MaxRetries
    /\ connected \in BOOLEAN
    /\ shutdown \in {"no", "sent", "consumed"}
    /\ handler \in [Handler -> HandlerType]

(* Every slot of the limit is free, held by the loop that is about to pull *)
(* or held by an execution, on every path through errors, retries, panics  *)
(* and reconnects; the Python NATS worker loses at most one with each      *)
(* failed session.                                                         *)
Held == IF Nats /\ loop = "pulling" THEN 1 ELSE 0
Lost == MaxConcurrent - permits - Held - Cardinality(Busy)
SlotsAreAccounted ==
    loop \in {"throttled", "pulling"} =>
        IF sdk = "python nats" THEN Lost \in 0..failures ELSE Lost = 0

(* max_concurrent limits the executions: of one session over NATS in Rust, *)
(* where each session has a semaphore of its own; before the signal to     *)
(* stop over gRPC in Rust, where the loop no longer waits after it.        *)
AtMostMaxConcurrent ==
    shutdown # "consumed" =>
        Cardinality(IF sdk = "rust nats" THEN Busy ELSE Running) <= MaxConcurrent

(* A worker that is told to stop does: wherever the signal meets it,       *)
(* pausing between sessions, waiting for a slot with a task in hand or for *)
(* room while its executions go on, even after the future of the signal    *)
(* has been used up, and whatever failures, reconnections and panics       *)
(* follow.  The exception is the Python gRPC worker, which looks for the   *)
(* signal only when its stream gives it something: on a silent stream it   *)
(* stays for ever.                                                         *)
OnSilentStream == sdk = "python grpc" /\ loop = "pulling"
SignalStopsWorker == shutdown # "no" ~> (loop \in Over \/ []OnSilentStream)

(* A loop that waits for a slot gets one, unless the Python NATS worker    *)
(* has lost them all.                                                      *)
WorkerKeepsPulling == loop = "throttled" /\ Lost < MaxConcurrent ~> loop # "throttled"
=============================================================================
