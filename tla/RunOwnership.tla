---------------------------- MODULE RunOwnership ----------------------------
(***************************************************************************)
(* Which orchestrator executes a root run: submission                      *)
(* (stepflow-execution/src/executor.rs), the executors of a process and    *)
(* ActiveExecutions, claiming and recovery (recovery.rs), the background   *)
(* loops (stepflow-server/src/orphan_recovery.rs, bin/main.rs), and the    *)
(* etcd lease manager (stepflow-state-etcd/src/lib.rs).                    *)
(*                                                                         *)
(* Every call that awaits the lease manager, the metadata store or the     *)
(* journal is a step of its own, so that everything else runs in between.  *)
(* What happens inside an execution is FlowExecutor's; here an executor    *)
(* runs, appends RunCompleted, writes the status, and gives up its lease.  *)
(***************************************************************************)
EXTENDS Naturals, Sequences, FiniteSets, FiniteSetsExt

CONSTANTS
    Node,           \* orchestrators, by their deterministic ids
    Run,            \* root runs
    Ingress,        \* the orchestrators that clients submit runs to
    None,           \* no node, no session, no run
    MaxClaims,      \* max_claims_per_check and max_startup_recovery
    FaultPlans      \* bounds the faults: each plan has those that may come, in turn

(* A process crashes, loses its lease while it lives or is stopped; or a   *)
(* submission, an executor or the recovery of a tree fails.                *)
Fault == {"crash", "expiry", "release", "submission", "execution", "recovery"}

ASSUME OwnershipAssumption ==
    /\ None \notin Node \union Run /\ None \notin Node \X Nat
    /\ Ingress \subseteq Node
    /\ IsFiniteSet(Run)
    /\ MaxClaims \in Nat \ {0}
    /\ FaultPlans \subseteq Seq(Fault)

VARIABLES
    status,         \* metadata: "none", "Running", "Completed" or "Failed"
    orchestrator,   \* metadata: orchestrator_id of a run, or None (NULL)
    journal,        \* journal of a run: "none", "created" or "ended"
    sessions,       \* etcd leases that are alive
    key,            \* etcd: the lease the key of a run hangs on, or None
    heartbeats,     \* etcd: the leases that heartbeat keys hang on
    phase,          \* of a process: "booting", "up", "stopping" or "down"
    epoch,          \* how often a process has been started
    connected,      \* whether a process has been granted its lease
    submission,     \* of a run: where submit_run is, on which node
    active,         \* ActiveExecutions of a process
    marks,          \* ActiveRecoveries of a process
    executors,      \* the spawned executors
    recovery,       \* recover_orphaned_runs of a process
    sweep,          \* heartbeat_loop of a process
    unprotected,    \* history: runs that lost the protection of their lease
    faults          \* the faults that are still to come

store == <<status, orchestrator, journal>>
etcd == <<sessions, key, heartbeats>>
process == <<phase, epoch, connected, active, marks>>
vars == <<store, etcd, process, submission, executors, recovery, sweep, unprotected, faults>>

(* An etcd lease belongs to one process.                                   *)
Session == Node \X Nat
Of(n) == <<n, epoch[n]>>

Running(n) == phase[n] \in {"booting", "up"}

NotSubmitted == [at |-> "none", node |-> None]
Idle == [at |-> "idle", todo |-> {}, orphans |-> {}, claimed |-> {}, run |-> None, owner |-> None]

(* The orchestrators are up and have found nothing to recover.             *)
Init ==
    /\ status = [r \in Run |-> "none"]
    /\ orchestrator = [r \in Run |-> None]
    /\ journal = [r \in Run |-> "none"]
    /\ sessions = {<<n, 0>> : n \in Node}
    /\ key = [r \in Run |-> None]
    /\ heartbeats = sessions
    /\ phase = [n \in Node |-> "up"]
    /\ epoch = [n \in Node |-> 0]
    /\ connected = [n \in Node |-> TRUE]
    /\ submission = [r \in Run |-> NotSubmitted]
    /\ active = [n \in Node |-> {}]
    /\ marks = [n \in Node |-> {}]
    /\ executors = {}
    /\ recovery = [n \in Node |-> Idle]
    /\ sweep = [n \in Node |-> None]
    /\ unprotected = {}
    /\ faults \in FaultPlans

Happens(kind) ==
    /\ faults # <<>> /\ Head(faults) = kind
    /\ faults' = Tail(faults)

-----------------------------------------------------------------------------
(* The lease manager.                                                      *)

(* ensure_lease: granted once per process, and then cached for good.       *)
Granted(n) == IF connected[n] THEN sessions ELSE sessions \union {Of(n)}

EnsureLease(n) ==
    /\ sessions' = Granted(n)
    /\ connected' = [connected EXCEPT ![n] = TRUE]

(* The transaction of acquire_lease.  A put on a lease that has expired is *)
(* refused.                                                                *)
AcquireOutcome(n, r) ==
    CASE key[r] = None /\ Of(n) \in Granted(n) -> "acquired"
      [] key[r] = None /\ Of(n) \notin Granted(n) -> "error"
      [] key[r] # None /\ key[r][1] = n -> "mine"
      [] OTHER -> "theirs"

TryAcquire(n, r) ==
    /\ EnsureLease(n)
    /\ key' = IF AcquireOutcome(n, r) = "acquired" THEN [key EXCEPT ![r] = Of(n)] ELSE key
    /\ UNCHANGED heartbeats

(* Faulty variant, to test the properties: the key stays on the old lease. *)
OverwriteKeepingLease(n, r) ==
    /\ UNCHANGED <<key, unprotected, sessions, heartbeats, connected>>

(* The second write of acquire_lease, for a key that was found to be the   *)
(* caller's: it does not look again.                                       *)
Overwrite(n, r) ==
    /\ key' = IF Of(n) \in sessions THEN [key EXCEPT ![r] = Of(n)] ELSE key
    /\ unprotected' = IF Of(n) \in sessions /\ key[r] # None /\ key[r][1] # n
                      THEN unprotected \union {r} ELSE unprotected
    /\ UNCHANGED <<sessions, heartbeats, connected>>

(* list_orchestrators.                                                     *)
ListOrchestrators(beats) ==
    {l[1] : l \in beats} \union {key[r][1] : r \in {q \in Run : key[q] # None}}

(* A lease ends, and what hangs on it goes: a process that is gone no      *)
(* longer keeps it alive, or a live one fails to in time (a fault).        *)
EndSession(l) ==
    /\ sessions' = sessions \ {l}
    /\ key' = [r \in Run |-> IF key[r] = l THEN None ELSE key[r]]
    /\ heartbeats' = heartbeats \ {l}

Abandoned(l) == phase[l[1]] = "down" \/ l # Of(l[1])

ExpireSession(l) ==
    /\ EndSession(l)
    /\ IF Abandoned(l) THEN UNCHANGED faults ELSE Happens("expiry")
    /\ UNCHANGED <<store, process, submission, executors, recovery, sweep, unprotected>>

-----------------------------------------------------------------------------
(* submit_run.                                                             *)
Submitting(r) == submission[r].at \in {"journalled", "created", "overwriting", "leased"}

At(r, n, step) == submission[r] = [at |-> step, node |-> n] /\ Running(n)
GoTo(r, step) == submission' = [submission EXCEPT ![r].at = step]

(* RootRunCreated is journalled first.                                     *)
JournalRun(r, n) ==
    /\ submission[r] = NotSubmitted
    /\ n \in Ingress /\ Running(n)
    /\ submission' = [submission EXCEPT ![r] = [at |-> "journalled", node |-> n]]
    /\ journal' = [journal EXCEPT ![r] = "created"]
    /\ UNCHANGED <<status, orchestrator, etcd, process, executors, recovery, sweep,
                   unprotected, faults>>

CreateRun(r, n) ==
    /\ At(r, n, "journalled")
    /\ GoTo(r, "created")
    /\ status' = [status EXCEPT ![r] = "Running"]
    /\ orchestrator' = [orchestrator EXCEPT ![r] = n]
    /\ UNCHANGED <<journal, etcd, process, executors, recovery, sweep, unprotected, faults>>

(* Any answer lets the submission go on.                                   *)
SubmitAcquire(r, n) ==
    /\ At(r, n, "created")
    /\ TryAcquire(n, r)
    /\ GoTo(r, IF AcquireOutcome(n, r) = "mine" THEN "overwriting" ELSE "leased")
    /\ UNCHANGED <<store, phase, epoch, active, marks, executors, recovery, sweep,
                   unprotected, faults>>

SubmitOverwrite(r, n) ==
    /\ At(r, n, "overwriting")
    /\ Overwrite(n, r)
    /\ GoTo(r, "leased")
    /\ UNCHANGED <<store, phase, epoch, active, marks, executors, recovery, sweep, faults>>

(* ActiveExecutions::spawn: the handle replaces another of the same run.   *)
FreshId(r, n) ==
    CHOOSE k \in 1..(Cardinality(executors) + 1) :
        \A e \in executors : e.node = n /\ e.run = r => e.id # k

Spawn(r, n, gated) ==
    /\ executors' = executors \union
         {[node |-> n, run |-> r, id |-> FreshId(r, n), gated |-> gated, at |-> "running"]}
    /\ active' = [active EXCEPT ![n] = @ \union {r}]

SubmitSpawn(r, n) ==
    /\ At(r, n, "leased")
    /\ Spawn(r, n, FALSE)
    /\ GoTo(r, "done")
    /\ UNCHANGED <<store, etcd, phase, epoch, connected, marks, recovery, sweep,
                   unprotected, faults>>

(* Overrides or the builder fail: the run is failed.                       *)
SubmitFails(r, n) ==
    /\ At(r, n, "leased")
    /\ Happens("submission")
    /\ GoTo(r, "done")
    /\ status' = [status EXCEPT ![r] = "Failed"]
    /\ UNCHANGED <<orchestrator, journal, etcd, process, executors, recovery, sweep, unprotected>>

-----------------------------------------------------------------------------
(* FlowExecutor::spawn.                                                    *)
Become(e, f) == executors' = (executors \ {e}) \union {f}

(* Faulty variant, to test the properties: the mark is not removed.        *)
FirstEventKeepingMark(e) ==
    /\ e.at = "running" /\ e.gated
    /\ Become(e, [e EXCEPT !.gated = FALSE])
    /\ UNCHANGED <<store, etcd, process, submission, recovery, sweep, unprotected, faults>>

(* The first event clears the recovery gate.                               *)
FirstEvent(e) ==
    /\ e.at = "running" /\ e.gated
    /\ Become(e, [e EXCEPT !.gated = FALSE])
    /\ marks' = [marks EXCEPT ![e.node] = @ \ {e.run}]
    /\ UNCHANGED <<store, etcd, phase, epoch, connected, active, submission, recovery, sweep,
                   unprotected, faults>>

(* The run ends: in the journal, then in the metadata.                     *)
JournalEnd(e) ==
    /\ e.at = "running"
    /\ Become(e, [e EXCEPT !.at = "ended"])
    /\ journal' = [journal EXCEPT ![e.run] = "ended"]
    /\ UNCHANGED <<status, orchestrator, etcd, process, submission, recovery, sweep,
                   unprotected, faults>>

UpdateStatus(e) ==
    /\ e.at = "ended"
    /\ Become(e, [e EXCEPT !.at = "over"])
    /\ status' = [status EXCEPT ![e.run] = "Completed"]
    /\ UNCHANGED <<orchestrator, journal, etcd, process, submission, recovery, sweep,
                   unprotected, faults>>

(* execute_to_completion returns an error, such as one of the journal.     *)
ExecutorFails(e) ==
    /\ e.at = "running"
    /\ Happens("execution")
    /\ Become(e, [e EXCEPT !.at = "over"])
    /\ UNCHANGED <<store, etcd, process, submission, recovery, sweep, unprotected>>

(* The task of ActiveExecutions ends.                                      *)
Leave(e) ==
    /\ executors' = executors \ {e}
    /\ active' = [active EXCEPT ![e.node] = @ \ {e.run}]

(* The gate is cleared in any case.  release_lease reads the key and gives *)
(* up if it is another's.                                                  *)
ReadLease(e) ==
    /\ e.at = "over"
    /\ marks' = [marks EXCEPT ![e.node] = IF e.gated THEN @ \ {e.run} ELSE @]
    /\ IF key[e.run] # None /\ key[e.run][1] # e.node THEN Leave(e)
       ELSE Become(e, [e EXCEPT !.gated = FALSE, !.at = "deleting"]) /\ UNCHANGED active
    /\ UNCHANGED <<store, etcd, phase, epoch, connected, submission, recovery, sweep,
                   unprotected, faults>>

(* It then deletes the key, whoever has it by now; a claim of this process *)
(* that came in between loses it.                                          *)
Claiming(n, r) == r \in recovery[n].claimed \/ recovery[n].run = r

DeleteLease(e) ==
    /\ e.at = "deleting"
    /\ key' = [key EXCEPT ![e.run] = None]
    /\ unprotected' = IF Claiming(e.node, e.run) \/ (key[e.run] # None /\ key[e.run][1] # e.node)
                      THEN unprotected \union {e.run} ELSE unprotected
    /\ Leave(e)
    /\ UNCHANGED <<store, sessions, heartbeats, phase, epoch, connected, marks, submission,
                   recovery, sweep, faults>>

-----------------------------------------------------------------------------
(* recover_orphaned_runs, at startup and in orphan_claiming_loop.          *)
AtRecovery(n, step) == recovery[n].at = step /\ Running(n)
SetRecovery(n, rec) == recovery' = [recovery EXCEPT ![n] = rec]

(* The next execution tree is marked before anything of it is read; after  *)
(* the last one, and after the first pass startup_pending is cleared and   *)
(* the loops start.                                                        *)
RecoverTrees(n, trees, marked) ==
    IF trees = {}
    THEN /\ SetRecovery(n, Idle)
         /\ phase' = [phase EXCEPT ![n] = "up"]
         /\ marks' = [marks EXCEPT ![n] = marked]
    ELSE /\ \E r \in trees :
              /\ SetRecovery(n, [Idle EXCEPT !.at = "marked", !.todo = trees \ {r}, !.run = r])
              /\ marks' = [marks EXCEPT ![n] = marked \union {r}]
         /\ UNCHANGED phase

(* Faulty variant, to test the properties: active runs are not left out.   *)
GoOnUnfiltered(n, rec) ==
    IF rec.todo # {}
    THEN /\ SetRecovery(n, [rec EXCEPT !.at = "claiming", !.run = None, !.owner = None])
         /\ UNCHANGED <<phase, marks>>
    ELSE RecoverTrees(n, rec.claimed, marks[n])

(* Of the runs that were claimed, those that this process executes already *)
(* are left out.                                                           *)
GoOn(n, rec) ==
    IF rec.todo # {}
    THEN /\ SetRecovery(n, [rec EXCEPT !.at = "claiming", !.run = None, !.owner = None])
         /\ UNCHANGED <<phase, marks>>
    ELSE RecoverTrees(n, rec.claimed \ active[n], marks[n])

(* list_runs: at most limit runs.                                          *)
Listed(S, limit) == kSubset(IF Cardinality(S) < limit THEN Cardinality(S) ELSE limit, S)

RunningRuns(owner) == {r \in Run : status[r] = "Running" /\ orchestrator[r] = owner}

(* Faulty variant, to test the properties: only orphans are looked for.    *)
ListOrphansOnly(n) ==
    /\ AtRecovery(n, "idle")
    /\ phase[n] = "booting" \/ RunningRuns(None) # {}
    /\ \E orphans \in Listed(RunningRuns(None), MaxClaims) :
         GoOn(n, [Idle EXCEPT !.todo = orphans, !.orphans = orphans])
    /\ UNCHANGED <<store, etcd, epoch, connected, active, submission, executors, sweep,
                   unprotected, faults>>

(* The runs of this node come first, then orphans up to the limit.  (The   *)
(* two queries are one step: a run that becomes an orphan between them may *)
(* be listed or not either way.)                                           *)
ListRuns(n) ==
    /\ AtRecovery(n, "idle")
    /\ phase[n] = "booting" \/ RunningRuns(n) \union RunningRuns(None) # {}
    /\ \E own \in Listed(RunningRuns(n), MaxClaims) :
         \E orphans \in Listed(RunningRuns(None), MaxClaims - Cardinality(own)) :
           GoOn(n, [Idle EXCEPT !.todo = own \union orphans, !.orphans = orphans])
    /\ UNCHANGED <<store, etcd, epoch, connected, active, submission, executors, sweep,
                   unprotected, faults>>

(* acquire_lease for one of them.  This is what lets a run lose its        *)
(* protection if it is met in submission.                                  *)
Without(n, r) == [recovery[n] EXCEPT !.todo = @ \ {r}]

Owned(n, rec, r) ==
    IF r \in rec.orphans
    THEN /\ SetRecovery(n, [rec EXCEPT !.at = "adopting", !.run = r])
         /\ UNCHANGED <<phase, marks>>
    ELSE GoOn(n, [rec EXCEPT !.claimed = @ \union {r}])

Claim(n, r) ==
    /\ AtRecovery(n, "claiming")
    /\ r \in recovery[n].todo
    /\ TryAcquire(n, r)
    /\ LET outcome == AcquireOutcome(n, r)
           rest == Without(n, r)
       IN  /\ CASE outcome = "acquired" -> Owned(n, rest, r)
                [] outcome = "error" -> GoOn(n, rest)
                [] OTHER ->
                     /\ SetRecovery(n, [rest EXCEPT
                          !.at = IF outcome = "mine" THEN "overwriting" ELSE "healing",
                          !.run = r, !.owner = key[r][1]])
                     /\ UNCHANGED <<phase, marks>>
           /\ unprotected' = IF outcome \in {"acquired", "mine"} /\ Submitting(r)
                             THEN unprotected \union {r} ELSE unprotected
    /\ UNCHANGED <<store, epoch, active, submission, executors, sweep, faults>>

ClaimOverwrite(n) ==
    /\ AtRecovery(n, "overwriting")
    /\ Overwrite(n, recovery[n].run)
    /\ IF Of(n) \in sessions THEN Owned(n, recovery[n], recovery[n].run)
       ELSE GoOn(n, recovery[n])
    /\ UNCHANGED <<store, epoch, active, submission, executors, sweep, faults>>

(* update_run_orchestrator, for a run that was an orphan...                *)
Adopt(n) ==
    /\ AtRecovery(n, "adopting")
    /\ orchestrator' = [orchestrator EXCEPT ![recovery[n].run] = n]
    /\ GoOn(n, [recovery[n] EXCEPT !.claimed = @ \union {recovery[n].run}])
    /\ UNCHANGED <<status, journal, etcd, epoch, connected, active, submission, executors, sweep,
                   unprotected, faults>>

(* ... or for one whose lease another node has.                            *)
Heal(n) ==
    /\ AtRecovery(n, "healing")
    /\ orchestrator' = [orchestrator EXCEPT ![recovery[n].run] = recovery[n].owner]
    /\ GoOn(n, recovery[n])
    /\ UNCHANGED <<status, journal, etcd, epoch, connected, active, submission, executors, sweep,
                   unprotected, faults>>

(* recover_execution_tree reads the checkpoint and the journal.            *)
Replay(n) ==
    /\ AtRecovery(n, "marked")
    /\ SetRecovery(n, [recovery[n] EXCEPT
         !.at = IF journal[recovery[n].run] = "ended" THEN "syncing" ELSE "replayed"])
    /\ UNCHANGED <<store, etcd, process, submission, executors, sweep, unprotected, faults>>

(* The run had ended: the metadata is made to say so; the mark stays.      *)
SyncStatus(n) ==
    /\ AtRecovery(n, "syncing")
    /\ status' = [status EXCEPT ![recovery[n].run] = "Completed"]
    /\ RecoverTrees(n, recovery[n].todo, marks[n])
    /\ UNCHANGED <<orchestrator, journal, etcd, epoch, connected, active, submission, executors,
                   sweep, unprotected, faults>>

RecoverySpawn(n) ==
    /\ AtRecovery(n, "replayed")
    /\ Spawn(recovery[n].run, n, TRUE)
    /\ RecoverTrees(n, recovery[n].todo, marks[n])
    /\ UNCHANGED <<store, etcd, epoch, connected, submission, sweep, unprotected, faults>>

(* A tree that cannot be recovered is failed, and no longer marked.        *)
RecoveryFails(n) ==
    /\ AtRecovery(n, "replayed")
    /\ Happens("recovery")
    /\ status' = [status EXCEPT ![recovery[n].run] = "Failed"]
    /\ SetRecovery(n, [recovery[n] EXCEPT !.at = "failed"])
    /\ UNCHANGED <<orchestrator, journal, etcd, process, submission, executors, sweep, unprotected>>

Unmark(n) ==
    /\ AtRecovery(n, "failed")
    /\ RecoverTrees(n, recovery[n].todo, marks[n] \ {recovery[n].run})
    /\ UNCHANGED <<store, etcd, epoch, connected, active, submission, executors, sweep,
                   unprotected, faults>>

-----------------------------------------------------------------------------
(* heartbeat_loop: keep the lease alive and list who is there, ...         *)
Heartbeat(n) ==
    /\ phase[n] = "up"
    /\ sweep[n] = None
    /\ EnsureLease(n)
    /\ heartbeats' = IF Of(n) \in Granted(n)
                     THEN {l \in heartbeats : l[1] # n} \union {Of(n)} ELSE heartbeats
    /\ sweep' = [sweep EXCEPT ![n] = ListOrchestrators(heartbeats')]
    /\ UNCHANGED <<store, key, phase, epoch, active, marks, submission, executors, recovery,
                   unprotected, faults>>

(* ... and take the runs of everyone else from them.                       *)
OrphanStaleRuns(n) ==
    /\ phase[n] = "up"
    /\ sweep[n] # None
    /\ orchestrator' = [r \in Run |->
         IF status[r] = "Running" /\ orchestrator[r] \notin sweep[n] THEN None
         ELSE orchestrator[r]]
    /\ sweep' = [sweep EXCEPT ![n] = None]
    /\ UNCHANGED <<status, journal, etcd, process, submission, executors, recovery,
                   unprotected, faults>>

-----------------------------------------------------------------------------
(* What a process holds in memory is lost when it ends.                    *)
LoseMemory(n) ==
    /\ phase' = [phase EXCEPT ![n] = "down"]
    /\ active' = [active EXCEPT ![n] = {}]
    /\ marks' = [marks EXCEPT ![n] = {}]
    /\ executors' = {e \in executors : e.node # n}
    /\ submission' = [r \in Run |->
         IF submission[r].node = n /\ Submitting(r)
         THEN [submission[r] EXCEPT !.at = "done"] ELSE submission[r]]
    /\ recovery' = [recovery EXCEPT ![n] = Idle]
    /\ sweep' = [sweep EXCEPT ![n] = None]
    /\ UNCHANGED <<store, epoch, connected>>

Crash(n) ==
    /\ Running(n)
    /\ Happens("crash")
    /\ LoseMemory(n)
    /\ UNCHANGED <<etcd, unprotected>>

(* A graceful shutdown: calls and loops are over, release_all revokes the  *)
(* lease; the executors run on until the process exits.                    *)
ReleaseAll(n) ==
    /\ phase[n] = "up"
    /\ recovery[n] = Idle /\ sweep[n] = None
    /\ \A r \in Run : ~(submission[r].node = n /\ Submitting(r))
    /\ Happens("release")
    /\ phase' = [phase EXCEPT ![n] = "stopping"]
    /\ EndSession(Of(n))
    /\ UNCHANGED <<store, epoch, connected, active, marks, submission, executors, recovery, sweep,
                   unprotected>>

Exit(n) ==
    /\ phase[n] = "stopping"
    /\ LoseMemory(n)
    /\ UNCHANGED <<etcd, unprotected, faults>>

(* The gate of the startup recovery is set before the process serves.      *)
Restart(n) ==
    /\ phase[n] = "down"
    /\ phase' = [phase EXCEPT ![n] = "booting"]
    /\ epoch' = [epoch EXCEPT ![n] = @ + 1]
    /\ connected' = [connected EXCEPT ![n] = FALSE]
    /\ UNCHANGED <<store, etcd, active, marks, submission, executors, recovery, sweep,
                   unprotected, faults>>

-----------------------------------------------------------------------------
Submit(r, n) ==
    JournalRun(r, n) \/ CreateRun(r, n) \/ SubmitAcquire(r, n) \/ SubmitOverwrite(r, n)
    \/ SubmitSpawn(r, n)

Execute(e) ==
    FirstEvent(e) \/ JournalEnd(e) \/ UpdateStatus(e) \/ ReadLease(e) \/ DeleteLease(e)

RecoverRuns(n) ==
    \/ ListRuns(n)
    \/ \E r \in Run : Claim(n, r)
    \/ ClaimOverwrite(n) \/ Adopt(n) \/ Heal(n)
    \/ Replay(n) \/ SyncStatus(n) \/ RecoverySpawn(n) \/ Unmark(n)

Sweep(n) == Heartbeat(n) \/ OrphanStaleRuns(n)

Next ==
    \/ \E r \in Run, n \in Node : Submit(r, n) \/ SubmitFails(r, n)
    \/ \E e \in executors : Execute(e) \/ ExecutorFails(e)
    \/ \E n \in Node : RecoverRuns(n) \/ RecoveryFails(n) \/ Sweep(n)
    \/ \E l \in sessions : ExpireSession(l)
    \/ \E n \in Node : Crash(n) \/ ReleaseAll(n) \/ Exit(n) \/ Restart(n)

(* The executors and the two loops of a live process run, a lease nobody   *)
(* keeps alive expires, and a process that is stopping or down is started  *)
(* again.  A submission may hang: the recovery of its process finds its    *)
(* run.  (Each subscript names what every step of its action changes.)     *)
ProcessesEnd ==
    \/ \E l \in sessions : Abandoned(l) /\ ExpireSession(l)
    \/ \E n \in Node : Exit(n) \/ Restart(n)

Fairness ==
    /\ WF_executors(\E e \in executors : Execute(e))
    /\ WF_<<sessions, phase>>(ProcessesEnd)
    /\ \A n \in Node : WF_<<recovery, phase>>(RecoverRuns(n)) /\ WF_sweep(Sweep(n))

Spec == Init /\ [][Next]_vars /\ Fairness

-----------------------------------------------------------------------------
OwnershipTypeOK ==
    /\ status \in [Run -> {"none", "Running", "Completed", "Failed"}]
    /\ orchestrator \in [Run -> Node \union {None}]
    /\ journal \in [Run -> {"none", "created", "ended"}]
    /\ sessions \subseteq Session /\ heartbeats \subseteq sessions
    /\ key \in [Run -> sessions \union {None}]
    /\ phase \in [Node -> {"booting", "up", "stopping", "down"}]
    /\ active \in [Node -> SUBSET Run] /\ marks \in [Node -> SUBSET Run]
    /\ unprotected \subseteq Run
    /\ faults \in Seq(Fault)

(* The executors that have still to end their run.                         *)
ExecutorsOf(r) == {e \in executors : e.run = r /\ e.at \in {"running", "ended"}}

(* Of the processes whose etcd lease is alive, one executes a run, unless  *)
(* the run lost the protection of its key.                                 *)
HasSession(n) == Of(n) \in sessions

ProtectedRunsHaveOneExecutor ==
    \A r \in Run \ unprotected :
        Cardinality({e \in ExecutorsOf(r) : HasSession(e.node)}) <= 1

(* While it runs it holds the lease, although claims by its own process,   *)
(* the release by an executor that failed, and the expiry of a lease of an *)
(* earlier incarnation all touch the same key.                             *)
ExecutorHoldsLease ==
    \A e \in executors :
        e.at = "running" /\ e.run \notin unprotected /\ HasSession(e.node)
            => key[e.run] # None /\ key[e.run][1] = e.node

(* From before its journal is read until its recovered executor has        *)
(* processed an event, a run is marked, so that workers are told to try    *)
(* again and not that their task is unknown; and then the mark goes, or    *)
(* they are told so for ever.  (The mark of a run that had ended before    *)
(* its recovery stays.)                                                    *)
BeingRecovered(n, r) ==
    \/ recovery[n].run = r /\ recovery[n].at \in {"marked", "replayed", "syncing"}
    \/ \E e \in executors : e.node = n /\ e.run = r /\ e.gated

MarksFollowRecovery ==
    \A n \in Node : \A r \in Run \ unprotected :
        /\ BeingRecovered(n, r) => r \in marks[n]
        /\ r \in marks[n] => BeingRecovered(n, r) \/ recovery[n].run = r \/ journal[r] = "ended"

(* A run that has been created ends, whatever process fails or loses its   *)
(* lease, as long as one can still claim runs: there is always one that    *)
(* comes to execute it.  A process whose lease has expired claims none     *)
(* until it is started again, as the id of the dead lease is cached.       *)
LeaseLost(n) == Running(n) /\ connected[n] /\ ~HasSession(n)

EveryRunEnds ==
    \A r \in Run : status[r] = "Running" ~>
        status[r] \in {"Completed", "Failed"} \/ \A n \in Node : LeaseLost(n)
=============================================================================
