------------------------- MODULE RunOwnershipProofs -------------------------
(***************************************************************************)
(* Who executes a run, for any number of orchestrators, runs and failures. *)
(* As long as no process took the key of a run while another relied on it, *)
(* the run is executed by at most one process whose lease is alive, that   *)
(* process holds the key, and the recovery gate of the run is neither      *)
(* opened too early nor left shut.                                         *)
(***************************************************************************)
EXTENDS RunOwnership, FiniteSetTheorems, TLAPS

Stages == {"none", "journalled", "created", "overwriting", "leased", "done"}
RecoveryStages ==
    {"idle", "claiming", "overwriting", "healing", "adopting",
     "marked", "replayed", "syncing", "failed"}

RecoveryRecord ==
    [at : RecoveryStages, todo : SUBSET Run, orphans : SUBSET Run, claimed : SUBSET Run,
     run : Run \union {None}, owner : Node \union {None}]

IsExecutor(e) ==
    /\ DOMAIN e = {"node", "run", "id", "gated", "at"}
    /\ e.node \in Node /\ e.run \in Run /\ e.gated \in BOOLEAN
    /\ e.at \in {"running", "ended", "over", "deleting"}

Types ==
    /\ status \in [Run -> {"none", "Running", "Completed", "Failed"}]
    /\ orchestrator \in [Run -> Node \union {None}]
    /\ journal \in [Run -> {"none", "created", "ended"}]
    /\ sessions \subseteq Session /\ heartbeats \subseteq sessions
    /\ key \in [Run -> sessions \union {None}]
    /\ phase \in [Node -> {"booting", "up", "stopping", "down"}]
    /\ epoch \in [Node -> Nat]
    /\ connected \in [Node -> BOOLEAN]
    /\ submission \in [Run -> [at : Stages, node : Node \union {None}]]
    /\ active \in [Node -> SUBSET Run] /\ marks \in [Node -> SUBSET Run]
    /\ \A e \in executors : IsExecutor(e)
    /\ recovery \in [Node -> RecoveryRecord]
    /\ DOMAIN sweep = Node
    /\ unprotected \subseteq Run
    /\ faults \in Seq(Fault)

(* A process has one lease in its life, ...                                *)
LeaseInv(n) ==
    \A l \in sessions : l[1] = n => l[2] <= epoch[n] /\ (l[2] = epoch[n] => connected[n])

(* ... and before that, or when it is down, it holds nothing.              *)
MemoryInv(n) ==
    phase[n] = "down" \/ ~connected[n] =>
        /\ \A e \in executors : e.node # n
        /\ recovery[n].at \in {"idle", "claiming"} /\ recovery[n].claimed = {}
        /\ \A r \in Run : submission[r].node = n
                             => submission[r].at \notin {"overwriting", "leased"}

(* Whoever has a lease has the key on it.                                  *)
Holds(n, r) == HasSession(n) => key[r] = Of(n)

(* Trees that are being recovered, and runs that were claimed for that.    *)
InTrees(rec) == rec.at \in {"marked", "replayed", "syncing", "failed"}
InTree(rec, r) == InTrees(rec) /\ (r \in rec.todo \/ r = rec.run)
Claimed(rec, r) == r \in rec.claimed \/ (rec.at = "adopting" /\ r = rec.run)
Owns(rec, r) == InTree(rec, r) \/ Claimed(rec, r)

(* A submission is alone with its run until it is over.                    *)
SubmissionInv(r) ==
    /\ submission[r].at = "none" => status[r] = "none"
    /\ submission[r].at # "none" => submission[r].node \in Node
    /\ r \notin unprotected =>
         /\ submission[r].at \in {"none", "journalled", "created"} => key[r] = None
         /\ submission[r].at # "overwriting"
         /\ submission[r].at = "leased" => Holds(submission[r].node, r)
         /\ submission[r].at # "done" => \A n \in Node : r \notin marks[n]

RecoveryInv(n) ==
    LET rec == recovery[n] IN
    /\ InTrees(rec) => rec.claimed = {} /\ rec.run \in Run \ rec.todo
    /\ rec.at \in {"adopting", "overwriting", "healing"} => rec.run \in Run
    /\ rec.at \in {"idle", "claiming"} => rec.run = None
    /\ \A r \in Run : r \in rec.todo \/ r \in rec.claimed \/ r = rec.run
                        => submission[r].at # "none"
    /\ \A r \in Run \ unprotected :
         /\ Owns(rec, r) => Holds(n, r)
         /\ Owns(rec, r) \/ (rec.at = "overwriting" /\ r = rec.run) => submission[r].at = "done"
         /\ InTree(rec, r) => \A e \in executors : ~(e.node = n /\ e.run = r)
         /\ rec.at = "syncing" /\ r = rec.run => journal[r] = "ended"

ExecutorInv(e) ==
    /\ submission[e.run].at # "none"
    /\ e.at = "deleting" => ~e.gated
    /\ e.run \notin unprotected =>
         /\ submission[e.run].at = "done"
         /\ e.at \in {"running", "ended"} => Holds(e.node, e.run)
         /\ e.run \in active[e.node]
         /\ \A f \in executors : f.node = e.node /\ f.run = e.run => f = e

MarkInv(n) ==
    \A r \in Run \ unprotected :
        /\ BeingRecovered(n, r) => r \in marks[n]
        /\ r \in marks[n] =>
             \/ BeingRecovered(n, r) \/ journal[r] = "ended"
             \/ recovery[n].at = "failed" /\ recovery[n].run = r

OInv ==
    /\ Types
    /\ \A n \in Node : LeaseInv(n) /\ MemoryInv(n) /\ RecoveryInv(n) /\ MarkInv(n)
    /\ \A r \in Run : SubmissionInv(r)
    /\ \A e \in executors : ExecutorInv(e)

USE OwnershipAssumption

-----------------------------------------------------------------------------
(* A fault leaves the rest of its plan.                                    *)
LEMMA FaultsLeft ==
    ASSUME faults \in Seq(Fault), NEW kind, Happens(kind)
    PROVE  faults' \in Seq(Fault)
BY DEF Happens

(* What no step undoes.                                                    *)
Steady ==
    /\ unprotected \subseteq unprotected'
    /\ \A r \in Run : submission[r].at # "none" => submission'[r].at # "none"
    /\ \A r \in Run : submission[r].at = "done" =>
         submission'[r].at = "done" /\ (journal[r] = "ended" => journal'[r] = "ended")

KeyKept(n, r) == Holds(n, r) => Holds(n, r)'

(* A process whose recovery does not move.                                 *)
LEMMA RecoveryFrame ==
    ASSUME OInv, Steady, NEW n \in Node, recovery'[n] = recovery[n],
           \A r \in Run \ unprotected' : Owns(recovery[n], r) => KeyKept(n, r),
           \A e \in executors' : e.node = n =>
              \E f \in executors : f.node = n /\ f.run = e.run
    PROVE  RecoveryInv(n)'
<1>1. RecoveryInv(n)
  BY DEF OInv
<1>2. InTrees(recovery[n])' = InTrees(recovery[n])
      /\ \A r \in Run : /\ Owns(recovery[n], r)' = Owns(recovery[n], r)
                        /\ InTree(recovery[n], r)' = InTree(recovery[n], r)
  BY DEF Owns, InTree, InTrees, Claimed
<1>3. ASSUME NEW r \in Run \ unprotected'
      PROVE  /\ Owns(recovery[n], r) => Holds(n, r)'
             /\ Owns(recovery[n], r) \/ (recovery[n].at = "overwriting" /\ r = recovery[n].run)
                  => submission'[r].at = "done"
             /\ InTree(recovery[n], r) => \A e \in executors' : ~(e.node = n /\ e.run = r)
             /\ recovery[n].at = "syncing" /\ r = recovery[n].run => journal'[r] = "ended"
  <2>1. r \in Run \ unprotected
    BY DEF Steady
  <2>2. recovery[n].at = "syncing" /\ r = recovery[n].run => Owns(recovery[n], r)
    BY DEF Owns, InTree, InTrees
  <2> QED BY <1>1, <2>1, <2>2 DEF RecoveryInv, Steady, KeyKept
<1> QED BY <1>1, <1>2, <1>3 DEF RecoveryInv, Steady

(* An executor that was there before, further on perhaps.                  *)
LEMMA ExecutorFrame ==
    ASSUME OInv, Steady, NEW e \in executors', NEW f \in executors,
           f.node = e.node, f.run = e.run,
           e.at = "deleting" => ~e.gated,
           e.run \notin unprotected' =>
              /\ e.at \in {"running", "ended"} =>
                   f.at \in {"running", "ended"} /\ KeyKept(e.node, e.run)
              /\ e.run \in active'[e.node]
              /\ \A g \in executors' : g.node = e.node /\ g.run = e.run => g = e
    PROVE  ExecutorInv(e)'
<1>1. ExecutorInv(f) /\ f.run \in Run
  BY DEF OInv, Types, IsExecutor
<1> QED BY <1>1 DEF ExecutorInv, Steady, KeyKept

(* A process whose marks and executors with a gate stay.                   *)
LEMMA MarkFrame ==
    ASSUME OInv, Steady, NEW n \in Node, recovery'[n] = recovery[n], marks'[n] = marks[n],
           \A r \in Run \ unprotected' :
              (\E e \in executors' : e.node = n /\ e.run = r /\ e.gated)
                 <=> \E e \in executors : e.node = n /\ e.run = r /\ e.gated
    PROVE  MarkInv(n)'
<1> SUFFICES ASSUME NEW r \in Run \ unprotected'
             PROVE  /\ BeingRecovered(n, r)' => r \in marks'[n]
                    /\ r \in marks'[n] =>
                         \/ BeingRecovered(n, r)' \/ journal'[r] = "ended"
                         \/ recovery'[n].at = "failed" /\ recovery'[n].run = r
  BY DEF MarkInv
<1>1. r \in Run \ unprotected
  BY DEF Steady
<1>2. BeingRecovered(n, r)' <=> BeingRecovered(n, r)
  BY DEF BeingRecovered
<1>3. r \in marks[n] => submission[r].at = "done"
  BY <1>1 DEF OInv, SubmissionInv
<1>4. MarkInv(n)
  BY DEF OInv
<1> QED BY <1>1, <1>2, <1>3, <1>4 DEF MarkInv, Steady

LEMMA SubmissionFrame ==
    ASSUME OInv, Steady, NEW r \in Run, submission'[r] = submission[r],
           submission[r].at = "none" => status'[r] = status[r],
           r \notin unprotected' =>
              /\ submission[r].at \in {"none", "journalled", "created"} => key'[r] = key[r]
              /\ submission[r].at = "leased" => KeyKept(submission[r].node, r)
              /\ submission[r].at # "done" => \A n \in Node : r \in marks'[n] => r \in marks[n]
    PROVE  SubmissionInv(r)'
<1>1. SubmissionInv(r)
  BY DEF OInv
<1> QED BY <1>1 DEF SubmissionInv, Steady, KeyKept

-----------------------------------------------------------------------------
(* What the lease manager does to keys and leases.                         *)
LEMMA SessionOfConnected == ASSUME OInv, NEW n \in Node, HasSession(n) PROVE connected[n]
<1>1. Of(n)[1] = n /\ Of(n)[2] = epoch[n]
  BY DEF Of
<1> QED BY <1>1 DEF OInv, LeaseInv, HasSession

LEMMA OfIsSession == ASSUME Types, NEW n \in Node PROVE Of(n) \in Session /\ Of(n) # None
BY DEF Types, Of, Session

LEMMA EnsureLeaseKeeps ==
    ASSUME OInv, NEW m \in Node, EnsureLease(m), UNCHANGED epoch
    PROVE  /\ sessions \subseteq sessions' /\ sessions' \subseteq Session
           /\ sessions' = Granted(m)
           /\ connected' \in [Node -> BOOLEAN] /\ connected'[m]
           /\ \A n \in Node : connected[n] => connected'[n]
           /\ \A n \in Node \ {m} : connected'[n] = connected[n]
           /\ \A n \in Node : connected[n] => (HasSession(n)' <=> HasSession(n))
           /\ \A n \in Node : LeaseInv(n)'
<1>1. /\ sessions' = IF connected[m] THEN sessions ELSE sessions \union {Of(m)}
      /\ connected' = [connected EXCEPT ![m] = TRUE]
      /\ Of(m) \in Session
  BY OfIsSession DEF EnsureLease, Granted, OInv
<1>2. /\ connected' \in [Node -> BOOLEAN] /\ connected'[m]
      /\ \A n \in Node \ {m} : connected'[n] = connected[n]
  BY <1>1 DEF OInv, Types
<1>3. ASSUME NEW n \in Node, connected[n] PROVE HasSession(n)' <=> HasSession(n)
  <2>1. Of(n)' = Of(n) /\ (n # m => Of(n) # Of(m))
    BY DEF Of
  <2> QED BY <1>1, <1>3, <2>1 DEF HasSession
<1>4. ASSUME NEW n \in Node PROVE LeaseInv(n)'
  <2> SUFFICES ASSUME NEW l \in sessions', l[1] = n
               PROVE  l[2] <= epoch[n] /\ (l[2] = epoch[n] => connected'[n])
    BY DEF LeaseInv
  <2>1. CASE l \in sessions
    BY <1>2, <2>1 DEF OInv, LeaseInv
  <2>2. CASE l = Of(m)
    BY <1>2, <2>2 DEF Of, OInv, Types
  <2> QED BY <1>1, <2>1, <2>2
<1>5. sessions \subseteq sessions' /\ sessions' \subseteq Session
  BY <1>1 DEF OInv, Types
<1> QED BY <1>1, <1>2, <1>3, <1>4, <1>5 DEF EnsureLease

LEMMA AcquireKeeps ==
    ASSUME OInv, NEW m \in Node, NEW q \in Run, TryAcquire(m, q), UNCHANGED epoch
    PROVE  /\ heartbeats' \subseteq sessions'
           /\ key' \in [Run -> sessions' \union {None}]
           /\ \A r \in Run \ {q} : key'[r] = key[r]
           /\ AcquireOutcome(m, q) \in {"acquired", "error", "mine", "theirs"}
           /\ AcquireOutcome(m, q) = "acquired" => key'[q] = Of(m)
           /\ AcquireOutcome(m, q) # "acquired" => key'[q] = key[q]
           /\ AcquireOutcome(m, q) = "error" => ~HasSession(m)'
           /\ AcquireOutcome(m, q) = "mine" => key[q] # None
           /\ AcquireOutcome(m, q) = "theirs" => key[q] # None
           /\ \A n \in Node, r \in Run : connected[n] => KeyKept(n, r)
<1>1. /\ sessions \subseteq sessions' /\ sessions' = Granted(m)
      /\ \A n \in Node : connected[n] => (HasSession(n)' <=> HasSession(n))
  BY EnsureLeaseKeeps DEF TryAcquire
<1>2. Of(m) \in Session /\ Of(m) # None /\ \A n \in Node : Of(n)' = Of(n) /\ Of(n) # None
  BY OfIsSession DEF OInv, Of
<1>3. /\ key' = IF AcquireOutcome(m, q) = "acquired" THEN [key EXCEPT ![q] = Of(m)] ELSE key
      /\ heartbeats' = heartbeats
  BY DEF TryAcquire
<1>4. key \in [Run -> sessions \union {None}] /\ heartbeats \subseteq sessions
  BY DEF OInv, Types
<1>5. /\ AcquireOutcome(m, q) \in {"acquired", "error", "mine", "theirs"}
      /\ AcquireOutcome(m, q) = "acquired" => key[q] = None /\ Of(m) \in sessions'
      /\ AcquireOutcome(m, q) = "error" => Of(m) \notin sessions'
      /\ AcquireOutcome(m, q) \in {"mine", "theirs"} => key[q] # None
  BY <1>1 DEF AcquireOutcome
<1>6. key' \in [Run -> sessions' \union {None}]
  BY <1>1, <1>3, <1>4, <1>5
<1>7. ASSUME NEW n \in Node, NEW r \in Run, connected[n] PROVE KeyKept(n, r)
  BY <1>1, <1>2, <1>3, <1>4, <1>5, <1>7 DEF KeyKept, Holds
<1> QED BY <1>1, <1>2, <1>3, <1>4, <1>5, <1>6, <1>7 DEF HasSession

LEMMA OverwriteKeeps ==
    ASSUME OInv, NEW m \in Node, NEW q \in Run, Overwrite(m, q), UNCHANGED epoch
    PROVE  /\ key' \in [Run -> sessions' \union {None}]
           /\ unprotected' \in SUBSET Run /\ unprotected \subseteq unprotected'
           /\ \A r \in Run \ {q} : key'[r] = key[r]
           /\ UNCHANGED <<sessions, heartbeats, connected>>
           /\ \A n \in Node, r \in Run \ unprotected' : KeyKept(n, r)
           /\ Holds(m, q)' \/ ~HasSession(m)
           /\ \A n \in Node : LeaseInv(n)'
<1>1. /\ key' = IF Of(m) \in sessions THEN [key EXCEPT ![q] = Of(m)] ELSE key
      /\ unprotected' = IF Of(m) \in sessions /\ key[q] # None /\ key[q][1] # m
                        THEN unprotected \union {q} ELSE unprotected
      /\ UNCHANGED <<sessions, heartbeats, connected>>
  BY DEF Overwrite
<1>2. /\ Of(m) \in Session /\ \A n \in Node : Of(n) # None /\ Of(n)[1] = n
      /\ \A n \in Node : Of(n)' = Of(n) /\ (HasSession(n)' <=> HasSession(n))
  BY <1>1, OfIsSession DEF OInv, Of, HasSession
<1>3. key \in [Run -> sessions \union {None}] /\ unprotected \subseteq Run
  BY DEF OInv, Types
<1>4. key' \in [Run -> sessions' \union {None}]
  BY <1>1, <1>3
<1>5. ASSUME NEW n \in Node, NEW r \in Run \ unprotected' PROVE KeyKept(n, r)
  BY <1>1, <1>2, <1>3, <1>5 DEF KeyKept, Holds, HasSession
<1>6. Holds(m, q)' \/ ~HasSession(m)
  BY <1>1, <1>2, <1>3 DEF Holds, HasSession
<1>7. \A n \in Node : LeaseInv(n)'
  BY <1>1 DEF OInv, LeaseInv
<1> QED BY <1>1, <1>3, <1>4, <1>5, <1>6, <1>7

LEMMA EndSessionKeeps ==
    ASSUME OInv, NEW l, EndSession(l), UNCHANGED <<epoch, connected>>
    PROVE  /\ sessions' \subseteq Session /\ heartbeats' \subseteq sessions'
           /\ key' \in [Run -> sessions' \union {None}]
           /\ \A r \in Run : key[r] = None => key'[r] = None
           /\ \A n \in Node, r \in Run : KeyKept(n, r)
           /\ \A n \in Node : LeaseInv(n)'
<1>1. /\ sessions' = sessions \ {l}
      /\ key' = [r \in Run |-> IF key[r] = l THEN None ELSE key[r]]
      /\ heartbeats' = heartbeats \ {l}
  BY DEF EndSession
<1>2. /\ key \in [Run -> sessions \union {None}] /\ heartbeats \subseteq sessions
      /\ sessions \subseteq Session
  BY DEF OInv, Types
<1>3. \A n \in Node, r \in Run : KeyKept(n, r)
  BY <1>1, <1>2 DEF KeyKept, Holds, HasSession, Of
<1>4. \A n \in Node : LeaseInv(n)'
  BY <1>1 DEF OInv, LeaseInv
<1> QED BY <1>1, <1>2, <1>3, <1>4

-----------------------------------------------------------------------------
LEMMA InitEstablishes == ASSUME Init PROVE OInv
<1> USE DEF Init
<1>1. Types
  BY DEF Types, Idle, RecoveryRecord, RecoveryStages, Stages, NotSubmitted, Session
<1>2. ASSUME NEW n \in Node PROVE LeaseInv(n)
  BY DEF LeaseInv
<1>3. ASSUME NEW n \in Node PROVE MemoryInv(n) /\ RecoveryInv(n) /\ MarkInv(n)
  <2>1. recovery[n].at = "idle" /\ recovery[n].todo = {} /\ recovery[n].claimed = {}
        /\ recovery[n].run = None
    BY DEF Idle
  <2> QED BY <2>1 DEF MemoryInv, RecoveryInv, MarkInv, InTrees, InTree, Owns, Claimed,
                      BeingRecovered, NotSubmitted
<1>4. ASSUME NEW r \in Run PROVE SubmissionInv(r)
  BY DEF SubmissionInv, NotSubmitted
<1> QED BY <1>1, <1>2, <1>3, <1>4 DEF OInv

(* Steps that leave every process as it is.                                *)
LEMMA SameProcesses ==
    ASSUME OInv, Types', unprotected' = unprotected,
           UNCHANGED <<status, journal, submission, active, marks, executors, recovery>>,
           \A n \in Node : /\ LeaseInv(n)'
                           /\ phase'[n] = "down" \/ ~connected'[n]
                                => phase[n] = "down" \/ ~connected[n],
           \A n \in Node, r \in Run : connected[n] => KeyKept(n, r),
           \A r \in Run : key[r] = None => key'[r] = None
    PROVE  OInv'
<1>1. Steady
  BY DEF Steady
<1>2. ASSUME NEW n \in Node PROVE MemoryInv(n)' /\ RecoveryInv(n)' /\ MarkInv(n)'
  <2>1. MemoryInv(n)
    BY DEF OInv
  <2>2. MemoryInv(n)'
    BY <2>1 DEF MemoryInv
  <2>3. \A r \in Run : Owns(recovery[n], r) => connected[n]
    BY <2>1 DEF MemoryInv, Owns, Claimed, InTree, InTrees, OInv, Types
  <2>4. RecoveryInv(n)'
    BY <1>1, <2>3, RecoveryFrame
  <2>5. MarkInv(n)'
    BY <1>1, MarkFrame
  <2> QED BY <2>2, <2>4, <2>5
<1>3. ASSUME NEW r \in Run PROVE SubmissionInv(r)'
  <2>1. SubmissionInv(r) /\ (submission[r].at = "leased" => submission[r].node \in Node)
    BY DEF OInv, SubmissionInv
  <2>2. submission[r].at = "leased" => connected[submission[r].node]
    BY <2>1 DEF OInv, MemoryInv, Types
  <2>3. submission[r].at = "leased" => KeyKept(submission[r].node, r)
    BY <2>1, <2>2
  <2>4. r \notin unprotected' /\ submission[r].at \in {"none", "journalled", "created"}
          => key'[r] = key[r]
    BY <2>1 DEF SubmissionInv
  <2> QED BY <1>1, <2>3, <2>4, SubmissionFrame
<1>4. ASSUME NEW e \in executors' PROVE ExecutorInv(e)'
  <2>1. e \in executors /\ ExecutorInv(e) /\ e.node \in Node /\ e.run \in Run
    BY DEF OInv, Types, IsExecutor
  <2>2. KeyKept(e.node, e.run)
    BY <2>1 DEF OInv, MemoryInv, Types
  <2> QED BY <1>1, <2>1, <2>2, ExecutorFrame DEF ExecutorInv
<1> QED BY <1>2, <1>3, <1>4 DEF OInv

LEMMA ExpireSessionKeeps == ASSUME OInv, NEW l \in sessions, ExpireSession(l) PROVE OInv'
<1>1. EndSession(l) /\ UNCHANGED <<store, process, submission, executors, recovery, sweep,
                                  unprotected>>
      /\ faults' \in Seq(Fault)
  BY FaultsLeft DEF ExpireSession, OInv, Types
<1>2. /\ sessions' \subseteq Session /\ heartbeats' \subseteq sessions'
      /\ key' \in [Run -> sessions' \union {None}]
      /\ \A r \in Run : key[r] = None => key'[r] = None
      /\ \A n \in Node, r \in Run : KeyKept(n, r)
      /\ \A n \in Node : LeaseInv(n)'
  BY <1>1, EndSessionKeeps DEF process
<1>3. Types'
  BY <1>1, <1>2 DEF OInv, Types, store, process
<1> QED BY <1>1, <1>2, <1>3, SameProcesses DEF store, process

LEMMA HeartbeatKeeps == ASSUME OInv, NEW n \in Node, Heartbeat(n) PROVE OInv'
<1>1. EnsureLease(n) /\ UNCHANGED epoch
  BY DEF Heartbeat
<1>2. /\ sessions \subseteq sessions' /\ sessions' \subseteq Session /\ sessions' = Granted(n)
      /\ connected' \in [Node -> BOOLEAN]
      /\ \A k \in Node : connected[k] => connected'[k] /\ (HasSession(k)' <=> HasSession(k))
      /\ \A k \in Node : LeaseInv(k)'
  BY <1>1, EnsureLeaseKeeps
<1>3. \A k \in Node, r \in Run : connected[k] => KeyKept(k, r)
  BY <1>1, <1>2 DEF KeyKept, Holds, Heartbeat, Of
<1>4. heartbeats' \subseteq sessions' /\ key' \in [Run -> sessions' \union {None}]
  BY <1>2 DEF Heartbeat, OInv, Types
<1>5. Types'
  BY <1>2, <1>4 DEF Heartbeat, OInv, Types, store
<1> QED BY <1>2, <1>3, <1>5, SameProcesses DEF Heartbeat, store

LEMMA OrphanStaleRunsKeeps == ASSUME OInv, NEW n \in Node, OrphanStaleRuns(n) PROVE OInv'
<1>1. Types'
  BY DEF OrphanStaleRuns, OInv, Types, etcd, process
<1>2. \A k \in Node, r \in Run : KeyKept(k, r)
  BY DEF KeyKept, Holds, HasSession, Of, OrphanStaleRuns, etcd, process
<1>3. \A k \in Node : LeaseInv(k)'
  BY DEF OInv, LeaseInv, OrphanStaleRuns, etcd, process
<1> QED BY <1>1, <1>2, <1>3, SameProcesses DEF OrphanStaleRuns, etcd, process

-----------------------------------------------------------------------------
(* A submission that moves on, up to its spawn.                            *)
LEMMA SubmissionMoves ==
    ASSUME OInv, Types', Steady, NEW r \in Run,
           UNCHANGED <<phase, active, marks, executors, recovery>>,
           \A q \in Run \ {r} :
              submission'[q] = submission[q] /\ key'[q] = key[q] /\ status'[q] = status[q],
           \A n \in Node : LeaseInv(n)' /\ (connected[n] => connected'[n]),
           \A n \in Node, q \in Run \ unprotected' : connected[n] => KeyKept(n, q),
           submission'[r].at \in {"overwriting", "leased"} =>
              \A n \in Node : submission'[r].node = n => phase[n] # "down" /\ connected'[n],
           SubmissionInv(r)'
    PROVE  OInv'
<1>1. ASSUME NEW n \in Node PROVE MemoryInv(n)' /\ RecoveryInv(n)' /\ MarkInv(n)'
  <2>1. MemoryInv(n)
    BY DEF OInv
  <2>2. MemoryInv(n)'
    BY <2>1 DEF MemoryInv
  <2>3. \A q \in Run : Owns(recovery[n], q) => connected[n]
    BY <2>1 DEF MemoryInv, Owns, Claimed, InTree, InTrees, OInv, Types
  <2>4. RecoveryInv(n)'
    BY <2>3, RecoveryFrame
  <2>5. MarkInv(n)'
    BY MarkFrame
  <2> QED BY <2>2, <2>4, <2>5
<1>2. ASSUME NEW q \in Run, q # r PROVE SubmissionInv(q)'
  <2>1. SubmissionInv(q) /\ submission'[q] = submission[q]
    BY <1>2 DEF OInv
  <2>2. submission[q].at = "leased" => submission[q].node \in Node /\ connected[submission[q].node]
    BY <2>1 DEF OInv, MemoryInv, Types, SubmissionInv
  <2> QED BY <1>2, <2>1, <2>2, SubmissionFrame
<1>3. ASSUME NEW e \in executors' PROVE ExecutorInv(e)'
  <2>1. e \in executors /\ ExecutorInv(e) /\ e.node \in Node /\ e.run \in Run
    BY DEF OInv, Types, IsExecutor
  <2>2. e.run \notin unprotected' => KeyKept(e.node, e.run) /\ e.run \notin unprotected
    BY <2>1 DEF OInv, MemoryInv, Types, Steady
  <2> QED BY <2>1, <2>2, ExecutorFrame DEF ExecutorInv
<1> QED BY <1>1, <1>2, <1>3 DEF OInv

LEMMA SameKeys ==
    ASSUME OInv, UNCHANGED <<etcd, epoch, connected>>
    PROVE  \A n \in Node : LeaseInv(n)' /\ \A r \in Run : KeyKept(n, r)
BY DEF OInv, LeaseInv, KeyKept, Holds, HasSession, Of, etcd

LEMMA JournalRunKeeps ==
    ASSUME OInv, NEW r \in Run, NEW n \in Node, JournalRun(r, n) PROVE OInv'
<1>1. /\ submission[r].at = "none"
      /\ submission' = [submission EXCEPT ![r] = [at |-> "journalled", node |-> n]]
      /\ journal' = [journal EXCEPT ![r] = "created"]
      /\ UNCHANGED <<status, orchestrator, etcd, process, executors, recovery, sweep,
                     unprotected, faults>>
  BY DEF JournalRun, NotSubmitted
<1>2. /\ submission'[r] = [at |-> "journalled", node |-> n]
      /\ \A q \in Run \ {r} : submission'[q] = submission[q] /\ journal'[q] = journal[q]
  BY <1>1 DEF OInv, Types
<1>3. Types'
  BY <1>1, <1>2 DEF OInv, Types, etcd, process, Stages
<1>4. Steady
  BY <1>1, <1>2 DEF Steady
<1>5. SubmissionInv(r)'
  BY <1>1, <1>2 DEF OInv, SubmissionInv, etcd, process
<1> QED BY <1>1, <1>2, <1>3, <1>4, <1>5, SameKeys, SubmissionMoves DEF etcd, process

LEMMA CreateRunKeeps ==
    ASSUME OInv, NEW r \in Run, NEW n \in Node, CreateRun(r, n) PROVE OInv'
<1>1. /\ submission[r] = [at |-> "journalled", node |-> n]
      /\ submission' = [submission EXCEPT ![r].at = "created"]
      /\ status' = [status EXCEPT ![r] = "Running"]
      /\ orchestrator' = [orchestrator EXCEPT ![r] = n]
      /\ UNCHANGED <<journal, etcd, process, executors, recovery, sweep, unprotected, faults>>
  BY DEF CreateRun, At, GoTo
<1>2. /\ submission'[r] = [at |-> "created", node |-> n]
      /\ \A q \in Run \ {r} : submission'[q] = submission[q] /\ status'[q] = status[q]
  BY <1>1 DEF OInv, Types
<1>3. Types'
  BY <1>1, <1>2 DEF OInv, Types, etcd, process, Stages
<1>4. Steady
  BY <1>1, <1>2 DEF Steady
<1>5. SubmissionInv(r)'
  BY <1>1, <1>2 DEF OInv, SubmissionInv, etcd, process
<1> QED BY <1>1, <1>2, <1>3, <1>4, <1>5, SameKeys, SubmissionMoves DEF etcd, process

LEMMA SubmitAcquireKeeps ==
    ASSUME OInv, NEW r \in Run, NEW n \in Node, SubmitAcquire(r, n) PROVE OInv'
<1> DEFINE next == IF AcquireOutcome(n, r) = "mine" THEN "overwriting" ELSE "leased"
<1>1. /\ submission[r] = [at |-> "created", node |-> n] /\ Running(n)
      /\ TryAcquire(n, r)
      /\ submission' = [submission EXCEPT ![r].at = next]
      /\ UNCHANGED <<store, phase, epoch, active, marks, executors, recovery, sweep,
                     unprotected, faults>>
  BY DEF SubmitAcquire, At, GoTo
<1>2. /\ submission'[r] = [at |-> next, node |-> n]
      /\ \A q \in Run \ {r} : submission'[q] = submission[q]
  BY <1>1 DEF OInv, Types
<1>3. /\ sessions' \subseteq Session
      /\ connected' \in [Node -> BOOLEAN] /\ connected'[n]
      /\ \A k \in Node : LeaseInv(k)' /\ (connected[k] => connected'[k])
  BY <1>1, EnsureLeaseKeeps DEF TryAcquire
<1>4. /\ heartbeats' \subseteq sessions'
      /\ key' \in [Run -> sessions' \union {None}]
      /\ \A q \in Run \ {r} : key'[q] = key[q]
      /\ AcquireOutcome(n, r) \in {"acquired", "error", "mine", "theirs"}
      /\ AcquireOutcome(n, r) = "acquired" => key'[r] = Of(n)
      /\ AcquireOutcome(n, r) = "error" => ~HasSession(n)'
      /\ AcquireOutcome(n, r) \in {"mine", "theirs"} => key[r] # None
      /\ \A k \in Node, q \in Run : connected[k] => KeyKept(k, q)
  BY <1>1, AcquireKeeps
<1>5. Types'
  BY <1>1, <1>2, <1>3, <1>4, ZenonT(60) DEF OInv, Types, store, Stages
<1>6. Steady
  BY <1>1, <1>2 DEF Steady, store
<1>7. SubmissionInv(r)'
  <2>1. SubmissionInv(r)
    BY DEF OInv
  <2>2. r \notin unprotected => AcquireOutcome(n, r) \in {"acquired", "error"}
    BY <1>1, <1>4, <2>1 DEF SubmissionInv
  <2>3. r \notin unprotected => next = "leased" /\ Holds(n, r)'
    BY <1>1, <1>4, <2>2 DEF Holds, Of
  <2> QED BY <1>1, <1>2, <2>1, <2>3 DEF SubmissionInv
<1>8. phase[n] # "down"
  BY <1>1 DEF Running
<1> QED BY <1>1, <1>2, <1>3, <1>4, <1>5, <1>6, <1>7, <1>8, SubmissionMoves DEF store

LEMMA SubmitOverwriteKeeps ==
    ASSUME OInv, NEW r \in Run, NEW n \in Node, SubmitOverwrite(r, n) PROVE OInv'
<1>1. /\ submission[r] = [at |-> "overwriting", node |-> n] /\ Running(n)
      /\ Overwrite(n, r)
      /\ submission' = [submission EXCEPT ![r].at = "leased"]
      /\ UNCHANGED <<store, phase, epoch, active, marks, executors, recovery, sweep, faults>>
  BY DEF SubmitOverwrite, At, GoTo
<1>2. /\ submission'[r] = [at |-> "leased", node |-> n]
      /\ \A q \in Run \ {r} : submission'[q] = submission[q]
  BY <1>1 DEF OInv, Types
<1>3. /\ key' \in [Run -> sessions' \union {None}]
      /\ unprotected' \in SUBSET Run /\ unprotected \subseteq unprotected'
      /\ \A q \in Run \ {r} : key'[q] = key[q]
      /\ UNCHANGED <<sessions, heartbeats, connected>>
      /\ \A k \in Node, q \in Run \ unprotected' : KeyKept(k, q)
      /\ \A k \in Node : LeaseInv(k)'
  BY <1>1, OverwriteKeeps
<1>4. Types'
  BY <1>1, <1>2, <1>3 DEF OInv, Types, store, Stages
<1>5. Steady
  BY <1>1, <1>2, <1>3 DEF Steady, store
<1>6. SubmissionInv(r)'
  BY <1>1, <1>2, <1>3 DEF OInv, SubmissionInv
<1>7. connected[n] /\ phase[n] # "down"
  BY <1>1 DEF OInv, MemoryInv, Types
<1> QED BY <1>1, <1>2, <1>3, <1>4, <1>5, <1>6, <1>7, SubmissionMoves DEF store

LEMMA SubmitFailsKeeps ==
    ASSUME OInv, NEW r \in Run, NEW n \in Node, SubmitFails(r, n) PROVE OInv'
<1>1. /\ submission[r] = [at |-> "leased", node |-> n]
      /\ submission' = [submission EXCEPT ![r].at = "done"]
      /\ status' = [status EXCEPT ![r] = "Failed"]
      /\ faults' \in Seq(Fault)
      /\ UNCHANGED <<orchestrator, journal, etcd, process, executors, recovery, sweep, unprotected>>
  BY FaultsLeft DEF SubmitFails, At, GoTo, OInv, Types
<1>2. /\ submission'[r] = [at |-> "done", node |-> n]
      /\ \A q \in Run \ {r} : submission'[q] = submission[q] /\ status'[q] = status[q]
  BY <1>1 DEF OInv, Types
<1>3. Types'
  BY <1>1, <1>2 DEF OInv, Types, etcd, process, Stages
<1>4. Steady
  BY <1>1, <1>2 DEF Steady
<1>5. SubmissionInv(r)'
  BY <1>1, <1>2 DEF OInv, SubmissionInv, etcd, process
<1> QED BY <1>1, <1>2, <1>3, <1>4, <1>5, SameKeys, SubmissionMoves DEF etcd, process

-----------------------------------------------------------------------------
(* An executor is spawned by a submission, which is then over.             *)
LEMMA SpawnAdds ==
    ASSUME OInv, NEW r \in Run, NEW n \in Node, NEW gated \in BOOLEAN, Spawn(r, n, gated)
    PROVE  \E e : /\ executors' = executors \union {e} /\ IsExecutor(e)
                  /\ e.node = n /\ e.run = r /\ e.gated = gated /\ e.at = "running"
                  /\ active' \in [Node -> SUBSET Run] /\ r \in active'[n]
                  /\ \A k \in Node : active[k] \subseteq active'[k]
<1> DEFINE e == [node |-> n, run |-> r, id |-> FreshId(r, n), gated |-> gated, at |-> "running"]
<1>1. executors' = executors \union {e} /\ active' = [active EXCEPT ![n] = @ \union {r}]
  BY DEF Spawn
<1>2. /\ IsExecutor(e) /\ e.node = n /\ e.run = r /\ e.gated = gated /\ e.at = "running"
  BY DEF IsExecutor
<1>3. /\ active' \in [Node -> SUBSET Run] /\ r \in active'[n]
      /\ \A k \in Node : active[k] \subseteq active'[k]
  BY <1>1 DEF OInv, Types
<1> HIDE DEF e
<1> QED BY <1>1, <1>2, <1>3

LEMMA SubmitSpawnKeeps ==
    ASSUME OInv, NEW r \in Run, NEW n \in Node, SubmitSpawn(r, n) PROVE OInv'
<1>1. /\ submission[r] = [at |-> "leased", node |-> n] /\ Running(n)
      /\ submission' = [submission EXCEPT ![r].at = "done"]
      /\ UNCHANGED <<store, etcd, phase, epoch, connected, marks, recovery, sweep,
                     unprotected, faults>>
  BY DEF SubmitSpawn, At, GoTo
<1>2. PICK e : /\ executors' = executors \union {e} /\ IsExecutor(e)
               /\ e.node = n /\ e.run = r /\ e.gated = FALSE /\ e.at = "running"
               /\ active' \in [Node -> SUBSET Run] /\ r \in active'[n]
               /\ \A k \in Node : active[k] \subseteq active'[k]
  BY SpawnAdds DEF SubmitSpawn
<1>3. /\ submission'[r] = [at |-> "done", node |-> n]
      /\ \A q \in Run \ {r} : submission'[q] = submission[q]
  BY <1>1 DEF OInv, Types
<1>4. Types'
  BY <1>1, <1>2, <1>3 DEF OInv, Types, store, etcd, Stages
<1>5. Steady
  BY <1>1, <1>3 DEF Steady, store
<1>6. \A k \in Node : LeaseInv(k)' /\ \A q \in Run : KeyKept(k, q)
  BY <1>1, SameKeys
<1>7. connected[n] /\ phase[n] # "down"
  BY <1>1 DEF OInv, MemoryInv, Types
<1>8. ASSUME NEW k \in Node PROVE MemoryInv(k)' /\ RecoveryInv(k)' /\ MarkInv(k)'
  <2>1. MemoryInv(k) /\ RecoveryInv(k)
    BY DEF OInv
  <2>2. MemoryInv(k)'
    BY <1>1, <1>2, <1>3, <1>7, <2>1 DEF MemoryInv
  <2>3. ASSUME NEW q \in Run \ unprotected, InTree(recovery[k], q) PROVE q # r
    BY <1>1, <2>1, <2>3 DEF RecoveryInv, Owns
  <2>4. ASSUME NEW q \in Run \ unprotected
        PROVE  InTree(recovery[k], q) => \A f \in executors' : ~(f.node = k /\ f.run = q)
    BY <1>2, <2>1, <2>3 DEF RecoveryInv
  <2>5. RecoveryInv(k)'
    <3>1. \A q \in Run : /\ Owns(recovery[k], q)' = Owns(recovery[k], q)
                         /\ InTree(recovery[k], q)' = InTree(recovery[k], q)
                         /\ InTrees(recovery[k])' = InTrees(recovery[k])
      BY <1>1 DEF Owns, InTree, InTrees, Claimed
    <3>2. \A q \in Run \ unprotected : Holds(k, q) => Holds(k, q)'
      BY <1>6 DEF KeyKept
    <3> QED BY <1>1, <1>3, <2>1, <2>4, <3>1, <3>2 DEF RecoveryInv, store
  <2>6. MarkInv(k)'
    BY <1>1, <1>2, <1>5, MarkFrame
  <2> QED BY <2>2, <2>5, <2>6
<1>9. ASSUME NEW q \in Run PROVE SubmissionInv(q)'
  <2>1. CASE q = r
    BY <1>1, <1>3, <2>1 DEF OInv, SubmissionInv, store
  <2>2. CASE q # r
    <3>1. SubmissionInv(q) /\ submission'[q] = submission[q]
      BY <1>3, <2>2 DEF OInv
    <3>2. submission[q].at = "leased" => KeyKept(submission[q].node, q)
      BY <1>6, <3>1 DEF SubmissionInv
    <3> QED BY <1>1, <1>5, <3>1, <3>2, SubmissionFrame DEF store, etcd
  <2> QED BY <2>1, <2>2
<1>10. ASSUME NEW f \in executors' PROVE ExecutorInv(f)'
  <2>1. r \notin unprotected => \A g \in executors : g.run # r
    BY <1>1 DEF OInv, ExecutorInv
  <2>2. CASE f = e
    <3>1. r \notin unprotected => Holds(n, r) /\ Holds(n, r)'
      BY <1>1, <1>6 DEF OInv, SubmissionInv, KeyKept
    <3> QED BY <1>1, <1>2, <1>3, <2>1, <2>2, <3>1 DEF ExecutorInv
  <2>3. CASE f \in executors /\ f # e
    <3>1. ExecutorInv(f) /\ f.node \in Node /\ f.run \in Run /\ KeyKept(f.node, f.run)
      BY <1>6, <2>3 DEF OInv, Types, IsExecutor
    <3>2. f.run \notin unprotected => f.run # r
      BY <2>1, <2>3
    <3> QED BY <1>1, <1>2, <1>5, <2>3, <3>1, <3>2, ExecutorFrame DEF ExecutorInv
  <2> QED BY <1>2, <2>2, <2>3
<1> QED BY <1>4, <1>6, <1>8, <1>9, <1>10 DEF OInv

-----------------------------------------------------------------------------
(* The steps of an executor e.  It has its run to itself in its process.   *)
LEMMA Alone ==
    ASSUME OInv, NEW e \in executors, e.run \notin unprotected
    PROVE  /\ \A f \in executors : f.node = e.node /\ f.run = e.run => f = e
           /\ ~InTree(recovery[e.node], e.run)
<1>1. e.node \in Node /\ e.run \in Run
  BY DEF OInv, Types, IsExecutor
<1> QED BY <1>1 DEF OInv, ExecutorInv, RecoveryInv

LEMMA GateCleared ==
    ASSUME OInv, Steady, NEW e \in executors, UNCHANGED recovery,
           marks' = [marks EXCEPT ![e.node] = marks[e.node] \ {e.run}],
           \A g \in executors' : g \in executors \ {e} \/ ~g.gated,
           executors \ {e} \subseteq executors'
    PROVE  \A n \in Node : MarkInv(n)'
<1> SUFFICES ASSUME NEW n \in Node, NEW r \in Run \ unprotected'
             PROVE  /\ BeingRecovered(n, r)' => r \in marks'[n]
                    /\ r \in marks'[n] =>
                         \/ BeingRecovered(n, r)' \/ journal'[r] = "ended"
                         \/ recovery'[n].at = "failed" /\ recovery'[n].run = r
  BY DEF MarkInv
<1>1. r \in Run \ unprotected
  BY DEF Steady
<1>2. CASE n = e.node /\ r = e.run
  <2>1. r \notin marks'[n]
    BY <1>2 DEF OInv, Types
  <2>2. ~BeingRecovered(n, r)'
    BY <1>1, <1>2, Alone DEF BeingRecovered, InTree, InTrees
  <2> QED BY <2>1, <2>2
<1>3. CASE ~(n = e.node /\ r = e.run)
  <2>1. r \in marks'[n] <=> r \in marks[n]
    BY <1>3 DEF OInv, Types
  <2>2. BeingRecovered(n, r)' <=> BeingRecovered(n, r)
    BY <1>3 DEF BeingRecovered
  <2>3. r \in marks[n] => submission[r].at = "done"
    BY <1>1 DEF OInv, SubmissionInv
  <2>4. MarkInv(n)
    BY DEF OInv
  <2> QED BY <1>1, <2>1, <2>2, <2>3, <2>4 DEF MarkInv, Steady
<1> QED BY <1>2, <1>3

LEMMA ExecutorStep ==
    ASSUME OInv, Steady, Types', NEW e \in executors, NEW new,
           executors' = (executors \ {e}) \union new,
           \A g \in new : /\ g.node = e.node /\ g.run = e.run
                          /\ g.at \in {"running", "ended"} => e.at \in {"running", "ended"}
                          /\ g.at = "deleting" => ~g.gated
                          /\ \A h \in new : h = g,
           UNCHANGED <<phase, epoch, connected, submission, recovery>>,
           \A r \in Run : submission[r].at = "none" => status'[r] = status[r],
           \A n \in Node : LeaseInv(n)' /\ MarkInv(n)' /\ marks'[n] \subseteq marks[n],
           \A r \in Run \ unprotected' :
              /\ submission[r].at # "done" => key'[r] = key[r] /\ \A n \in Node : KeyKept(n, r)
              /\ \A n \in Node : Owns(recovery[n], r) => KeyKept(n, r),
           \A g \in executors' : g.run \notin unprotected' =>
              KeyKept(g.node, g.run) /\ g.run \in active'[g.node]
    PROVE  OInv'
<1>1. ASSUME NEW n \in Node PROVE MemoryInv(n)' /\ RecoveryInv(n)'
  <2>1. MemoryInv(n)' 
    BY DEF OInv, MemoryInv
  <2>2. \A g \in executors' : g.node = n => \E f \in executors : f.node = n /\ f.run = g.run
    OBVIOUS
  <2>3. RecoveryInv(n)'
    BY <2>2, RecoveryFrame
  <2> QED BY <2>1, <2>3
<1>2. ASSUME NEW r \in Run PROVE SubmissionInv(r)'
  <2>1. SubmissionInv(r)
    BY DEF OInv
  <2>2. r \notin unprotected' =>
          /\ submission[r].at \in {"none", "journalled", "created"} => key'[r] = key[r]
          /\ submission[r].at = "leased" => KeyKept(submission[r].node, r)
          /\ submission[r].at # "done" => \A n \in Node : r \in marks'[n] => r \in marks[n]
    BY <2>1 DEF SubmissionInv
  <2> QED BY <2>2, SubmissionFrame
<1>3. ASSUME NEW g \in executors' PROVE ExecutorInv(g)'
  <2> DEFINE From(h, f) == /\ f.node = h.node /\ f.run = h.run
                           /\ h.at \in {"running", "ended"} => f.at \in {"running", "ended"}
                           /\ h.at = "deleting" => ~h.gated
                           /\ h \in new => f = e
                           /\ h \notin new => f = h /\ f # e
  <2>1. \A h \in executors' : \E f \in executors : From(h, f)
    <3> SUFFICES ASSUME NEW h \in executors' PROVE \E f \in executors : From(h, f)
      OBVIOUS
    <3>1. CASE h \in new
      <4>1. From(h, e)
        BY <3>1
      <4> QED BY <4>1
    <3>2. CASE h \notin new
      <4>1. h \in executors /\ From(h, h)
        BY <3>2 DEF OInv, ExecutorInv
      <4> QED BY <4>1
    <3> QED BY <3>1, <3>2
  <2> HIDE DEF From
  <2>2. PICK f \in executors : From(g, f)
    BY <2>1
  <2>3. ASSUME g.run \notin unprotected'
        PROVE  \A h \in executors' : h.node = g.node /\ h.run = g.run => h = g
    <3> SUFFICES ASSUME NEW h \in executors', h.node = g.node, h.run = g.run PROVE h = g
      OBVIOUS
    <3>1. f.run \notin unprotected
      BY <2>2, <2>3 DEF Steady, From
    <3>2. PICK k \in executors : From(h, k)
      BY <2>1
    <3>3. \A j \in executors : j.node = f.node /\ j.run = f.run => j = f
      BY <3>1, Alone
    <3>4. k = f
      BY <2>2, <3>2, <3>3 DEF From
    <3> QED BY <2>2, <3>2, <3>4 DEF From
  <2> QED BY <2>2, <2>3, ExecutorFrame DEF From
<1> QED BY <1>1, <1>2, <1>3 DEF OInv

(* A step of e that leaves the keys alone.                                 *)
LEMMA ExecutorMoves ==
    ASSUME OInv, NEW e \in executors, NEW f, Become(e, f), IsExecutor(f),
           f.node = e.node, f.run = e.run, f.at = "deleting" => ~f.gated,
           f.at \in {"running", "ended"} => e.at \in {"running", "ended"},
           UNCHANGED <<orchestrator, etcd, phase, epoch, connected, active, submission, recovery,
                       sweep, unprotected>>,
           status' \in [Run -> {"none", "Running", "Completed", "Failed"}],
           \A r \in Run \ {e.run} : status'[r] = status[r],
           journal' \in [Run -> {"none", "created", "ended"}],
           \A r \in Run : journal[r] = "ended" => journal'[r] = "ended",
           faults' \in Seq(Fault),
           marks' \in [Node -> SUBSET Run],
           \A n \in Node : MarkInv(n)' /\ marks'[n] \subseteq marks[n]
    PROVE  OInv'
<1>1. executors' = (executors \ {e}) \union {f}
  BY DEF Become
<1>2. Types'
  BY <1>1 DEF OInv, Types, etcd
<1>3. Steady
  BY DEF Steady
<1>4. \A n \in Node : LeaseInv(n)' /\ \A r \in Run : KeyKept(n, r)
  BY SameKeys
<1>5. \A r \in Run : submission[r].at = "none" => status'[r] = status[r]
  BY DEF OInv, ExecutorInv
<1>6. \A g \in executors' : g.run \notin unprotected' =>
         KeyKept(g.node, g.run) /\ g.run \in active'[g.node]
  <2> SUFFICES ASSUME NEW g \in executors', g.run \notin unprotected'
               PROVE  KeyKept(g.node, g.run) /\ g.run \in active'[g.node]
    OBVIOUS
  <2>1. g.node \in Node /\ g.run \in Run
    BY <1>2 DEF Types, IsExecutor
  <2>2. g.run \in active[g.node]
    BY <1>1 DEF OInv, ExecutorInv
  <2> QED BY <1>4, <2>1, <2>2
<1>7. \A r \in Run \ unprotected' :
         /\ submission[r].at # "done" => key'[r] = key[r] /\ \A n \in Node : KeyKept(n, r)
         /\ \A n \in Node : Owns(recovery[n], r) => KeyKept(n, r)
  BY <1>4 DEF etcd
<1> DEFINE new == {f}
<1>8. \A g \in new : /\ g.node = e.node /\ g.run = e.run
                     /\ g.at \in {"running", "ended"} => e.at \in {"running", "ended"}
                     /\ g.at = "deleting" => ~g.gated
                     /\ \A h \in new : h = g
  OBVIOUS
<1>9. executors' = (executors \ {e}) \union new
  BY <1>1
<1> HIDE DEF new
<1> QED BY <1>2, <1>3, <1>4, <1>5, <1>6, <1>7, <1>8, <1>9, ExecutorStep

LEMMA FirstEventKeeps == ASSUME OInv, NEW e \in executors, FirstEvent(e) PROVE OInv'
<1> DEFINE f == [e EXCEPT !.gated = FALSE]
<1>1. /\ e.at = "running" /\ Become(e, f)
      /\ marks' = [marks EXCEPT ![e.node] = marks[e.node] \ {e.run}]
      /\ UNCHANGED <<store, etcd, phase, epoch, connected, active, submission, recovery, sweep,
                     unprotected, faults>>
  BY DEF FirstEvent
<1>2. IsExecutor(e)
  BY DEF OInv, Types
<1>3. IsExecutor(f) /\ f.node = e.node /\ f.run = e.run /\ f.at = e.at /\ f.gated = FALSE
  BY <1>2 DEF IsExecutor
<1>4. Steady
  BY <1>1 DEF Steady, store
<1> HIDE DEF f
<1>5. \A n \in Node : MarkInv(n)'
  BY <1>1, <1>3, <1>4, GateCleared DEF Become
<1>6. marks' \in [Node -> SUBSET Run] /\ \A n \in Node : marks'[n] \subseteq marks[n]
  BY <1>1, <1>2 DEF OInv, Types, IsExecutor
<1> QED BY <1>1, <1>3, <1>5, <1>6, ExecutorMoves DEF store, OInv, Types

(* The gate of e stays as it is.                                           *)
LEMMA GateStays ==
    ASSUME OInv, Steady, NEW e \in executors, NEW f, f.node = e.node, f.run = e.run,
           f.gated = e.gated, Become(e, f), UNCHANGED <<recovery, marks>>
    PROVE  \A n \in Node : MarkInv(n)'
<1> SUFFICES ASSUME NEW n \in Node PROVE MarkInv(n)'
  OBVIOUS
<1>1. ASSUME NEW r PROVE (\E g \in executors' : g.node = n /\ g.run = r /\ g.gated)
                            <=> \E g \in executors : g.node = n /\ g.run = r /\ g.gated
  BY DEF Become
<1> QED BY <1>1, MarkFrame

LEMMA JournalEndKeeps == ASSUME OInv, NEW e \in executors, JournalEnd(e) PROVE OInv'
<1> DEFINE f == [e EXCEPT !.at = "ended"]
<1>1. /\ e.at = "running" /\ Become(e, f)
      /\ journal' = [journal EXCEPT ![e.run] = "ended"]
      /\ UNCHANGED <<status, orchestrator, etcd, process, submission, recovery, sweep,
                     unprotected, faults>>
  BY DEF JournalEnd
<1>2. IsExecutor(e)
  BY DEF OInv, Types
<1>3. IsExecutor(f) /\ f.node = e.node /\ f.run = e.run /\ f.at = "ended" /\ f.gated = e.gated
  BY <1>2 DEF IsExecutor
<1>4. /\ journal' \in [Run -> {"none", "created", "ended"}]
      /\ \A r \in Run : journal[r] = "ended" => journal'[r] = "ended"
  BY <1>1, <1>2 DEF OInv, Types, IsExecutor
<1>5. Steady
  BY <1>1, <1>4 DEF Steady
<1> HIDE DEF f
<1>6. \A n \in Node : MarkInv(n)'
  BY <1>1, <1>3, <1>5, GateStays DEF process
<1> QED BY <1>1, <1>3, <1>4, <1>6, ExecutorMoves DEF process, OInv, Types

LEMMA UpdateStatusKeeps == ASSUME OInv, NEW e \in executors, UpdateStatus(e) PROVE OInv'
<1> DEFINE f == [e EXCEPT !.at = "over"]
<1>1. /\ Become(e, f)
      /\ status' = [status EXCEPT ![e.run] = "Completed"]
      /\ UNCHANGED <<orchestrator, journal, etcd, process, submission, recovery, sweep,
                     unprotected, faults>>
  BY DEF UpdateStatus
<1>2. IsExecutor(e)
  BY DEF OInv, Types
<1>3. IsExecutor(f) /\ f.node = e.node /\ f.run = e.run /\ f.at = "over" /\ f.gated = e.gated
  BY <1>2 DEF IsExecutor
<1>4. /\ status' \in [Run -> {"none", "Running", "Completed", "Failed"}]
      /\ \A r \in Run \ {e.run} : status'[r] = status[r]
  BY <1>1, <1>2 DEF OInv, Types, IsExecutor
<1>5. Steady
  BY <1>1 DEF Steady
<1> HIDE DEF f
<1>6. \A n \in Node : MarkInv(n)'
  BY <1>1, <1>3, <1>5, GateStays DEF process
<1> QED BY <1>1, <1>3, <1>4, <1>6, ExecutorMoves DEF process, OInv, Types

LEMMA ExecutorFailsKeeps == ASSUME OInv, NEW e \in executors, ExecutorFails(e) PROVE OInv'
<1> DEFINE f == [e EXCEPT !.at = "over"]
<1>1. /\ Become(e, f) /\ faults' \in Seq(Fault)
      /\ UNCHANGED <<store, etcd, process, submission, recovery, sweep, unprotected>>
  BY FaultsLeft DEF ExecutorFails, OInv, Types
<1>2. IsExecutor(e)
  BY DEF OInv, Types
<1>3. IsExecutor(f) /\ f.node = e.node /\ f.run = e.run /\ f.at = "over" /\ f.gated = e.gated
  BY <1>2 DEF IsExecutor
<1>4. faults' \in Seq(Fault)
  BY <1>1
<1>5. Steady
  BY <1>1 DEF Steady, store
<1> HIDE DEF f
<1>6. \A n \in Node : MarkInv(n)'
  BY <1>1, <1>3, <1>5, GateStays DEF process
<1> QED BY <1>1, <1>3, <1>4, <1>6, ExecutorMoves DEF process, store, OInv, Types

(* e is gone, and has taken its run out of the active executions.          *)
LEMMA Leaves ==
    ASSUME OInv, NEW e \in executors, Leave(e), Steady
    PROVE  /\ active' \in [Node -> SUBSET Run]
           /\ \A g \in executors' : g \in executors /\ g # e /\ IsExecutor(g)
           /\ \A g \in executors' : g.run \notin unprotected' =>
                /\ g.run \in active'[g.node]
                /\ ~(g.node = e.node /\ g.run = e.run)
<1>1. /\ executors' = executors \ {e}
      /\ active' = [active EXCEPT ![e.node] = active[e.node] \ {e.run}]
  BY DEF Leave
<1>2. active' \in [Node -> SUBSET Run]
  BY <1>1 DEF OInv, Types
<1>3. ASSUME NEW g \in executors', g.run \notin unprotected'
      PROVE  g.run \in active'[g.node] /\ ~(g.node = e.node /\ g.run = e.run)
  <2>1. g \in executors /\ g # e /\ g.run \notin unprotected /\ g.node \in Node
    BY <1>1, <1>3 DEF Steady, OInv, Types, IsExecutor
  <2>2. g.run \in active[g.node]
    BY <2>1 DEF OInv, ExecutorInv
  <2>3. ~(g.node = e.node /\ g.run = e.run)
    BY <2>1, Alone
  <2> QED BY <1>1, <2>1, <2>2, <2>3 DEF OInv, Types
<1> QED BY <1>1, <1>2, <1>3 DEF OInv, Types

LEMMA ExecutorGoes ==
    ASSUME OInv, Steady, Types', NEW e \in executors, executors' = executors \ {e},
           UNCHANGED <<phase, epoch, connected, submission, recovery, status>>,
           \A n \in Node : LeaseInv(n)' /\ MarkInv(n)' /\ marks'[n] \subseteq marks[n],
           \A r \in Run \ unprotected' :
              /\ submission[r].at # "done" => key'[r] = key[r] /\ \A n \in Node : KeyKept(n, r)
              /\ \A n \in Node : Owns(recovery[n], r) => KeyKept(n, r),
           \A g \in executors' : g.run \notin unprotected' =>
              KeyKept(g.node, g.run) /\ g.run \in active'[g.node]
    PROVE  OInv'
<1> DEFINE new == {}
<1>1. executors' = (executors \ {e}) \union new
  OBVIOUS
<1>2. \A g \in new : /\ g.node = e.node /\ g.run = e.run
                     /\ g.at \in {"running", "ended"} => e.at \in {"running", "ended"}
                     /\ g.at = "deleting" => ~g.gated
                     /\ \A h \in new : h = g
  OBVIOUS
<1> HIDE DEF new
<1> QED BY <1>1, <1>2, ExecutorStep

LEMMA ReadLeaseKeeps == ASSUME OInv, NEW e \in executors, ReadLease(e) PROVE OInv'
<1>1. /\ e.at = "over"
      /\ marks' = [marks EXCEPT ![e.node] = IF e.gated THEN marks[e.node] \ {e.run}
                                            ELSE marks[e.node]]
      /\ UNCHANGED <<store, etcd, phase, epoch, connected, submission, recovery, sweep,
                     unprotected, faults>>
  BY DEF ReadLease
<1>2. IsExecutor(e)
  BY DEF OInv, Types
<1>3. Steady
  BY <1>1 DEF Steady, store
<1>4. /\ marks' \in [Node -> SUBSET Run] /\ \A n \in Node : marks'[n] \subseteq marks[n]
      /\ e.gated => marks' = [marks EXCEPT ![e.node] = marks[e.node] \ {e.run}]
      /\ ~e.gated => marks' = marks
  BY <1>1, <1>2 DEF OInv, Types, IsExecutor
<1>5. CASE Leave(e)
  <2>1. executors' = executors \ {e}
    BY <1>5 DEF Leave
  <2>2. /\ active' \in [Node -> SUBSET Run]
        /\ \A g \in executors' : g \in executors /\ g # e /\ IsExecutor(g)
        /\ \A g \in executors' : g.run \notin unprotected' => g.run \in active'[g.node]
    BY <1>3, <1>5, Leaves
  <2>3. Types'
    BY <1>1, <1>4, <2>2 DEF OInv, Types, store, etcd
  <2>4. \A n \in Node : MarkInv(n)'
    <3>1. CASE e.gated
      BY <1>1, <1>3, <1>4, <2>1, <3>1, GateCleared
    <3>2. CASE ~e.gated
      BY <1>1, <1>3, <1>4, <2>1, <3>2, MarkFrame
    <3> QED BY <3>1, <3>2
  <2>5. \A n \in Node : LeaseInv(n)' /\ \A r \in Run : KeyKept(n, r)
    BY <1>1, SameKeys
  <2>6. \A g \in executors' : KeyKept(g.node, g.run)
    BY <2>2, <2>5 DEF IsExecutor
  <2> QED BY <1>1, <1>3, <1>4, <2>1, <2>2, <2>3, <2>4, <2>5, <2>6, ExecutorGoes DEF etcd, store
<1>6. CASE Become(e, [e EXCEPT !.gated = FALSE, !.at = "deleting"]) /\ UNCHANGED active
  <2> DEFINE f == [e EXCEPT !.gated = FALSE, !.at = "deleting"]
  <2>1. IsExecutor(f) /\ f.node = e.node /\ f.run = e.run /\ f.at = "deleting" /\ f.gated = FALSE
    BY <1>2 DEF IsExecutor
  <2>2. Become(e, f)
    BY <1>6
  <2> HIDE DEF f
  <2>3. \A n \in Node : MarkInv(n)'
    <3>1. CASE e.gated
      BY <1>1, <1>3, <1>4, <2>1, <2>2, <3>1, GateCleared DEF Become
    <3>2. CASE ~e.gated
      <4>1. f.gated = e.gated
        BY <1>2, <2>1, <3>2 DEF IsExecutor
      <4> QED BY <1>1, <1>3, <1>4, <2>1, <2>2, <3>2, <4>1, GateStays
    <3> QED BY <3>1, <3>2
  <2> QED BY <1>1, <1>4, <1>6, <2>1, <2>2, <2>3, ExecutorMoves DEF store, OInv, Types
<1> QED BY <1>5, <1>6 DEF ReadLease

LEMMA DeleteLeaseKeeps == ASSUME OInv, NEW e \in executors, DeleteLease(e) PROVE OInv'
<1>1. /\ e.at = "deleting" /\ Leave(e)
      /\ key' = [key EXCEPT ![e.run] = None]
      /\ unprotected' = IF Claiming(e.node, e.run) \/ (key[e.run] # None /\ key[e.run][1] # e.node)
                        THEN unprotected \union {e.run} ELSE unprotected
      /\ UNCHANGED <<store, sessions, heartbeats, phase, epoch, connected, marks, submission,
                     recovery, sweep, faults>>
  BY DEF DeleteLease
<1>2. IsExecutor(e) /\ ExecutorInv(e) /\ e.run \in Run /\ e.node \in Node
  BY DEF OInv, Types, IsExecutor
<1>3. /\ key \in [Run -> sessions \union {None}] /\ key' \in [Run -> sessions' \union {None}]
      /\ \A r \in Run \ {e.run} : key'[r] = key[r]
      /\ unprotected' \in SUBSET Run /\ unprotected \subseteq unprotected'
  BY <1>1, <1>2 DEF OInv, Types
<1>4. Steady
  BY <1>1, <1>3 DEF Steady, store
<1>5. /\ active' \in [Node -> SUBSET Run]
      /\ \A g \in executors' : g \in executors /\ g # e /\ IsExecutor(g)
      /\ \A g \in executors' : g.run \notin unprotected' =>
           /\ g.run \in active'[g.node]
           /\ ~(g.node = e.node /\ g.run = e.run)
  BY <1>1, <1>4, Leaves
<1>6. Types'
  BY <1>1, <1>3, <1>5 DEF OInv, Types, store
<1>7. executors' = executors \ {e} /\ ~e.gated
  BY <1>1, <1>2 DEF Leave, ExecutorInv
<1>8. \A n \in Node : MarkInv(n)'
  BY <1>1, <1>4, <1>7, MarkFrame
<1>9. \A n \in Node : LeaseInv(n)' /\ Of(n)[1] = n /\ Of(n) # None /\ Of(n)' = Of(n)
                      /\ (HasSession(n)' <=> HasSession(n))
  BY <1>1, OfIsSession DEF OInv, LeaseInv, Of, HasSession
<1>10. ASSUME NEW n \in Node, NEW r \in Run \ unprotected', ~(n = e.node /\ r = e.run)
       PROVE  KeyKept(n, r)
  <2>1. CASE r # e.run
    BY <1>3, <1>9, <2>1 DEF KeyKept, Holds
  <2>2. CASE r = e.run /\ n # e.node
    BY <1>1, <1>9, <1>10, <2>2 DEF KeyKept, Holds
  <2> QED BY <1>10, <2>1, <2>2
<1>11. ASSUME NEW n \in Node, NEW r \in Run \ unprotected', Owns(recovery[n], r)
       PROVE  ~(n = e.node /\ r = e.run)
  BY <1>1, <1>2, <1>3, <1>11, Alone DEF Owns, Claimed, Claiming
<1>12. ASSUME NEW r \in Run \ unprotected', submission[r].at # "done" PROVE r # e.run
  BY <1>2, <1>3, <1>12 DEF ExecutorInv
<1>13. \A g \in executors' : g.run \notin unprotected' => KeyKept(g.node, g.run)
  BY <1>5, <1>10 DEF IsExecutor
<1> QED BY <1>1, <1>3, <1>4, <1>5, <1>6, <1>7, <1>8, <1>9, <1>10, <1>11, <1>12, <1>13,
           ExecutorGoes DEF store

-----------------------------------------------------------------------------
(* The steps of the recovery of process n, which touch only what n keeps.  *)
OnlyOf(n) ==
    /\ recovery' \in [Node -> RecoveryRecord] /\ marks' \in [Node -> SUBSET Run]
    /\ phase' \in [Node -> {"booting", "up", "stopping", "down"}] /\ phase'[n] # "down"
    /\ \A k \in Node \ {n} :
         recovery'[k] = recovery[k] /\ marks'[k] = marks[k] /\ phase'[k] = phase[k]

GatedAt(n, r) == \E e \in executors : e.node = n /\ e.run = r /\ e.gated

LEMMA RecoveryStep ==
    ASSUME OInv, Types', Steady, NEW n \in Node, OnlyOf(n), UNCHANGED submission,
           \A r \in Run : submission[r].at = "none" => status'[r] = status[r],
           executors \subseteq executors',
           \A e \in executors' : e \in executors \/ (e.node = n /\ ExecutorInv(e)'),
           \A k \in Node : active[k] \subseteq active'[k],
           \A e \in executors, g \in executors' :
              e.run \notin unprotected' /\ g.node = e.node /\ g.run = e.run => g = e,
           \A k \in Node : LeaseInv(k)' /\ (connected[k] => connected'[k]),
           \A k \in Node, r \in Run \ unprotected' : connected[k] => KeyKept(k, r),
           \A r \in Run \ unprotected' :
              submission[r].at \in {"none", "journalled", "created"} => key'[r] = key[r],
           \A r \in Run \ unprotected' :
              r \in marks'[n] /\ r \notin marks[n] => submission[r].at = "done",
           connected'[n] \/ (recovery'[n].at \in {"idle", "claiming"} /\ recovery'[n].claimed = {}
                             /\ executors' = executors),
           RecoveryInv(n)', MarkInv(n)'
    PROVE  OInv'
<1>1. ASSUME NEW k \in Node PROVE MemoryInv(k)' /\ RecoveryInv(k)' /\ MarkInv(k)'
  <2>1. MemoryInv(k)
    BY DEF OInv
  <2>2. CASE k = n
    <3>1. MemoryInv(k)'
      BY <2>1, <2>2 DEF MemoryInv, OnlyOf
    <3> QED BY <2>2, <3>1
  <2>3. CASE k # n
    <3>1. recovery'[k] = recovery[k] /\ marks'[k] = marks[k] /\ phase'[k] = phase[k]
          /\ \A e : e.node = k => (e \in executors' <=> e \in executors)
      BY <2>3 DEF OnlyOf
    <3>2. MemoryInv(k)'
      BY <2>1, <3>1 DEF MemoryInv
    <3>3. \A r \in Run : Owns(recovery[k], r) => connected[k]
      BY <2>1 DEF MemoryInv, Owns, Claimed, InTree, InTrees, OInv, Types
    <3>4. RecoveryInv(k)'
      BY <3>1, <3>3, RecoveryFrame
    <3>5. MarkInv(k)'
      BY <3>1, MarkFrame
    <3> QED BY <3>2, <3>4, <3>5
  <2> QED BY <2>2, <2>3
<1>2. ASSUME NEW r \in Run PROVE SubmissionInv(r)'
  <2>1. SubmissionInv(r)
    BY DEF OInv
  <2>2. submission[r].at = "leased" => submission[r].node \in Node /\ connected[submission[r].node]
    BY <2>1 DEF OInv, MemoryInv, Types, SubmissionInv
  <2>3. r \notin unprotected' /\ submission[r].at # "done" =>
           \A k \in Node : r \in marks'[k] => r \in marks[k]
    BY DEF OnlyOf
  <2> QED BY <2>1, <2>2, <2>3, SubmissionFrame
<1>3. ASSUME NEW e \in executors' PROVE ExecutorInv(e)'
  <2>1. CASE e \in executors
    <3>1. ExecutorInv(e) /\ e.node \in Node /\ e.run \in Run
      BY <2>1 DEF OInv, Types, IsExecutor
    <3>2. e.run \notin unprotected' => KeyKept(e.node, e.run) /\ e.run \notin unprotected
      BY <2>1, <3>1 DEF OInv, MemoryInv, Types, Steady
    <3> QED BY <2>1, <3>1, <3>2, ExecutorFrame DEF ExecutorInv
  <2> QED BY <2>1
<1> QED BY <1>1, <1>2, <1>3 DEF OInv

(* Steps of claiming, before any tree is recovered.                        *)
LEMMA ClaimsKeep ==
    ASSUME OInv, Steady, NEW n \in Node, ~InTrees(recovery[n]),
           recovery'[n].at \in {"idle", "claiming", "adopting", "overwriting", "healing"},
           recovery'[n].at \in {"idle", "claiming"} => recovery'[n].run = None,
           recovery'[n].at \in {"adopting", "overwriting", "healing"} => recovery'[n].run \in Run,
           \A r \in Run : r \in recovery'[n].todo \/ r \in recovery'[n].claimed
                          \/ r = recovery'[n].run => submission[r].at # "none",
           \A r \in Run \ unprotected' :
              /\ Claimed(recovery[n], r)' => Holds(n, r)' /\ submission[r].at = "done"
              /\ recovery'[n].at = "overwriting" /\ r = recovery'[n].run
                   => submission[r].at = "done",
           UNCHANGED <<submission, executors>>, marks'[n] = marks[n]
    PROVE  RecoveryInv(n)' /\ MarkInv(n)'
<1>1. ~InTrees(recovery[n])' /\ \A r \in Run : ~InTree(recovery[n], r)'
  BY DEF InTrees, InTree
<1>2. RecoveryInv(n)'
  BY <1>1 DEF RecoveryInv, Owns, Steady, InTrees
<1>3. MarkInv(n)'
  <2> SUFFICES ASSUME NEW r \in Run \ unprotected'
               PROVE  /\ BeingRecovered(n, r)' => r \in marks'[n]
                      /\ r \in marks'[n] =>
                           \/ BeingRecovered(n, r)' \/ journal'[r] = "ended"
                           \/ recovery'[n].at = "failed" /\ recovery'[n].run = r
    BY DEF MarkInv
  <2>1. r \in Run \ unprotected
    BY DEF Steady
  <2>2. BeingRecovered(n, r)' <=> BeingRecovered(n, r)
    BY DEF BeingRecovered, InTrees
  <2>3. r \in marks[n] => submission[r].at = "done"
    BY <2>1 DEF OInv, SubmissionInv
  <2>4. MarkInv(n)
    BY DEF OInv
  <2> QED BY <2>1, <2>2, <2>3, <2>4 DEF MarkInv, Steady, InTrees
<1> QED BY <1>2, <1>3

(* The next tree, if there is one.                                         *)
TreesGo(n, trees, marked) ==
    \/ /\ recovery'[n].at = "idle" /\ recovery'[n].run = None
       /\ recovery'[n].todo = {} /\ recovery'[n].claimed = {}
       /\ trees = {} /\ marks'[n] = marked
    \/ /\ recovery'[n].at = "marked" /\ recovery'[n].run \in trees
       /\ recovery'[n].todo = trees \ {recovery'[n].run} /\ recovery'[n].claimed = {}
       /\ marks'[n] = marked \union {recovery'[n].run}

LEMMA RecoverTreesDoes ==
    ASSUME OInv, NEW n \in Node, Running(n), NEW trees \in SUBSET Run, NEW marked \in SUBSET Run,
           RecoverTrees(n, trees, marked)
    PROVE  OnlyOf(n) /\ TreesGo(n, trees, marked)
<1> USE DEF OInv, Types
<1>1. CASE trees = {}
  <2>1. /\ recovery' = [recovery EXCEPT ![n] = Idle]
        /\ phase' = [phase EXCEPT ![n] = "up"]
        /\ marks' = [marks EXCEPT ![n] = marked]
    BY <1>1 DEF RecoverTrees, SetRecovery
  <2>2. Idle \in RecoveryRecord
    BY DEF Idle, RecoveryRecord, RecoveryStages
  <2> QED BY <1>1, <2>1, <2>2 DEF OnlyOf, TreesGo, Idle
<1>2. CASE trees # {}
  <2>1. PICK r \in trees :
          /\ recovery' = [recovery EXCEPT ![n] =
                            [Idle EXCEPT !.at = "marked", !.todo = trees \ {r}, !.run = r]]
          /\ marks' = [marks EXCEPT ![n] = marked \union {r}]
    BY <1>2 DEF RecoverTrees, SetRecovery
  <2>2. phase' = phase /\ phase[n] # "down"
    BY <1>2 DEF RecoverTrees, Running
  <2>3. [Idle EXCEPT !.at = "marked", !.todo = trees \ {r}, !.run = r] \in RecoveryRecord
    BY DEF Idle, RecoveryRecord, RecoveryStages
  <2>4. OnlyOf(n)
    BY <2>1, <2>2, <2>3 DEF OnlyOf
  <2>5. recovery'[n] = [Idle EXCEPT !.at = "marked", !.todo = trees \ {r}, !.run = r]
        /\ marks'[n] = marked \union {r}
    BY <2>1
  <2> QED BY <2>4, <2>5 DEF TreesGo, Idle
<1> QED BY <1>1, <1>2

LEMMA TreesKeep ==
    ASSUME OInv, Steady, NEW n \in Node, NEW trees \in SUBSET Run, NEW marked \in SUBSET Run,
           TreesGo(n, trees, marked),
           \A r \in trees : submission'[r].at # "none",
           \A r \in trees \ unprotected' :
              /\ Holds(n, r)' /\ submission'[r].at = "done"
              /\ \A e \in executors' : ~(e.node = n /\ e.run = r),
           \A r \in Run \ unprotected' :
              /\ GatedAt(n, r)' => r \in marked
              /\ r \in marked => GatedAt(n, r)' \/ journal'[r] = "ended"
    PROVE  RecoveryInv(n)' /\ MarkInv(n)'
<1>1. \A r \in Run : r = recovery'[n].run \/ r \in recovery'[n].todo => r \in trees
  BY DEF TreesGo
<1>2. RecoveryInv(n)'
  BY <1>1 DEF TreesGo, RecoveryInv, Owns, Claimed, InTree, InTrees
<1>3. MarkInv(n)'
  BY DEF MarkInv, BeingRecovered, GatedAt, TreesGo
<1> QED BY <1>2, <1>3

(* From one claim to the next, or to the trees that were claimed.          *)
LEMMA GoOnKeeps ==
    ASSUME OInv, Steady, NEW n \in Node, Running(n), NEW rec \in RecoveryRecord, GoOn(n, rec),
           ~InTrees(recovery[n]), UNCHANGED <<submission, executors, journal>>,
           \A r \in Run : r \in rec.todo \/ r \in rec.claimed => submission[r].at # "none",
           \A r \in Run \ unprotected' :
              r \in rec.claimed => Holds(n, r)' /\ submission[r].at = "done"
    PROVE  /\ OnlyOf(n) /\ RecoveryInv(n)' /\ MarkInv(n)'
           /\ \A r \in Run \ unprotected' :
                r \in marks'[n] /\ r \notin marks[n] => submission[r].at = "done"
           /\ rec.claimed = {} =>
                recovery'[n].at \in {"idle", "claiming"} /\ recovery'[n].claimed = {}
<1>1. CASE rec.todo # {}
  <2> DEFINE next == [rec EXCEPT !.at = "claiming", !.run = None, !.owner = None]
  <2>1. recovery' = [recovery EXCEPT ![n] = next] /\ UNCHANGED <<phase, marks>>
    BY <1>1 DEF GoOn, SetRecovery
  <2>2. next \in RecoveryRecord /\ next.at = "claiming" /\ next.run = None
        /\ next.todo = rec.todo /\ next.claimed = rec.claimed
    BY DEF RecoveryRecord, RecoveryStages
  <2> HIDE DEF next
  <2>3. recovery'[n] = next
    BY <2>1 DEF OInv, Types
  <2>4. OnlyOf(n)
    BY <2>1, <2>2 DEF OnlyOf, OInv, Types, Running
  <2>5. \A r \in Run : Claimed(recovery[n], r)' <=> r \in rec.claimed
    BY <2>2, <2>3 DEF Claimed
  <2>6. \A r \in Run : r # None
    OBVIOUS
  <2>7. RecoveryInv(n)' /\ MarkInv(n)'
    BY <2>1, <2>2, <2>3, <2>5, <2>6, ClaimsKeep
  <2> QED BY <2>1, <2>2, <2>3, <2>4, <2>7
<1>2. CASE rec.todo = {}
  <2> DEFINE trees == rec.claimed \ active[n]
  <2>1. trees \in SUBSET Run /\ marks[n] \in SUBSET Run /\ RecoverTrees(n, trees, marks[n])
    BY <1>2 DEF GoOn, RecoveryRecord, OInv, Types
  <2>2. OnlyOf(n) /\ TreesGo(n, trees, marks[n])
    BY <2>1, RecoverTreesDoes
  <2>3. \A r \in trees : submission'[r].at # "none"
    BY <2>1
  <2>4. \A r \in trees \ unprotected' :
           /\ Holds(n, r)' /\ submission'[r].at = "done"
           /\ \A e \in executors' : ~(e.node = n /\ e.run = r)
    BY <2>1 DEF OInv, ExecutorInv, Steady
  <2>5. \A r \in Run \ unprotected' :
           /\ GatedAt(n, r)' => r \in marks[n]
           /\ r \in marks[n] => GatedAt(n, r)' \/ journal'[r] = "ended"
    BY DEF OInv, MarkInv, BeingRecovered, GatedAt, InTrees, Steady
  <2>6. rec.claimed = {} =>
           recovery'[n].at \in {"idle", "claiming"} /\ recovery'[n].claimed = {}
    BY <2>2 DEF TreesGo
  <2>7. \A r \in Run \ unprotected' :
           r \in marks'[n] /\ r \notin marks[n] => submission[r].at = "done"
    BY <2>2, <2>4 DEF TreesGo
  <2> HIDE DEF trees
  <2>8. RecoveryInv(n)' /\ MarkInv(n)'
    BY <2>1, <2>2, <2>3, <2>4, <2>5, TreesKeep
  <2> QED BY <2>2, <2>6, <2>7, <2>8
<1> QED BY <1>1, <1>2

(* Steps of n's recovery that spawn nothing and take no key.               *)
LEMMA QuietRecoveryStep ==
    ASSUME OInv, NEW n \in Node, OnlyOf(n),
           UNCHANGED <<journal, etcd, epoch, connected, active, submission, executors, sweep,
                       unprotected>>,
           status' \in [Run -> {"none", "Running", "Completed", "Failed"}],
           \A r \in Run : submission[r].at = "none" => status'[r] = status[r],
           orchestrator' \in [Run -> Node \union {None}],
           faults' \in Seq(Fault),
           \A r \in Run \ unprotected' :
              r \in marks'[n] /\ r \notin marks[n] => submission[r].at = "done",
           connected[n] \/ (recovery'[n].at \in {"idle", "claiming"} /\ recovery'[n].claimed = {}),
           RecoveryInv(n)', MarkInv(n)'
    PROVE  OInv'
<1>1. Types'
  BY DEF OInv, Types, etcd, OnlyOf
<1>2. Steady
  BY DEF Steady
<1>3. \A k \in Node : LeaseInv(k)' /\ \A r \in Run : KeyKept(k, r)
  BY SameKeys
<1>4. \A e \in executors, g \in executors' :
         e.run \notin unprotected' /\ g.node = e.node /\ g.run = e.run => g = e
  BY Alone
<1> QED BY <1>1, <1>2, <1>3, <1>4, RecoveryStep DEF etcd

LEMMA ListRunsKeeps == ASSUME OInv, NEW n \in Node, ListRuns(n) PROVE OInv'
<1>1. PICK own \in Listed(RunningRuns(n), MaxClaims) :
        \E orphans \in Listed(RunningRuns(None), MaxClaims - Cardinality(own)) :
          GoOn(n, [Idle EXCEPT !.todo = own \union orphans, !.orphans = orphans])
  BY DEF ListRuns
<1>2. PICK orphans \in Listed(RunningRuns(None), MaxClaims - Cardinality(own)) :
        GoOn(n, [Idle EXCEPT !.todo = own \union orphans, !.orphans = orphans])
  BY <1>1
<1>3. /\ recovery[n].at = "idle" /\ Running(n)
      /\ UNCHANGED <<store, etcd, epoch, connected, active, submission, executors, sweep,
                     unprotected, faults>>
  BY DEF ListRuns, AtRecovery
<1>4. own \subseteq RunningRuns(n) /\ orphans \subseteq RunningRuns(None)
  BY DEF Listed, kSubset
<1> DEFINE rec == [Idle EXCEPT !.todo = own \union orphans, !.orphans = orphans]
<1>5. rec \in RecoveryRecord /\ rec.todo = own \union orphans /\ rec.claimed = {} /\ GoOn(n, rec)
  BY <1>2, <1>4 DEF Idle, RecoveryRecord, RecoveryStages, RunningRuns
<1> HIDE DEF rec
<1>6. \A r \in Run : r \in own \union orphans => submission[r].at # "none"
  BY <1>4 DEF RunningRuns, OInv, SubmissionInv
<1>7. Steady /\ ~InTrees(recovery[n])
  BY <1>3 DEF Steady, store, InTrees
<1>8. /\ OnlyOf(n) /\ RecoveryInv(n)' /\ MarkInv(n)'
      /\ \A r \in Run \ unprotected' :
           r \in marks'[n] /\ r \notin marks[n] => submission[r].at = "done"
      /\ recovery'[n].at \in {"idle", "claiming"} /\ recovery'[n].claimed = {}
  BY <1>3, <1>5, <1>6, <1>7, GoOnKeeps DEF store
<1> QED BY <1>3, <1>8, QuietRecoveryStep DEF store, OInv, Types

(* A process that is past listing its runs has a lease.                    *)
LEMMA Connected ==
    ASSUME OInv, NEW n \in Node, Running(n), recovery[n].at \notin {"idle", "claiming"}
    PROVE  connected[n]
BY DEF OInv, MemoryInv, Types, Running

LEMMA AdoptKeeps == ASSUME OInv, NEW n \in Node, Adopt(n) PROVE OInv'
<1> DEFINE rec == [recovery[n] EXCEPT !.claimed = @ \union {recovery[n].run}]
<1>1. /\ recovery[n].at = "adopting" /\ Running(n) /\ GoOn(n, rec)
      /\ orchestrator' = [orchestrator EXCEPT ![recovery[n].run] = n]
      /\ UNCHANGED <<status, journal, etcd, epoch, connected, active, submission, executors,
                     sweep, unprotected, faults>>
  BY DEF Adopt, AtRecovery
<1>2. recovery[n] \in RecoveryRecord /\ RecoveryInv(n) /\ recovery[n].run \in Run
  BY <1>1 DEF OInv, Types, RecoveryInv
<1>3. /\ rec \in RecoveryRecord /\ rec.todo = recovery[n].todo
      /\ rec.claimed = recovery[n].claimed \union {recovery[n].run}
  BY <1>2 DEF RecoveryRecord
<1> HIDE DEF rec
<1>4. Steady /\ ~InTrees(recovery[n]) /\ connected[n]
  BY <1>1, Connected DEF Steady, InTrees
<1>5. \A r \in Run : r \in rec.todo \/ r \in rec.claimed => submission[r].at # "none"
  BY <1>2, <1>3 DEF RecoveryInv
<1>6. \A r \in Run \ unprotected' :
         r \in rec.claimed => Holds(n, r)' /\ submission[r].at = "done"
  <2>1. \A r \in Run : KeyKept(n, r)
    BY <1>1, SameKeys
  <2> QED BY <1>1, <1>2, <1>3, <2>1 DEF RecoveryInv, Owns, Claimed, KeyKept
<1>7. /\ OnlyOf(n) /\ RecoveryInv(n)' /\ MarkInv(n)'
      /\ \A r \in Run \ unprotected' :
           r \in marks'[n] /\ r \notin marks[n] => submission[r].at = "done"
  BY <1>1, <1>3, <1>4, <1>5, <1>6, GoOnKeeps
<1>8. orchestrator' \in [Run -> Node \union {None}]
  BY <1>1, <1>2 DEF OInv, Types
<1> QED BY <1>1, <1>4, <1>7, <1>8, QuietRecoveryStep DEF OInv, Types

LEMMA HealKeeps == ASSUME OInv, NEW n \in Node, Heal(n) PROVE OInv'
<1>1. /\ recovery[n].at = "healing" /\ Running(n) /\ GoOn(n, recovery[n])
      /\ orchestrator' = [orchestrator EXCEPT ![recovery[n].run] = recovery[n].owner]
      /\ UNCHANGED <<status, journal, etcd, epoch, connected, active, submission, executors,
                     sweep, unprotected, faults>>
  BY DEF Heal, AtRecovery
<1>2. recovery[n] \in RecoveryRecord /\ RecoveryInv(n)
  BY DEF OInv, Types
<1>3. Steady /\ ~InTrees(recovery[n]) /\ connected[n]
  BY <1>1, Connected DEF Steady, InTrees
<1>4. \A r \in Run : r \in recovery[n].todo \/ r \in recovery[n].claimed
                       => submission[r].at # "none"
  BY <1>2 DEF RecoveryInv
<1>5. \A r \in Run \ unprotected' :
         r \in recovery[n].claimed => Holds(n, r)' /\ submission[r].at = "done"
  <2>1. \A r \in Run : KeyKept(n, r)
    BY <1>1, SameKeys
  <2> QED BY <1>1, <1>2, <2>1 DEF RecoveryInv, Owns, Claimed, KeyKept
<1>6. /\ OnlyOf(n) /\ RecoveryInv(n)' /\ MarkInv(n)'
      /\ \A r \in Run \ unprotected' :
           r \in marks'[n] /\ r \notin marks[n] => submission[r].at = "done"
  BY <1>1, <1>2, <1>3, <1>4, <1>5, GoOnKeeps
<1>7. orchestrator' \in [Run -> Node \union {None}]
  BY <1>1, <1>2 DEF OInv, Types, RecoveryRecord
<1> QED BY <1>1, <1>3, <1>6, <1>7, QuietRecoveryStep DEF OInv, Types

(* The trees that are still to be recovered, while one of them is.         *)
LEMMA TreesLeft ==
    ASSUME OInv, NEW n \in Node, InTrees(recovery[n])
    PROVE  /\ recovery[n].todo \in SUBSET Run /\ recovery[n].run \in Run \ recovery[n].todo
           /\ recovery[n].claimed = {}
           /\ submission[recovery[n].run].at # "none"
           /\ \A r \in recovery[n].todo : submission[r].at # "none"
           /\ \A r \in (recovery[n].todo \union {recovery[n].run}) \ unprotected :
                /\ Holds(n, r) /\ submission[r].at = "done"
                /\ \A e \in executors : ~(e.node = n /\ e.run = r)
<1>1. recovery[n] \in RecoveryRecord /\ RecoveryInv(n)
  BY DEF OInv, Types
<1> QED BY <1>1 DEF RecoveryRecord, RecoveryInv, Owns, InTree

LEMMA TreeStays ==
    ASSUME OInv, NEW n \in Node, InTrees(recovery[n]),
           recovery'[n].at \in {"replayed", "syncing", "failed"},
           recovery'[n].at = "syncing" => journal[recovery[n].run] = "ended",
           recovery'[n].todo = recovery[n].todo, recovery'[n].run = recovery[n].run,
           recovery'[n].claimed = recovery[n].claimed,
           UNCHANGED <<journal, submission, executors, etcd, epoch, connected, unprotected>>
    PROVE  RecoveryInv(n)'
<1>1. /\ recovery[n].run \in Run \ recovery[n].todo /\ recovery[n].claimed = {}
      /\ \A r \in recovery[n].todo \union {recovery[n].run} : submission[r].at # "none"
      /\ \A r \in (recovery[n].todo \union {recovery[n].run}) \ unprotected :
           /\ Holds(n, r) /\ submission[r].at = "done"
           /\ \A e \in executors : ~(e.node = n /\ e.run = r)
  BY TreesLeft
<1>2. InTrees(recovery[n])' /\ \A r \in Run : ~Claimed(recovery[n], r)'
  BY <1>1 DEF InTrees, Claimed
<1>3. \A r \in Run : InTree(recovery[n], r)' => r \in recovery[n].todo \union {recovery[n].run}
  BY DEF InTree
<1>4. ASSUME NEW r \in Run \ unprotected'
      PROVE  /\ Owns(recovery[n], r)' => Holds(n, r)' /\ submission'[r].at = "done"
             /\ InTree(recovery[n], r)' => \A e \in executors' : ~(e.node = n /\ e.run = r)
  <2>1. Holds(n, r) => Holds(n, r)'
    BY SameKeys DEF KeyKept
  <2> QED BY <1>1, <1>2, <1>3, <2>1 DEF Owns
<1> QED BY <1>1, <1>2, <1>4 DEF RecoveryInv

LEMMA ReplayKeeps == ASSUME OInv, NEW n \in Node, Replay(n) PROVE OInv'
<1> DEFINE next == IF journal[recovery[n].run] = "ended" THEN "syncing" ELSE "replayed"
<1>1. /\ recovery[n].at = "marked" /\ Running(n)
      /\ recovery' = [recovery EXCEPT ![n] = [recovery[n] EXCEPT !.at = next]]
      /\ UNCHANGED <<store, etcd, process, submission, executors, sweep, unprotected, faults>>
  BY DEF Replay, AtRecovery, SetRecovery
<1>2. recovery[n] \in RecoveryRecord /\ RecoveryInv(n) /\ MarkInv(n)
  BY DEF OInv, Types
<1>3. /\ recovery'[n] \in RecoveryRecord /\ recovery'[n].at = next
      /\ recovery'[n].todo = recovery[n].todo /\ recovery'[n].run = recovery[n].run
      /\ recovery'[n].claimed = recovery[n].claimed
      /\ \A k \in Node \ {n} : recovery'[k] = recovery[k]
      /\ recovery' \in [Node -> RecoveryRecord]
  BY <1>1, <1>2 DEF OInv, Types, RecoveryRecord, RecoveryStages
<1>4. OnlyOf(n)
  BY <1>1, <1>3 DEF OnlyOf, OInv, Types, process, Running
<1>5. InTrees(recovery[n])
  BY <1>1 DEF InTrees
<1>7. RecoveryInv(n)'
  BY <1>1, <1>3, <1>5, TreeStays DEF store, process
<1>8. MarkInv(n)'
  BY <1>1, <1>2, <1>3 DEF MarkInv, BeingRecovered, store, process
<1>9. connected[n]
  BY <1>1, Connected
<1> QED BY <1>1, <1>4, <1>7, <1>8, <1>9, QuietRecoveryStep DEF OInv, Types, store, process

LEMMA SyncStatusKeeps == ASSUME OInv, NEW n \in Node, SyncStatus(n) PROVE OInv'
<1>1. /\ recovery[n].at = "syncing" /\ Running(n)
      /\ status' = [status EXCEPT ![recovery[n].run] = "Completed"]
      /\ RecoverTrees(n, recovery[n].todo, marks[n])
      /\ UNCHANGED <<orchestrator, journal, etcd, epoch, connected, active, submission,
                     executors, sweep, unprotected, faults>>
  BY DEF SyncStatus, AtRecovery
<1>2. /\ recovery[n].todo \in SUBSET Run /\ recovery[n].run \in Run \ recovery[n].todo
      /\ submission[recovery[n].run].at # "none"
      /\ \A r \in recovery[n].todo : submission[r].at # "none"
      /\ \A r \in recovery[n].todo \ unprotected :
           /\ Holds(n, r) /\ submission[r].at = "done"
           /\ \A e \in executors : ~(e.node = n /\ e.run = r)
  BY <1>1, TreesLeft DEF InTrees
<1>3. OnlyOf(n) /\ TreesGo(n, recovery[n].todo, marks[n]) /\ marks[n] \in SUBSET Run
  BY <1>1, <1>2, RecoverTreesDoes DEF OInv, Types
<1>4. Steady
  BY <1>1 DEF Steady
<1>5. \A r \in recovery[n].todo \ unprotected' : Holds(n, r)'
  BY <1>1, <1>2, SameKeys DEF KeyKept
<1>6. \A r \in Run \ unprotected' :
         /\ GatedAt(n, r)' => r \in marks[n]
         /\ r \in marks[n] => GatedAt(n, r)' \/ journal'[r] = "ended"
  BY <1>1 DEF OInv, MarkInv, BeingRecovered, GatedAt, RecoveryInv
<1>7. RecoveryInv(n)' /\ MarkInv(n)'
  BY <1>1, <1>2, <1>3, <1>4, <1>5, <1>6, TreesKeep
<1>8. \A r \in Run \ unprotected' :
         r \in marks'[n] /\ r \notin marks[n] => submission[r].at = "done"
  BY <1>1, <1>2, <1>3 DEF TreesGo
<1>9. connected[n]
  BY <1>1, Connected
<1>10. /\ status' \in [Run -> {"none", "Running", "Completed", "Failed"}]
       /\ \A r \in Run : submission[r].at = "none" => status'[r] = status[r]
  BY <1>1, <1>2 DEF OInv, Types
<1> QED BY <1>1, <1>3, <1>7, <1>8, <1>9, <1>10, QuietRecoveryStep DEF OInv, Types

LEMMA RecoveryFailsKeeps == ASSUME OInv, NEW n \in Node, RecoveryFails(n) PROVE OInv'
<1>1. /\ recovery[n].at = "replayed" /\ Running(n) /\ faults' \in Seq(Fault)
      /\ status' = [status EXCEPT ![recovery[n].run] = "Failed"]
      /\ recovery' = [recovery EXCEPT ![n] = [recovery[n] EXCEPT !.at = "failed"]]
      /\ UNCHANGED <<orchestrator, journal, etcd, process, submission, executors, sweep,
                     unprotected>>
  BY FaultsLeft DEF RecoveryFails, AtRecovery, SetRecovery, OInv, Types
<1>2. recovery[n] \in RecoveryRecord /\ RecoveryInv(n) /\ MarkInv(n)
  BY DEF OInv, Types
<1>3. /\ recovery'[n].at = "failed" /\ recovery' \in [Node -> RecoveryRecord]
      /\ recovery'[n].todo = recovery[n].todo /\ recovery'[n].run = recovery[n].run
      /\ recovery'[n].claimed = recovery[n].claimed
      /\ \A k \in Node \ {n} : recovery'[k] = recovery[k]
  BY <1>1, <1>2 DEF OInv, Types, RecoveryRecord, RecoveryStages
<1>4. OnlyOf(n)
  BY <1>1, <1>3 DEF OnlyOf, OInv, Types, process, Running
<1>5. InTrees(recovery[n])
  BY <1>1 DEF InTrees
<1>7. RecoveryInv(n)'
  BY <1>1, <1>3, <1>5, TreeStays DEF process
<1>8. MarkInv(n)'
  BY <1>1, <1>2, <1>3 DEF MarkInv, BeingRecovered, process
<1>9. connected[n]
  BY <1>1, Connected
<1>10. /\ status' \in [Run -> {"none", "Running", "Completed", "Failed"}]
       /\ \A r \in Run : submission[r].at = "none" => status'[r] = status[r]
       /\ faults' \in Seq(Fault)
  BY <1>1, TreesLeft DEF OInv, Types, InTrees
<1> QED BY <1>1, <1>4, <1>7, <1>8, <1>9, <1>10, QuietRecoveryStep DEF OInv, Types, process

LEMMA UnmarkKeeps == ASSUME OInv, NEW n \in Node, Unmark(n) PROVE OInv'
<1> DEFINE left == marks[n] \ {recovery[n].run}
<1>1. /\ recovery[n].at = "failed" /\ Running(n)
      /\ RecoverTrees(n, recovery[n].todo, left)
      /\ UNCHANGED <<store, etcd, epoch, connected, active, submission, executors, sweep,
                     unprotected, faults>>
  BY DEF Unmark, AtRecovery
<1>2. /\ recovery[n].todo \in SUBSET Run /\ recovery[n].run \in Run \ recovery[n].todo
      /\ \A r \in recovery[n].todo : submission[r].at # "none"
      /\ \A r \in (recovery[n].todo \union {recovery[n].run}) \ unprotected :
           /\ Holds(n, r) /\ submission[r].at = "done"
           /\ \A e \in executors : ~(e.node = n /\ e.run = r)
  BY <1>1, TreesLeft DEF InTrees
<1>3. OnlyOf(n) /\ TreesGo(n, recovery[n].todo, left) /\ left \in SUBSET Run
  <2>1. left \in SUBSET Run
    BY DEF OInv, Types
  <2> HIDE DEF left
  <2> QED BY <1>1, <1>2, <2>1, RecoverTreesDoes
<1>4. Steady
  BY <1>1 DEF Steady, store
<1>5. \A r \in recovery[n].todo \ unprotected' : Holds(n, r)'
  BY <1>1, <1>2, SameKeys DEF KeyKept
<1>6. \A r \in Run \ unprotected' :
         /\ GatedAt(n, r)' => r \in left
         /\ r \in left => GatedAt(n, r)' \/ journal'[r] = "ended"
  BY <1>1, <1>2 DEF OInv, MarkInv, BeingRecovered, GatedAt, store
<1>7. \A r \in Run \ unprotected' :
         r \in marks'[n] /\ r \notin marks[n] => submission[r].at = "done"
  BY <1>1, <1>2, <1>3 DEF TreesGo
<1> HIDE DEF left
<1>8. RecoveryInv(n)' /\ MarkInv(n)'
  BY <1>1, <1>2, <1>3, <1>4, <1>5, <1>6, TreesKeep
<1>9. connected[n]
  BY <1>1, Connected
<1> QED BY <1>1, <1>3, <1>7, <1>8, <1>9, QuietRecoveryStep DEF OInv, Types, store

(* What claiming one run does to the recovery of n.                        *)
Recovers(n) ==
    /\ OnlyOf(n) /\ RecoveryInv(n)' /\ MarkInv(n)'
    /\ \A r \in Run \ unprotected' :
         r \in marks'[n] /\ r \notin marks[n] => submission[r].at = "done"

LEMMA PauseKeeps ==
    ASSUME OInv, Steady, NEW n \in Node, Running(n), NEW next \in RecoveryRecord,
           SetRecovery(n, next), next.at \in {"adopting", "overwriting", "healing"},
           next.run \in Run, ~InTrees(recovery[n]),
           UNCHANGED <<phase, marks, submission, executors>>,
           \A r \in Run : r \in next.todo \/ r \in next.claimed \/ r = next.run
                            => submission[r].at # "none",
           \A r \in Run \ unprotected' :
              /\ r \in next.claimed \/ (next.at = "adopting" /\ r = next.run)
                   => Holds(n, r)' /\ submission[r].at = "done"
              /\ next.at = "overwriting" /\ r = next.run => submission[r].at = "done"
    PROVE  Recovers(n)
<1>1. recovery'[n] = next /\ recovery' = [recovery EXCEPT ![n] = next]
  BY DEF SetRecovery, OInv, Types
<1>2. OnlyOf(n)
  BY <1>1 DEF OnlyOf, OInv, Types, Running
<1>3. \A r \in Run : Claimed(recovery[n], r)' <=>
                       r \in next.claimed \/ (next.at = "adopting" /\ r = next.run)
  BY <1>1 DEF Claimed
<1>4. RecoveryInv(n)' /\ MarkInv(n)'
  BY <1>1, <1>3, ClaimsKeep
<1> QED BY <1>2, <1>4 DEF Recovers

LEMMA OwnedKeeps ==
    ASSUME OInv, Steady, NEW n \in Node, Running(n), NEW rec \in RecoveryRecord, NEW r \in Run,
           Owned(n, rec, r), ~InTrees(recovery[n]),
           UNCHANGED <<submission, executors, journal>>,
           \A q \in Run : q \in rec.todo \/ q \in rec.claimed \/ q = r
                            => submission[q].at # "none",
           \A q \in Run \ unprotected' :
              q \in rec.claimed \/ q = r => Holds(n, q)' /\ submission[q].at = "done"
    PROVE  Recovers(n)
<1>1. CASE r \in rec.orphans
  <2> DEFINE next == [rec EXCEPT !.at = "adopting", !.run = r]
  <2>1. SetRecovery(n, next) /\ UNCHANGED <<phase, marks>>
    BY <1>1 DEF Owned
  <2>2. next \in RecoveryRecord /\ next.at = "adopting" /\ next.run = r
        /\ next.todo = rec.todo /\ next.claimed = rec.claimed
    BY DEF RecoveryRecord, RecoveryStages
  <2> HIDE DEF next
  <2> QED BY <2>1, <2>2, PauseKeeps
<1>2. CASE r \notin rec.orphans
  <2> DEFINE next == [rec EXCEPT !.claimed = @ \union {r}]
  <2>1. GoOn(n, next)
    BY <1>2 DEF Owned
  <2>2. next \in RecoveryRecord /\ next.todo = rec.todo /\ next.claimed = rec.claimed \union {r}
    BY DEF RecoveryRecord
  <2> HIDE DEF next
  <2> QED BY <2>1, <2>2, GoOnKeeps DEF Recovers
<1> QED BY <1>1, <1>2

LEMMA ClaimKeeps == ASSUME OInv, NEW n \in Node, NEW r \in Run, Claim(n, r) PROVE OInv'
<1> DEFINE rest == Without(n, r)
<1> DEFINE outcome == AcquireOutcome(n, r)
<1>1. /\ recovery[n].at = "claiming" /\ Running(n) /\ r \in recovery[n].todo
      /\ TryAcquire(n, r)
      /\ outcome = "acquired" => Owned(n, rest, r)
      /\ outcome = "error" => GoOn(n, rest)
      /\ unprotected' = IF outcome \in {"acquired", "mine"} /\ Submitting(r)
                        THEN unprotected \union {r} ELSE unprotected
      /\ UNCHANGED <<store, epoch, active, submission, executors, sweep, faults>>
  BY DEF Claim, AtRecovery
<1>2. outcome \in {"mine", "theirs"} =>
         /\ SetRecovery(n, [rest EXCEPT
              !.at = IF outcome = "mine" THEN "overwriting" ELSE "healing",
              !.run = r, !.owner = key[r][1]])
         /\ UNCHANGED <<phase, marks>>
  BY DEF Claim
<1>3. recovery[n] \in RecoveryRecord /\ RecoveryInv(n) /\ MemoryInv(n)
  BY DEF OInv, Types
<1>4. /\ rest \in RecoveryRecord /\ rest.todo = recovery[n].todo \ {r}
      /\ rest.claimed = recovery[n].claimed
  BY <1>3 DEF Without, RecoveryRecord
<1>5. /\ sessions' \subseteq Session
      /\ connected' \in [Node -> BOOLEAN] /\ connected'[n]
      /\ \A k \in Node : LeaseInv(k)' /\ (connected[k] => connected'[k])
  BY <1>1, EnsureLeaseKeeps DEF TryAcquire
<1>6. /\ heartbeats' \subseteq sessions'
      /\ key' \in [Run -> sessions' \union {None}]
      /\ \A q \in Run \ {r} : key'[q] = key[q]
      /\ outcome \in {"acquired", "error", "mine", "theirs"}
      /\ outcome = "acquired" => key'[r] = Of(n)
      /\ outcome # "acquired" => key'[r] = key[r]
      /\ outcome \in {"mine", "theirs"} => key[r] # None
      /\ \A k \in Node, q \in Run : connected[k] => KeyKept(k, q)
  BY <1>1, AcquireKeeps
<1> HIDE DEF rest
<1>7. /\ submission[r].at # "none"
      /\ outcome \in {"acquired", "mine"} /\ r \notin unprotected' => submission[r].at = "done"
  BY <1>1, <1>3 DEF RecoveryInv, Submitting, OInv, Types, Stages
<1>8. Steady
  BY <1>1 DEF Steady, store
<1>9. ~InTrees(recovery[n])
  BY <1>1 DEF InTrees
<1>10. \A q \in Run : q \in rest.todo \/ q \in rest.claimed \/ q = r => submission[q].at # "none"
  BY <1>3, <1>4, <1>7 DEF RecoveryInv
<1>11. ASSUME NEW q \in Run \ unprotected', q \in rest.claimed
       PROVE  Holds(n, q)' /\ submission[q].at = "done"
  <2>1. q \notin unprotected /\ Owns(recovery[n], q)
    BY <1>4, <1>8, <1>11 DEF Steady, Owns, Claimed
  <2>2. connected[n]
    BY <1>3, <1>4, <1>11 DEF MemoryInv, OInv, Types
  <2> QED BY <1>3, <1>6, <2>1, <2>2 DEF RecoveryInv, KeyKept
<1>12. Recovers(n)
  <2>1. CASE outcome = "acquired"
    <3>1. Holds(n, r)'
      BY <1>1, <1>6, <2>1 DEF Holds, Of
    <3> QED BY <1>1, <1>4, <1>7, <1>8, <1>9, <1>10, <1>11, <2>1, <3>1, OwnedKeeps DEF store
  <2>2. CASE outcome = "error"
    BY <1>1, <1>4, <1>8, <1>9, <1>10, <1>11, <2>2, GoOnKeeps DEF store, Recovers
  <2>3. CASE outcome \in {"mine", "theirs"}
    <3> DEFINE next == [rest EXCEPT
                          !.at = IF outcome = "mine" THEN "overwriting" ELSE "healing",
                          !.run = r, !.owner = key[r][1]]
    <3>1. SetRecovery(n, next) /\ UNCHANGED <<phase, marks>>
      BY <1>2, <2>3
    <3>2. key[r][1] \in Node
      BY <1>6, <2>3 DEF OInv, Types, Session
    <3>3. /\ next \in RecoveryRecord /\ next.todo = rest.todo /\ next.claimed = rest.claimed
          /\ next.run = r /\ next.at \in {"overwriting", "healing"}
          /\ next.at = "overwriting" => outcome = "mine"
      BY <1>4, <3>2 DEF RecoveryRecord, RecoveryStages
    <3> HIDE DEF next
    <3> QED BY <1>1, <1>7, <1>8, <1>9, <1>10, <1>11, <3>1, <3>3, PauseKeeps
  <2> QED BY <1>6, <2>1, <2>2, <2>3
<1>13. Types'
  BY <1>1, <1>5, <1>6, <1>12 DEF OInv, Types, Recovers, OnlyOf, store
<1>14. \A q \in Run \ unprotected' :
          submission[q].at \in {"none", "journalled", "created"} => key'[q] = key[q]
  BY <1>6, <1>7
<1>15. \A e \in executors, g \in executors' :
          e.run \notin unprotected' /\ g.node = e.node /\ g.run = e.run => g = e
  BY <1>1, <1>8, Alone DEF Steady
<1> HIDE DEF outcome
<1> QED BY <1>1, <1>5, <1>6, <1>8, <1>12, <1>13, <1>14, <1>15, RecoveryStep DEF Recovers, store

LEMMA ClaimOverwriteKeeps == ASSUME OInv, NEW n \in Node, ClaimOverwrite(n) PROVE OInv'
<1>0. PICK r \in Run : r = recovery[n].run
  BY DEF OInv, RecoveryInv, ClaimOverwrite, AtRecovery
<1>1. /\ recovery[n].at = "overwriting" /\ Running(n)
      /\ Overwrite(n, r)
      /\ IF Of(n) \in sessions THEN Owned(n, recovery[n], r) ELSE GoOn(n, recovery[n])
      /\ UNCHANGED <<store, epoch, active, submission, executors, sweep, faults>>
  BY <1>0 DEF ClaimOverwrite, AtRecovery
<1>2. recovery[n] \in RecoveryRecord /\ RecoveryInv(n)
  BY DEF OInv, Types
<1>3. /\ key' \in [Run -> sessions' \union {None}]
      /\ unprotected' \in SUBSET Run /\ unprotected \subseteq unprotected'
      /\ \A q \in Run \ {r} : key'[q] = key[q]
      /\ UNCHANGED <<sessions, heartbeats, connected>>
      /\ \A k \in Node, q \in Run \ unprotected' : KeyKept(k, q)
      /\ Holds(n, r)' \/ ~HasSession(n)
      /\ \A k \in Node : LeaseInv(k)'
  BY <1>1, <1>2, OverwriteKeeps
<1>4. Steady /\ ~InTrees(recovery[n]) /\ connected[n]
  BY <1>1, <1>3, Connected DEF Steady, store, InTrees
<1>5. \A q \in Run : q \in recovery[n].todo \/ q \in recovery[n].claimed \/ q = r
                       => submission[q].at # "none"
  BY <1>0, <1>2 DEF RecoveryInv
<1>6. ASSUME NEW q \in Run \ unprotected', q \in recovery[n].claimed
      PROVE  Holds(n, q)' /\ submission[q].at = "done"
  BY <1>2, <1>3, <1>6 DEF RecoveryInv, Owns, Claimed, KeyKept
<1>7. r \notin unprotected' => submission[r].at = "done"
  BY <1>0, <1>1, <1>2, <1>3 DEF RecoveryInv
<1>8. Recovers(n)
  <2>1. CASE HasSession(n)
    <3>1. Owned(n, recovery[n], r) /\ Holds(n, r)'
      BY <1>1, <1>3, <2>1 DEF HasSession
    <3> QED BY <1>1, <1>2, <1>4, <1>5, <1>6, <1>7, <3>1, OwnedKeeps DEF store
  <2>2. CASE ~HasSession(n)
    <3>1. GoOn(n, recovery[n])
      BY <1>1, <2>2 DEF HasSession
    <3> QED BY <1>1, <1>2, <1>4, <1>5, <1>6, <3>1, GoOnKeeps DEF store, Recovers
  <2> QED BY <2>1, <2>2
<1>9. Types'
  BY <1>1, <1>3, <1>8 DEF OInv, Types, Recovers, OnlyOf, store
<1>10. \A q \in Run \ unprotected' :
          submission[q].at \in {"none", "journalled", "created"} => key'[q] = key[q]
  BY <1>3, <1>7
<1>11. \A e \in executors, g \in executors' :
          e.run \notin unprotected' /\ g.node = e.node /\ g.run = e.run => g = e
  BY <1>1, <1>4, Alone DEF Steady
<1> QED BY <1>1, <1>3, <1>4, <1>8, <1>9, <1>10, <1>11, RecoveryStep DEF Recovers, store

LEMMA RecoverySpawnKeeps == ASSUME OInv, NEW n \in Node, RecoverySpawn(n) PROVE OInv'
<1>0. PICK r \in Run : r = recovery[n].run
  BY TreesLeft DEF RecoverySpawn, AtRecovery, InTrees
<1>1. /\ recovery[n].at = "replayed" /\ Running(n)
      /\ Spawn(r, n, TRUE)
      /\ RecoverTrees(n, recovery[n].todo, marks[n])
      /\ UNCHANGED <<store, etcd, epoch, connected, submission, sweep, unprotected, faults>>
  BY <1>0 DEF RecoverySpawn, AtRecovery
<1>2. /\ recovery[n].todo \in SUBSET Run /\ r \notin recovery[n].todo
      /\ submission[r].at # "none"
      /\ \A q \in recovery[n].todo : submission[q].at # "none"
      /\ \A q \in (recovery[n].todo \union {r}) \ unprotected :
           /\ Holds(n, q) /\ submission[q].at = "done"
           /\ \A e \in executors : ~(e.node = n /\ e.run = q)
  BY <1>0, <1>1, TreesLeft DEF InTrees
<1>3. OnlyOf(n) /\ TreesGo(n, recovery[n].todo, marks[n]) /\ marks[n] \in SUBSET Run
  BY <1>1, <1>2, RecoverTreesDoes DEF OInv, Types
<1>4. PICK e : /\ executors' = executors \union {e} /\ IsExecutor(e)
               /\ e.node = n /\ e.run = r /\ e.gated = TRUE /\ e.at = "running"
               /\ active' \in [Node -> SUBSET Run] /\ r \in active'[n]
               /\ \A k \in Node : active[k] \subseteq active'[k]
  BY <1>1, SpawnAdds
<1>5. Steady
  BY <1>1 DEF Steady, store
<1>6. \A k \in Node : LeaseInv(k)' /\ \A q \in Run : KeyKept(k, q)
  BY <1>1, SameKeys
<1>7. \A q \in recovery[n].todo \ unprotected' :
         /\ Holds(n, q)' /\ submission'[q].at = "done"
         /\ \A f \in executors' : ~(f.node = n /\ f.run = q)
  BY <1>1, <1>2, <1>4, <1>6 DEF KeyKept
<1>8. ASSUME NEW q \in Run \ unprotected'
      PROVE  /\ GatedAt(n, q)' => q \in marks[n]
             /\ q \in marks[n] => GatedAt(n, q)' \/ journal'[q] = "ended"
  <2>1. MarkInv(n) /\ q \in Run \ unprotected
    BY <1>1 DEF OInv
  <2>2. BeingRecovered(n, q) <=> q = r \/ GatedAt(n, q)
    BY <1>0, <1>1 DEF BeingRecovered, GatedAt
  <2>3. GatedAt(n, q)' <=> q = r \/ GatedAt(n, q)
    BY <1>4 DEF GatedAt
  <2> QED BY <1>1, <2>1, <2>2, <2>3 DEF MarkInv, store
<1>9. RecoveryInv(n)' /\ MarkInv(n)'
  BY <1>1, <1>2, <1>3, <1>5, <1>7, <1>8, TreesKeep
<1>10. \A q \in Run \ unprotected' :
          q \in marks'[n] /\ q \notin marks[n] => submission[q].at = "done"
  BY <1>1, <1>2, <1>3 DEF TreesGo
<1>11. connected[n]
  BY <1>1, Connected
<1>12. Types'
  BY <1>1, <1>3, <1>4 DEF OInv, Types, OnlyOf, store, etcd
<1>13. ExecutorInv(e)'
  BY <1>1, <1>2, <1>4, <1>6 DEF ExecutorInv, KeyKept
<1>14. \A f \in executors, g \in executors' :
          f.run \notin unprotected' /\ g.node = f.node /\ g.run = f.run => g = f
  BY <1>1, <1>2, <1>4, Alone
<1> QED BY <1>1, <1>3, <1>4, <1>5, <1>6, <1>9, <1>10, <1>11, <1>12, <1>13, <1>14, RecoveryStep
        DEF store, etcd

-----------------------------------------------------------------------------
(* A process ends, is shut down, or is started again.                      *)
LEMMA LoseMemoryKeeps ==
    ASSUME OInv, NEW n \in Node, LoseMemory(n), UNCHANGED <<etcd, unprotected>>,
           faults' \in Seq(Fault)
    PROVE  OInv'
<1>1. /\ phase' = [phase EXCEPT ![n] = "down"]
      /\ active' = [active EXCEPT ![n] = {}] /\ marks' = [marks EXCEPT ![n] = {}]
      /\ executors' = {e \in executors : e.node # n}
      /\ submission' = [r \in Run |->
           IF submission[r].node = n /\ Submitting(r)
           THEN [submission[r] EXCEPT !.at = "done"] ELSE submission[r]]
      /\ recovery' = [recovery EXCEPT ![n] = Idle] /\ sweep' = [sweep EXCEPT ![n] = None]
      /\ UNCHANGED <<store, epoch, connected>>
  BY DEF LoseMemory
<1>2. \A r \in Run : /\ submission[r] \in [at : Stages, node : Node \union {None}]
                     /\ submission'[r] \in [at : Stages, node : Node \union {None}]
                     /\ submission'[r].node = submission[r].node
                     /\ \/ submission'[r] = submission[r]
                        \/ submission'[r].at = "done" /\ submission[r].node = n
                     /\ submission[r].node = n => submission'[r].at \notin {"overwriting", "leased"}
  <2>1. submission \in [Run -> [at : Stages, node : Node \union {None}]]
    BY DEF OInv, Types
  <2> SUFFICES ASSUME NEW r \in Run
               PROVE  /\ submission'[r] \in [at : Stages, node : Node \union {None}]
                      /\ submission'[r].node = submission[r].node
                      /\ \/ submission'[r] = submission[r]
                         \/ submission'[r].at = "done" /\ submission[r].node = n
                      /\ submission[r].node = n =>
                           submission'[r].at \notin {"overwriting", "leased"}
    BY <2>1
  <2>2. CASE submission[r].node = n /\ Submitting(r)
    <3>1. submission'[r] = [submission[r] EXCEPT !.at = "done"]
      BY <1>1, <2>2
    <3> QED BY <2>1, <2>2, <3>1 DEF Stages
  <2>3. CASE ~(submission[r].node = n /\ Submitting(r))
    <3>1. submission'[r] = submission[r]
      BY <1>1, <2>3
    <3> QED BY <2>1, <2>3, <3>1 DEF Submitting
  <2> QED BY <2>2, <2>3
<1>3. Idle \in RecoveryRecord /\ Idle.at = "idle" /\ Idle.todo = {} /\ Idle.claimed = {}
      /\ Idle.run = None
  BY DEF Idle, RecoveryRecord, RecoveryStages
<1>4. recovery'[n] = Idle /\ marks'[n] = {} /\ phase'[n] = "down"
      /\ \A k \in Node \ {n} : /\ recovery'[k] = recovery[k] /\ marks'[k] = marks[k]
                               /\ active'[k] = active[k] /\ phase'[k] = phase[k]
  BY <1>1 DEF OInv, Types
<1>5. Types'
  <2>1. submission' \in [Run -> [at : Stages, node : Node \union {None}]]
    BY <1>1, <1>2
  <2>2. recovery' \in [Node -> RecoveryRecord]
    BY <1>1, <1>3 DEF OInv, Types
  <2> QED BY <1>1, <2>1, <2>2 DEF OInv, Types, store, etcd
<1>6. Steady
  BY <1>1, <1>2 DEF Steady, store, Submitting
<1>7. \A k \in Node : LeaseInv(k)' /\ \A r \in Run : KeyKept(k, r)
  BY <1>1, SameKeys
<1>8. ASSUME NEW k \in Node PROVE MemoryInv(k)' /\ RecoveryInv(k)' /\ MarkInv(k)'
  <2>1. CASE k = n
    <3>1. MemoryInv(n)'
      BY <1>1, <1>2, <1>3, <1>4 DEF MemoryInv
    <3>2. RecoveryInv(n)'
      BY <1>3, <1>4 DEF RecoveryInv, InTrees, InTree, Owns, Claimed
    <3>3. MarkInv(n)'
      BY <1>1, <1>3, <1>4 DEF MarkInv, BeingRecovered
    <3> QED BY <2>1, <3>1, <3>2, <3>3
  <2>2. CASE k # n
    <3>1. MemoryInv(k)'
      BY <1>1, <1>2, <1>4, <2>2 DEF OInv, MemoryInv
    <3>2. RecoveryInv(k)'
      BY <1>1, <1>4, <1>6, <1>7, <2>2, RecoveryFrame
    <3>3. MarkInv(k)'
      BY <1>1, <1>4, <1>6, <2>2, MarkFrame
    <3> QED BY <3>1, <3>2, <3>3
  <2> QED BY <2>1, <2>2
<1>9. ASSUME NEW r \in Run PROVE SubmissionInv(r)'
  <2>1. SubmissionInv(r)
    BY DEF OInv
  <2>2. CASE submission'[r] = submission[r]
    <3>1. submission[r].at = "leased" => KeyKept(submission[r].node, r)
      BY <1>7, <2>1 DEF SubmissionInv
    <3>2. \A k \in Node : r \in marks'[k] => r \in marks[k]
      BY <1>4
    <3> QED BY <1>1, <1>6, <2>2, <3>1, <3>2, SubmissionFrame DEF store, etcd
  <2>3. CASE submission'[r].at = "done" /\ submission[r].node = n
    BY <1>2, <2>3 DEF SubmissionInv
  <2> QED BY <1>2, <2>2, <2>3
<1>10. ASSUME NEW e \in executors' PROVE ExecutorInv(e)'
  <2>1. e \in executors /\ e.node # n /\ ExecutorInv(e) /\ e.node \in Node /\ e.run \in Run
    BY <1>1 DEF OInv, Types, IsExecutor
  <2> QED BY <1>1, <1>4, <1>6, <1>7, <2>1, ExecutorFrame DEF ExecutorInv
<1> QED BY <1>5, <1>7, <1>8, <1>9, <1>10 DEF OInv

LEMMA CrashKeeps == ASSUME OInv, NEW n \in Node, Crash(n) PROVE OInv'
BY LoseMemoryKeeps, FaultsLeft DEF Crash, OInv, Types

LEMMA ExitKeeps == ASSUME OInv, NEW n \in Node, Exit(n) PROVE OInv'
BY LoseMemoryKeeps DEF Exit, OInv, Types

LEMMA ReleaseAllKeeps == ASSUME OInv, NEW n \in Node, ReleaseAll(n) PROVE OInv'
<1>1. /\ EndSession(Of(n)) /\ phase' = [phase EXCEPT ![n] = "stopping"] /\ faults' \in Seq(Fault)
      /\ UNCHANGED <<store, epoch, connected, active, marks, submission, executors, recovery,
                     sweep, unprotected>>
  BY FaultsLeft DEF ReleaseAll, OInv, Types
<1>2. /\ sessions' \subseteq Session /\ heartbeats' \subseteq sessions'
      /\ key' \in [Run -> sessions' \union {None}]
      /\ \A r \in Run : key[r] = None => key'[r] = None
      /\ \A k \in Node, r \in Run : KeyKept(k, r)
      /\ \A k \in Node : LeaseInv(k)'
  BY <1>1, EndSessionKeeps
<1>3. Types'
  BY <1>1, <1>2 DEF OInv, Types, store
<1>4. \A k \in Node : phase'[k] = "down" => phase[k] = "down"
  BY <1>1 DEF OInv, Types
<1> QED BY <1>1, <1>2, <1>3, <1>4, SameProcesses DEF store

(* The process has no lease yet: that of its last life has another number. *)
LEMMA RestartKeeps == ASSUME OInv, NEW n \in Node, Restart(n) PROVE OInv'
<1>1. /\ phase[n] = "down" /\ phase' = [phase EXCEPT ![n] = "booting"]
      /\ epoch' = [epoch EXCEPT ![n] = epoch[n] + 1]
      /\ connected' = [connected EXCEPT ![n] = FALSE]
      /\ UNCHANGED <<store, etcd, active, marks, submission, executors, recovery, sweep,
                     unprotected, faults>>
  BY DEF Restart
<1>2. Types'
  BY <1>1 DEF OInv, Types, store, etcd
<1>3. epoch'[n] = epoch[n] + 1 /\ epoch[n] \in Nat
      /\ \A k \in Node \ {n} : /\ epoch'[k] = epoch[k] /\ connected'[k] = connected[k]
                               /\ phase'[k] = phase[k]
  BY <1>1 DEF OInv, Types
<1>4. ASSUME NEW l \in sessions, l[1] = n PROVE l[2] <= epoch[n] /\ l[2] \in Nat
  BY <1>4 DEF OInv, LeaseInv, Types, Session
<1>5. \A k \in Node : LeaseInv(k)'
  BY <1>1, <1>3, <1>4 DEF OInv, LeaseInv, etcd
<1>6. ASSUME NEW k \in Node, NEW r \in Run PROVE KeyKept(k, r)
  <2>1. CASE k = n
    <3>1. Of(n)'[1] = n /\ Of(n)'[2] = epoch[n] + 1
      BY <1>3 DEF Of
    <3>2. ~HasSession(n)'
      BY <1>1, <1>3, <1>4, <3>1 DEF HasSession, etcd
    <3> QED BY <2>1, <3>2 DEF KeyKept, Holds
  <2>2. CASE k # n
    BY <1>1, <1>3, <2>2 DEF KeyKept, Holds, HasSession, Of, etcd
  <2> QED BY <2>1, <2>2
<1> QED BY <1>1, <1>2, <1>3, <1>5, <1>6, SameProcesses DEF store, etcd

-----------------------------------------------------------------------------
(* Every step of the orchestrators, of the lease manager and of failures   *)
(* keeps the invariant.                                                    *)
LEMMA SubmitKeeps ==
    ASSUME OInv, NEW r \in Run, NEW n \in Node, Submit(r, n) \/ SubmitFails(r, n) PROVE OInv'
<1>1. CASE JournalRun(r, n)
  BY <1>1, JournalRunKeeps
<1>2. CASE CreateRun(r, n)
  BY <1>2, CreateRunKeeps
<1>3. CASE SubmitAcquire(r, n)
  BY <1>3, SubmitAcquireKeeps
<1>4. CASE SubmitOverwrite(r, n)
  BY <1>4, SubmitOverwriteKeeps
<1>5. CASE SubmitSpawn(r, n)
  BY <1>5, SubmitSpawnKeeps
<1>6. CASE SubmitFails(r, n)
  BY <1>6, SubmitFailsKeeps
<1> QED BY <1>1, <1>2, <1>3, <1>4, <1>5, <1>6 DEF Submit

LEMMA ExecuteKeeps ==
    ASSUME OInv, NEW e \in executors, Execute(e) \/ ExecutorFails(e) PROVE OInv'
<1>1. CASE FirstEvent(e)
  BY <1>1, FirstEventKeeps
<1>2. CASE JournalEnd(e)
  BY <1>2, JournalEndKeeps
<1>3. CASE UpdateStatus(e)
  BY <1>3, UpdateStatusKeeps
<1>4. CASE ReadLease(e)
  BY <1>4, ReadLeaseKeeps
<1>5. CASE DeleteLease(e)
  BY <1>5, DeleteLeaseKeeps
<1>6. CASE ExecutorFails(e)
  BY <1>6, ExecutorFailsKeeps
<1> QED BY <1>1, <1>2, <1>3, <1>4, <1>5, <1>6 DEF Execute

LEMMA RecoverRunsKeeps ==
    ASSUME OInv, NEW n \in Node, RecoverRuns(n) \/ RecoveryFails(n) PROVE OInv'
<1>1. CASE ListRuns(n)
  BY <1>1, ListRunsKeeps
<1>2. CASE \E r \in Run : Claim(n, r)
  BY <1>2, ClaimKeeps
<1>3. CASE ClaimOverwrite(n)
  BY <1>3, ClaimOverwriteKeeps
<1>4. CASE Adopt(n)
  BY <1>4, AdoptKeeps
<1>5. CASE Heal(n)
  BY <1>5, HealKeeps
<1>6. CASE Replay(n)
  BY <1>6, ReplayKeeps
<1>7. CASE SyncStatus(n)
  BY <1>7, SyncStatusKeeps
<1>8. CASE RecoverySpawn(n)
  BY <1>8, RecoverySpawnKeeps
<1>9. CASE Unmark(n)
  BY <1>9, UnmarkKeeps
<1>10. CASE RecoveryFails(n)
  BY <1>10, RecoveryFailsKeeps
<1> QED BY <1>1, <1>2, <1>3, <1>4, <1>5, <1>6, <1>7, <1>8, <1>9, <1>10 DEF RecoverRuns

LEMMA StutterKeeps == ASSUME OInv, UNCHANGED vars PROVE OInv'
<1>1. /\ UNCHANGED <<status, orchestrator, journal, sessions, key, heartbeats, phase, epoch>>
      /\ UNCHANGED <<connected, active, marks, submission, executors, recovery, sweep>>
      /\ UNCHANGED <<unprotected, faults>>
  BY DEF vars, store, etcd, process
<1>2. Types'
  BY <1>1 DEF OInv, Types
<1>3. \A n \in Node : LeaseInv(n)' /\ \A r \in Run : KeyKept(n, r)
  BY <1>1, SameKeys DEF etcd
<1> QED BY <1>1, <1>2, <1>3, SameProcesses

LEMMA StepsKeep == OInv /\ [Next]_vars => OInv'
<1> SUFFICES ASSUME OInv, [Next]_vars PROVE OInv'
  OBVIOUS
<1>1. CASE \E r \in Run, n \in Node : Submit(r, n) \/ SubmitFails(r, n)
  BY <1>1, SubmitKeeps
<1>2. CASE \E e \in executors : Execute(e) \/ ExecutorFails(e)
  BY <1>2, ExecuteKeeps
<1>3. CASE \E n \in Node : RecoverRuns(n) \/ RecoveryFails(n)
  BY <1>3, RecoverRunsKeeps
<1>4. CASE \E n \in Node : Sweep(n)
  BY <1>4, HeartbeatKeeps, OrphanStaleRunsKeeps DEF Sweep
<1>5. CASE \E l \in sessions : ExpireSession(l)
  BY <1>5, ExpireSessionKeeps
<1>6. CASE \E n \in Node : Crash(n) \/ ReleaseAll(n) \/ Exit(n) \/ Restart(n)
  BY <1>6, CrashKeeps, ReleaseAllKeeps, ExitKeeps, RestartKeeps
<1>7. CASE UNCHANGED vars
  BY <1>7, StutterKeeps
<1> QED BY <1>1, <1>2, <1>3, <1>4, <1>5, <1>6, <1>7 DEF Next

(* The invariant holds whatever submissions, executors, recoveries, the    *)
(* sweeps of the heartbeat loop, crashes, restarts and expiring leases do, *)
(* in every order in which their awaits let them interleave.               *)
THEOREM OwnershipInvariant == Spec => []OInv
<1>1. Init => OInv
  BY InitEstablishes
<1> QED BY <1>1, StepsKeep, PTL DEF Spec

-----------------------------------------------------------------------------
(* Every run, key and process is in a state that the code knows.  In       *)
(* particular a key never outlives the etcd lease that it hangs on.        *)
THEOREM OwnershipTypes == Spec => []OwnershipTypeOK
<1>1. OInv => OwnershipTypeOK
  BY DEF OInv, Types, OwnershipTypeOK
<1> QED BY <1>1, OwnershipInvariant, PTL

(* An executor that runs holds the key of its run, as long as no other     *)
(* path of the code took that key from it: acquire_lease, which writes     *)
(* over a key without looking at it again, and release_lease, which        *)
(* deletes one without looking, are the only ones that can.                *)
THEOREM ExecutorsHoldTheirLease == Spec => []ExecutorHoldsLease
<1>1. ASSUME OInv, NEW e \in executors, e.at = "running", e.run \notin unprotected,
             HasSession(e.node)
      PROVE  key[e.run] # None /\ key[e.run][1] = e.node
  <2>1. ExecutorInv(e) /\ e.node \in Node
    BY <1>1 DEF OInv, Types, IsExecutor
  <2>2. key[e.run] = Of(e.node)
    BY <1>1, <2>1 DEF ExecutorInv, Holds
  <2> QED BY <1>1, <2>1, <2>2, OfIsSession DEF OInv, Of
<1>2. OInv => ExecutorHoldsLease
  BY <1>1 DEF ExecutorHoldsLease
<1> QED BY <1>2, OwnershipInvariant, PTL

(* No run is executed twice: a submission, the claim of an orphan and the  *)
(* recovery after a restart never leave two executors of a run in          *)
(* processes whose lease is alive, unless the run lost the protection of   *)
(* its key.                                                                *)
THEOREM OneExecutorPerRun == Spec => []ProtectedRunsHaveOneExecutor
<1>1. ASSUME OInv, NEW r \in Run \ unprotected
      PROVE  Cardinality({e \in ExecutorsOf(r) : HasSession(e.node)}) <= 1
  <2> DEFINE live == {e \in ExecutorsOf(r) : HasSession(e.node)}
  <2>1. ASSUME NEW e \in live PROVE e \in executors /\ e.run = r /\ key[r] = Of(e.node)
    <3>1. ExecutorInv(e) /\ e.run = r /\ e.at \in {"running", "ended"} /\ HasSession(e.node)
      BY <1>1 DEF OInv, ExecutorsOf
    <3> QED BY <1>1, <3>1 DEF ExecutorInv, Holds, ExecutorsOf
  <2>2. ASSUME NEW e \in live, NEW f \in live PROVE e = f
    <3>1. Of(e.node) = Of(f.node) /\ e \in executors /\ f \in executors
          /\ e.run = r /\ f.run = r
      BY <2>1
    <3>2. e.node = f.node
      BY <3>1 DEF Of
    <3> QED BY <1>1, <3>1, <3>2, Alone
  <2> HIDE DEF live
  <2>3. Cardinality(live) <= 1
    <3>1. CASE live = {}
      BY <3>1, FS_EmptySet
    <3>2. CASE live # {}
      <4>1. PICK e \in live : live = {e}
        BY <2>2, <3>2
      <4>2. Cardinality(live) = 1
        BY <4>1, FS_Singleton
      <4> QED BY <4>2
    <3> QED BY <3>1, <3>2
  <2> QED BY <2>3 DEF live
<1>2. OInv => ProtectedRunsHaveOneExecutor
  BY <1>1 DEF ProtectedRunsHaveOneExecutor
<1> QED BY <1>2, OwnershipInvariant, PTL

(* ActiveRecoveries: a run is marked from before its journal is read until *)
(* its executor has handled an event, however the recovery of its process, *)
(* the end of the executor and a failure fall; and afterwards no mark is   *)
(* left, but for a run that had already ended.                             *)
THEOREM MarksAreExact == Spec => []MarksFollowRecovery
<1>1. OInv => MarksFollowRecovery
  BY DEF OInv, MarkInv, MarksFollowRecovery
<1> QED BY <1>1, OwnershipInvariant, PTL

=============================================================================
