--------------------------- MODULE ExecutionTree ----------------------------
(***************************************************************************)
(* What an execution tree promises, without schedulers, attempts, journals *)
(* or crashes.  Steps complete once, after the steps they depend on.  A    *)
(* step succeeds on the failure of another only where its input tolerates  *)
(* it, and a step that runs a subflow only after a subflow that was begun  *)
(* for it has ended, however it ended, unless a default takes the place of *)
(* its result.  A run gets its result when all its steps are complete, and *)
(* keeps it.                                                               *)
(***************************************************************************)
EXTENDS Integers

CONSTANTS
    Root, SubRun,       \* the runs of the tree
    RootStep,
    SubflowStep,        \* the steps of the root that run a subflow
    SubStep,            \* the steps of a subflow
    DependsOn,          \* the steps a step depends on, in its run
    OutputStep,         \* the steps whose failure fails the output of a run
    Tolerant,           \* the steps that may run on a failure
    UsesDefault         \* the steps with a default result

VARIABLES
    completed,          \* how often a task has completed
    failed,             \* the tasks that did not succeed
    begun,              \* the step for which a subflow was begun
    result              \* of a run

None == "none"
Run == {Root} \union SubRun
StepsOf(r) == IF r = Root THEN RootStep ELSE SubStep
Task == ({Root} \X RootStep) \union (SubRun \X SubStep)

Before(t) == {<<t[1], d>> : d \in DependsOn[t[2]]}
IsDone(t) == completed[t] = 1
IsSubflow(t) == t[1] = Root /\ t[2] \in SubflowStep

TreeInit ==
    /\ completed = [t \in Task |-> 0]
    /\ failed = {}
    /\ begun = [r \in SubRun |-> None]
    /\ result = [r \in Run |-> None]

(* A subflow is begun for a step that may run.                             *)
Begin(r, s) ==
    /\ begun[r] = None
    /\ \A d \in Before(<<Root, s>>) : IsDone(d)
    /\ begun' = [begun EXCEPT ![r] = s]
    /\ UNCHANGED <<completed, failed, result>>

MaySucceed(t) ==
    /\ t[2] \notin Tolerant => Before(t) \intersect failed = {}
    /\ IsSubflow(t) /\ t[2] \notin UsesDefault =>
        \E r \in SubRun : begun[r] = t[2] /\ result[r] # None

Complete(t, success) ==
    /\ completed[t] = 0
    /\ t[1] \in SubRun => begun[t[1]] # None
    /\ \A d \in Before(t) : IsDone(d)
    /\ success => MaySucceed(t)
    /\ completed' = [completed EXCEPT ![t] = 1]
    /\ failed' = failed \union IF success THEN {} ELSE {t}
    /\ UNCHANGED <<begun, result>>

ResultOf(r) == IF \E s \in OutputStep : <<r, s>> \in failed THEN "error" ELSE "ok"

(* Recovery may find several runs that have ended.                         *)
End(R) ==
    /\ \A r \in R : result[r] = None /\ \A s \in StepsOf(r) : IsDone(<<r, s>>)
    /\ result' = [r \in Run |-> IF r \in R THEN ResultOf(r) ELSE result[r]]
    /\ UNCHANGED <<completed, failed, begun>>

TreeNext ==
    \/ \E r \in SubRun, s \in SubflowStep : Begin(r, s)
    \/ \E t \in Task, success \in BOOLEAN : Complete(t, success)
    \/ \E R \in SUBSET Run : End(R)

TreeSpec == TreeInit /\ [][TreeNext]_<<completed, failed, begun, result>>
=============================================================================
