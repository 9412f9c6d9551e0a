----------------------------- MODULE ItemState -----------------------------
(***************************************************************************)
(* The dependency state of one item of a run                               *)
(* (stepflow-execution/src/state/item_state.rs): which steps are needed,   *)
(* which have a result, and which wait for which.                          *)
(*                                                                         *)
(* Dependencies are discovered as results arrive: what a step needs        *)
(* depends on the results so far, because an input may be a conditional.   *)
(* The analysis of the input expression of a step is the constant operator *)
(* InputNeeds (ValueExpr!NeededSteps in the checked models), so what is    *)
(* stated here holds for every expression language that meets the          *)
(* assumptions.                                                            *)
(***************************************************************************)
EXTENDS Naturals, FiniteSets

CONSTANTS
    Flow,               \* flows, each with the input of an item
    NumSteps,           \* steps are indices, as in the code
    FlowResult,         \* results of steps
    NotRun,             \* the result slot of a step that has not completed
    InputNeeds(_, _, _),  \* InputNeeds(f, s, results): step s's input.needed_steps
    OutputNeeds(_, _),    \* OutputNeeds(f, results): the flow's output.needed_steps
    MustExecute(_)        \* the steps of a flow marked must_execute

Step == 0..(NumSteps - 1)
Results == [Step -> FlowResult \union {NotRun}]

CompletedIn(results) == {s \in Step : results[s] # NotRun}

ASSUME NumStepsAssumption == NumSteps \in Nat

ASSUME NotRunAssumption == NotRun \notin FlowResult

ASSUME MustExecuteAssumption == \A f \in Flow : MustExecute(f) \subseteq Step

(* needed_steps names only steps that have not completed, and validation   *)
(* (stepflow-analysis/src/validation/references.rs) lets the input of a    *)
(* step mention only the steps before it.                                  *)
ASSUME InputNeedsAssumption ==
    \A f \in Flow, s \in Step, r \in Results :
        /\ InputNeeds(f, s, r) \subseteq Step \ CompletedIn(r)
        /\ \A d \in InputNeeds(f, s, r) : d < s

(* An input that needs nothing more still needs nothing after other steps  *)
(* complete (proved in LazyEvaluationProofs of the inputs in which no      *)
(* default of a variable mentions a step).                                 *)
ASSUME InputNeedsStable ==
    \A f \in Flow, s \in Step, r \in Results, d \in Step, v \in FlowResult :
        InputNeeds(f, s, r) = {} /\ r[d] = NotRun
            => InputNeeds(f, s, [r EXCEPT ![d] = v]) = {}

ASSUME OutputNeedsAssumption ==
    \A f \in Flow, r \in Results : OutputNeeds(f, r) \subseteq Step \ CompletedIn(r)

-----------------------------------------------------------------------------
ItemRecord ==
    [needed : SUBSET Step,                  \* steps found to be needed
     results : Results,                     \* completed and results
     waiting_on : [Step -> SUBSET Step],    \* what a step waits on
     waiters : [Step -> SUBSET Step]]       \* the reverse of waiting_on

NewItem ==
    [needed |-> {},
     results |-> [s \in Step |-> NotRun],
     waiting_on |-> [s \in Step |-> {}],
     waiters |-> [s \in Step |-> {}]]

Completed(item) == CompletedIn(item.results)

IsComplete(item) == item.needed \subseteq Completed(item)

(* Faulty variant, to test the properties: waiting steps are schedulable.  *)
SchedulableWhileWaiting(item) == item.needed \ Completed(item)

SchedulableSteps(item) ==
    {s \in item.needed \ Completed(item) : item.waiting_on[s] = {}}

(* The steps the worklist of add_or_update_needed visits when it starts    *)
(* from S: the least set that holds S and, of each step it holds, the      *)
(* dependencies that were not needed before.                               *)
ClosedUnderNewDeps(f, item, V) ==
    \A s \in V : InputNeeds(f, s, item.results) \ item.needed \subseteq V

Visited(f, item, S) ==
    {s \in Step : \A V \in SUBSET Step :
        S \subseteq V /\ ClosedUnderNewDeps(f, item, V) => s \in V}

(* add_or_update_needed for every step of S: a visited step becomes        *)
(* needed, and waits on exactly what its input needs now.                  *)
AddOrUpdateNeeded(f, item, S) ==
    LET visited == Visited(f, item, S)
        waiting == [s \in Step |-> IF s \in visited THEN InputNeeds(f, s, item.results)
                                   ELSE item.waiting_on[s]]
    IN  [item EXCEPT
            !.needed = @ \union visited,
            !.waiting_on = waiting,
            !.waiters = [d \in Step |->
                (@[d] \ {s \in visited : d \in item.waiting_on[s]})
                  \union {s \in visited : d \in waiting[s]}]]

(* Faulty variant, to test the properties: tested before s is removed.     *)
UnblockedBeforeRemoval(item, s) == {w \in item.waiters[s] : item.waiting_on[w] = {}}

Unblocked(item, s) == {w \in item.waiters[s] : item.waiting_on[w] \subseteq {s}}

(* Faulty variant, to test the properties: one of the two directions of    *)
(* the waiting relation is left as it was.                                 *)
MarkKeepingWaiters(item, s, result) ==
    [item EXCEPT !.results[s] = result,
                 !.waiting_on = [w \in Step |-> @[w] \ {s}]]

(* mark_completed: record the result, and take the step from the set of    *)
(* everything that waited on it.                                           *)
MarkCompleted(item, s, result) ==
    IF s \in Completed(item) THEN item
    ELSE [item EXCEPT
            !.results[s] = result,
            !.waiters[s] = {},
            !.waiting_on = [w \in Step |-> IF w \in item.waiters[s] THEN @[w] \ {s}
                                           ELSE @[w]]]

(* Faulty variant, to test the properties: every pending step is looked at.*)
AllPending(item, s) == item.needed \ Completed(item)

NewlyUnblocked(item, s) == IF s \in Completed(item) THEN {} ELSE Unblocked(item, s)

(* The steps initialize_item starts from.                                  *)
InitialSteps(f, item) == OutputNeeds(f, item.results) \union MustExecute(f)

-----------------------------------------------------------------------------
(* waiters is the inverse of waiting_on.                                   *)
Mirror(item) ==
    \A w, d \in Step : w \in item.waiters[d] <=> d \in item.waiting_on[w]

(* Only pending steps wait, and only on pending steps.                     *)
Pending(item) ==
    \A w \in Step :
        /\ item.waiting_on[w] \subseteq item.needed \ Completed(item)
        /\ item.waiting_on[w] # {} => w \in item.needed \ Completed(item)
=============================================================================
