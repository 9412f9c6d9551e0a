--------------------------- MODULE LazyEvaluation ---------------------------
(***************************************************************************)
(* How the executor uses an expression: it asks needed_steps, runs the     *)
(* steps it names, and asks again, until the answer is empty and the       *)
(* expression can be resolved (stepflow-flow/src/values/value_expr.rs,     *)
(* whose doc comment spells the loop out for an $if).  Steps that other    *)
(* expressions need complete in between.                                   *)
(***************************************************************************)
EXTENDS ValueExpr

CONSTANTS
    Outcomes,   \* the results a step may produce
    Inputs,     \* the inputs and variable values considered
    MaxStray    \* how many steps complete without this expression asking

(* A step that has completed has a value or failed by itself.              *)
ASSUME OutcomesAssumption ==
    Outcomes \subseteq Resolution \ {"step not completed"} /\ Inputs \subseteq Value

VARIABLES
    expr,       \* the expression being evaluated
    outcome,    \* what each step will return when it runs
    ctx,        \* the evaluation context: results so far, input, variable
    demanded,   \* the steps needed_steps has ever named
    stray       \* the steps that completed without being named

vars == <<expr, outcome, ctx, demanded, stray>>

Needed == NeededSteps(expr, ctx)
Ready == Needed = {}
Completed == {s \in Step : IsCompleted(ctx, s)}

(* The context in which every step has run.                                *)
FullContext == [ctx EXCEPT !.results = outcome]

Init ==
    /\ expr \in Expr
    /\ outcome \in [Step -> Outcomes]
    /\ ctx \in [results : {[s \in Step |-> NoResult]},
                input : Inputs, variable : Inputs \union {Undefined}]
    /\ demanded = NeededSteps(expr, ctx)
    /\ stray = {}

(* Faulty variant, to test the properties: a completion forgets the        *)
(* earlier results.                                                        *)
FinishAlone(s) ==
    ctx' = [ctx EXCEPT !.results = [x \in Step |-> IF x = s THEN outcome[x] ELSE NoResult]]

Finish(s) == ctx' = [ctx EXCEPT !.results[s] = outcome[s]]

(* A step the expression needs runs; the executor asks again.              *)
RunNeeded(s) ==
    /\ s \in Needed
    /\ Finish(s)
    /\ demanded' = demanded \union NeededSteps(expr, ctx')
    /\ UNCHANGED <<expr, outcome, stray>>

(* A step something else needs completes.                                  *)
RunStray(s) ==
    /\ s \notin Needed \union Completed
    /\ Cardinality(stray) < MaxStray
    /\ Finish(s)
    /\ stray' = stray \union {s}
    /\ demanded' = demanded \union NeededSteps(expr, ctx')
    /\ UNCHANGED <<expr, outcome>>

Next == \E s \in Step : RunNeeded(s) \/ RunStray(s)

Spec == Init /\ [][Next]_vars

-----------------------------------------------------------------------------
(* When needed_steps answers the empty set, and the steps that defaults    *)
(* mention have completed, the expression resolves to the value it would   *)
(* have if every step of the flow had run (the doc comment of resolve).    *)
ResolvesWhenReady ==
    Ready /\ HiddenSteps(expr) \subseteq Completed
        => Resolve(expr, ctx) = Resolve(expr, FullContext)

(* An expression found ready stays ready whatever else completes: the      *)
(* executor relies on it when it starts a task some time after finding the *)
(* task's input ready.                                                     *)
ReadyIsStable == [][Ready /\ HiddenSteps(expr) \subseteq Completed => Ready']_vars

(* An expression that mentions no step twice, and none in a default, makes *)
(* the executor run only steps that its lazy evaluation reads.             *)
MentionsOnce == \A s \in Step : Mentions(expr, s) <= 1
LazyWhenMentionedOnce ==
    MentionsOnce /\ HiddenSteps(expr) = {} => demanded \subseteq ReadSteps(expr, FullContext)
=============================================================================
