----------------------------- MODULE ValueExpr -----------------------------
(***************************************************************************)
(* Value expressions of a flow and their lazy evaluation: the dependency   *)
(* analysis needed_steps and the resolution resolve of                     *)
(* stepflow-flow/src/values/value_expr.rs.                                 *)
(*                                                                         *)
(* A JSON value is abstracted to what the two functions tell apart: null   *)
(* (falsy, and passed over by $coalesce), false (falsy, but chosen by      *)
(* $coalesce), a scalar (truthy) and an object (truthy, with one field     *)
(* that holds a scalar).  A result is a value or the reason of a failure.  *)
(***************************************************************************)
EXTENDS Naturals, FiniteSets, SequencesExt

CONSTANTS
    Step,       \* the steps of the flow
    Exprs       \* expressions, with every part of each

Value == {"null", "false", "scalar", "object"}
Failure == {"step failed", "step not completed", "path not found", "undefined variable"}
Resolution == Value \union Failure

Expr == Exprs   \* a definition, so that TLC evaluates the set once

NoResult == "not run"        \* the result slot of a step that has not completed
Undefined == "undefined"   \* a variable without a value

(***************************************************************************)
(* Expressions, each with its depth.  A $literal and a plain literal       *)
(* resolve alike; an object expression is treated by both functions as the *)
(* array of its fields; an $if without else has the literal null as its    *)
(* else branch, and a $variable without default has the failure as its     *)
(* default.  The list of a $coalesce or of an array, which the code walks  *)
(* in a loop, is its first element and the expression of the rest, and     *)
(* ends with the literal that an empty list resolves to.                   *)
(***************************************************************************)
Root  == "root"
Field == "field"
Deeper(parts) == 1 + Max({part.depth : part \in parts})

StepRef(s, path) == [op |-> "step", step |-> s, path |-> path, depth |-> 0]
InputRef == [op |-> "input", depth |-> 0]
Literal(v) == [op |-> "literal", value |-> v, depth |-> 0]
VariableRef(default) ==
    [op |-> "variable", default |-> default, depth |-> Deeper({default})]
NoDefault == Literal("undefined variable")
IfThenElse(c, t, e) ==
    [op |-> "if", condition |-> c, then |-> t, else_expr |-> e, depth |-> Deeper({c, t, e})]
ListCell(op, first, rest) ==
    [op |-> op, first |-> first, rest |-> rest, depth |-> Deeper({first, rest})]
Coalesce(values) ==
    FoldRight(LAMBDA v, rest : ListCell("coalesce", v, rest), values, Literal("null"))
ArrayOf(values) ==
    FoldRight(LAMBDA v, rest : ListCell("array", v, rest), values, Literal("object"))

Parts(e) ==
    CASE e.op = "variable" -> {e.default}
      [] e.op = "if" -> {e.condition, e.then, e.else_expr}
      [] e.op \in {"coalesce", "array"} -> {e.first, e.rest}
      [] OTHER -> {}

ASSUME StepAssumption == IsFiniteSet(Step)

ASSUME ExprsAssumption ==
    \A expr \in Expr :
        /\ expr.op \in {"step", "input", "variable", "literal", "if", "coalesce", "array"}
        /\ expr.op = "step" => expr.step \in Step
        /\ expr.op = "literal" => expr.value \in Resolution
        /\ expr.depth \in Nat
        /\ Parts(expr) \subseteq Expr
        /\ \A part \in Parts(expr) : part.depth < expr.depth

(* A context gives the results of the steps of one item, its input and the *)
(* value of the (one) variable.                                            *)
Contexts ==
    [results : [Step -> Resolution \union {NoResult}],
     input : Resolution,
     variable : Resolution \union {Undefined}]

IsCompleted(ctx, s) == ctx.results[s] # NoResult

IsTruthy(r) == r \in {"scalar", "object"}

(* resolve_json_path below a step result: null is propagated whatever the  *)
(* path, and only an object has the field.                                 *)
ApplyPath(r, path) ==
    IF r \in Failure \union {"null"} \/ path = Root THEN r
    ELSE IF r = "object" THEN "scalar" ELSE "path not found"

(***************************************************************************)
(* resolve(expr, ctx), given the resolutions of the parts.                 *)
(***************************************************************************)
ResolveFrom(resolved, expr, ctx) ==
    CASE expr.op = "step" ->
           IF IsCompleted(ctx, expr.step)
           THEN ApplyPath(ctx.results[expr.step], expr.path)
           ELSE "step not completed"
      [] expr.op = "input" -> ctx.input
      [] expr.op = "variable" ->
           IF ctx.variable # Undefined THEN ctx.variable ELSE resolved[expr.default]
      [] expr.op = "literal" -> expr.value
      [] expr.op = "if" ->
           IF IsTruthy(resolved[expr.condition])
           THEN resolved[expr.then] ELSE resolved[expr.else_expr]
      [] expr.op = "coalesce" ->
           IF resolved[expr.first] # "null"
           THEN resolved[expr.first] ELSE resolved[expr.rest]
      [] expr.op = "array" ->
           IF resolved[expr.first] \in Failure
           THEN resolved[expr.first] ELSE resolved[expr.rest]

Resolved(ctx) ==
    LET resolved[expr \in Expr] == ResolveFrom(resolved, expr, ctx) IN resolved
Resolve(expr, ctx) == Resolved(ctx)[expr]

(***************************************************************************)
(* collect(expr, ctx, needed): needed is the set gathered so far, shared   *)
(* by the whole traversal.  $if and $coalesce take a set that did not grow *)
(* as the sign that the sub-expression is ready to be resolved.            *)
(***************************************************************************)
Grew(after, before) == Cardinality(after) > Cardinality(before)

CollectFrom(collected, expr, needed, ctx) ==
    CASE expr.op = "step" ->
           IF IsCompleted(ctx, expr.step) THEN needed ELSE needed \union {expr.step}
      [] expr.op \in {"input", "variable", "literal"} -> needed
      [] expr.op = "if" ->
           LET withCondition == collected[<<expr.condition, needed>>]
           IN  IF Grew(withCondition, needed) THEN withCondition
               ELSE IF IsTruthy(Resolve(expr.condition, ctx))
                    THEN collected[<<expr.then, withCondition>>]
                    ELSE collected[<<expr.else_expr, withCondition>>]
      [] expr.op = "coalesce" ->
           LET withFirst == collected[<<expr.first, needed>>]
           IN  IF Grew(withFirst, needed) \/ Resolve(expr.first, ctx) # "null"
               THEN withFirst
               ELSE collected[<<expr.rest, withFirst>>]
      [] expr.op = "array" -> collected[<<expr.rest, collected[<<expr.first, needed>>]>>]

Collected(ctx) ==
    LET collected[call \in Expr \X SUBSET Step] ==
            CollectFrom(collected, call[1], call[2], ctx)
    IN  collected
Collect(expr, ctx, needed) == Collected(ctx)[<<expr, needed>>]

(* Faulty variants of needed_steps, to test the properties: the branches   *)
(* are forgotten once the condition is known; both branches are collected. *)
NeededOfCondition(expr, ctx) ==
    Collect(IF expr.op = "if" THEN expr.condition ELSE expr, ctx, {})
NeededEagerly(expr, ctx) ==
    IF expr.op = "if" THEN UNION {Collect(e, ctx, {}) : e \in Parts(expr)}
    ELSE Collect(expr, ctx, {})

NeededSteps(expr, ctx) == Collect(expr, ctx, {})

(***************************************************************************)
(* Reference definition of laziness: the steps an evaluation that knows    *)
(* every result reads, left to right, the condition of an $if before the   *)
(* chosen branch, a $coalesce up to its first value that is not null, an   *)
(* array in all its elements.                                              *)
(***************************************************************************)
ReadFrom(read, expr, ctx) ==
    CASE expr.op = "step" -> {expr.step}
      [] expr.op \in {"input", "literal"} -> {}
      [] expr.op = "variable" ->
           IF ctx.variable # Undefined THEN {} ELSE read[expr.default]
      [] expr.op = "if" ->
           read[expr.condition] \union
             (IF IsTruthy(Resolve(expr.condition, ctx))
              THEN read[expr.then] ELSE read[expr.else_expr])
      [] expr.op = "coalesce" ->
           read[expr.first] \union
             (IF Resolve(expr.first, ctx) = "null" THEN read[expr.rest] ELSE {})
      [] expr.op = "array" -> read[expr.first] \union read[expr.rest]

Read(ctx) == LET read[expr \in Expr] == ReadFrom(read, expr, ctx) IN read
ReadSteps(expr, ctx) == Read(ctx)[expr]

(* How often a step is mentioned in an expression.                         *)
MentionsFrom(mentions, expr, s) ==
    CASE expr.op = "step" -> IF expr.step = s THEN 1 ELSE 0
      [] expr.op \in {"input", "literal"} -> 0
      [] expr.op = "variable" -> mentions[expr.default]
      [] expr.op = "if" ->
           mentions[expr.condition] + mentions[expr.then] + mentions[expr.else_expr]
      [] expr.op \in {"coalesce", "array"} -> mentions[expr.first] + mentions[expr.rest]

MentionsOf(s) == LET mentions[expr \in Expr] == MentionsFrom(mentions, expr, s) IN mentions
Mentions(expr, s) == MentionsOf(s)[expr]
Mentioned(expr) == {s \in Step : Mentions(expr, s) > 0}

(* The steps that the default of a $variable mentions: needed_steps does   *)
(* not look into defaults, resolve does.                                   *)
HiddenFrom(hidden, expr) ==
    IF expr.op = "variable" THEN Mentioned(expr.default)
    ELSE UNION {hidden[part] : part \in Parts(expr)}

Hidden == LET hidden[expr \in Expr] == HiddenFrom(hidden, expr) IN hidden
HiddenSteps(expr) == Hidden[expr]
=============================================================================
