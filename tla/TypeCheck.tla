----------------------------- MODULE TypeCheck -----------------------------
(***************************************************************************)
(* Type checking of a flow (stepflow-typecheck: checker.rs, synthesis.rs,  *)
(* environment.rs, input_inference.rs) and what "stepflow infer" makes of  *)
(* it (stepflow-cli/src/infer.rs), followed by an execution of the flow,   *)
(* whose values the types claim to describe.                               *)
(*                                                                         *)
(* A flow is a record of its input schema, the schemas of its variables,   *)
(* its steps (input expression, what the component accepts and produces,   *)
(* the output schema the flow declares), its output expression and the     *)
(* schema declared for it.  Nothing validates a value at run time: the     *)
(* environment submits an input the flow declares, and a component returns *)
(* what its step's type says.                                              *)
(***************************************************************************)
EXTENDS Subtyping

CONSTANTS
    Flows,      \* the flows considered
    Value,      \* the values considered
    NoSchema,
    NoExpr

VARIABLES
    flow,       \* the flow, annotated by Annotate
    stage,      \* "check", "annotate", "submit", "run", "done", "failed"
    types,      \* step_types: the output types of the steps checked so far
    checks,     \* what was found for each step's input and for the output
    constraints,\* the uses of $input, if an input schema was inferred
    input, variable, results,       \* of the execution
    given       \* the values of the expressions resolved so far

vars == <<flow, stage, types, checks, constraints, input, variable, results, given>>

-----------------------------------------------------------------------------
(* Synthesis.                                                              *)
FromOption(schema) == IF schema = NoSchema THEN AnyType ELSE Schema(schema)
Environment(f, steps) ==
    [input |-> FromOption(f.input), variables |-> f.variables, steps |-> steps]

(* The type of an object expression, from those of its fields.             *)
ObjectOf(names, fieldTypes) ==
    Schema([type |-> "object", required |-> {names[k] : k \in DOMAIN names},
            properties |-> [name \in {names[k] : k \in DOMAIN names} |->
                SchemaOf(fieldTypes[CHOOSE k \in DOMAIN names : names[k] = name])]])

RECURSIVE Synthesize(_, _)
SynthesizeVariable(expr, env) ==
    LET name == Head(expr.path)
        default == IF expr.default = NoExpr THEN NotFound ELSE Synthesize(expr.default, env)
    IN  IF name \notin DOMAIN env.variables THEN default
        ELSE LET found == ProjectType(Schema(env.variables[name]), Tail(expr.path))
             IN  IF expr.default = NoExpr \/ (Len(expr.path) > 1 /\ found.ok) THEN found
                 ELSE [type |-> UnionTypes(found.type, default.type),
                       ok |-> found.ok /\ default.ok]

Synthesize(expr, env) ==
    LET Of(exprs) == [k \in DOMAIN exprs |-> Synthesize(exprs[k], env)]
        TypesOf(exprs) == [k \in DOMAIN exprs |-> Synthesize(exprs[k], env).type]
        AllOk(exprs) == \A k \in DOMAIN exprs : Of(exprs)[k].ok
    IN  CASE expr.kind = "step" ->
               IF expr.step \in DOMAIN env.steps
               THEN ProjectType(env.steps[expr.step], expr.path) ELSE NotFound
          [] expr.kind = "input" -> ProjectType(env.input, expr.path)
          [] expr.kind = "variable" -> SynthesizeVariable(expr, env)
          [] expr.kind = "literal" -> Found(InferTypeFromValue(expr.value))
          [] expr.kind = "array" ->
               [type |-> Schema([type |-> "array",
                                 items |-> SchemaOf(UnionOf(TypesOf(expr.items)))]),
                ok |-> AllOk(expr.items)]
          [] expr.kind = "object" ->
               [type |-> ObjectOf(expr.names, TypesOf(expr.fields)), ok |-> AllOk(expr.fields)]
          [] expr.kind = "if" ->
               LET orElse == IF expr.else = NoExpr THEN Found(Schema([type |-> "null"]))
                             ELSE Synthesize(expr.else, env)
               IN  [type |-> UnionTypes(Synthesize(expr.then, env).type, orElse.type),
                    ok |-> AllOk(<<expr.condition, expr.then>>) /\ orElse.ok]
          [] expr.kind = "coalesce" ->
               [type |-> UnionOf(TypesOf(expr.values)), ok |-> AllOk(expr.values)]

(***************************************************************************)
(* Where the type describes every value: no union has forgotten one of its *)
(* sides, no default stands in for a path that a declared variable lacks,  *)
(* nothing is projected from a step that may be null (resolution lets null *)
(* through), and $coalesce has an alternative.                             *)
(***************************************************************************)
RECURSIVE ExactLiteral(_)
ExactLiteral(v) ==
    /\ v[1] = "array" =>
         /\ ~AnyCollapse([k \in DOMAIN v[2] |-> InferTypeFromValue(v[2][k])])
         /\ \A k \in DOMAIN v[2] : ExactLiteral(v[2][k])
    /\ v[1] = "object" => \A name \in DOMAIN v[2] : ExactLiteral(v[2][name])

RECURSIVE Exact(_, _)
Exact(expr, env) ==
    LET All(exprs) == \A k \in DOMAIN exprs : Exact(exprs[k], env)
        Distinct(exprs) == ~AnyCollapse([k \in DOMAIN exprs |-> Synthesize(exprs[k], env).type])
    IN  CASE expr.kind = "step" ->
               expr.path # <<>> /\ expr.step \in DOMAIN env.steps
                 /\ env.steps[expr.step].ty = "schema"
               => ~Conforms(Null, env.steps[expr.step])
          [] expr.kind = "input" -> TRUE
          [] expr.kind = "variable" ->
               expr.default # NoExpr =>
                 /\ Len(expr.path) = 1
                 /\ Exact(expr.default, env)
                 /\ Head(expr.path) \in DOMAIN env.variables =>
                      ~Collapses(Schema(env.variables[Head(expr.path)]),
                                 Synthesize(expr.default, env).type)
          [] expr.kind = "literal" -> ExactLiteral(expr.value)
          [] expr.kind = "array" -> All(expr.items) /\ Distinct(expr.items)
          [] expr.kind = "object" -> All(expr.fields)
          [] expr.kind = "if" ->
               /\ Exact(expr.then, env)
               /\ expr.else # NoExpr => Exact(expr.else, env) /\ Distinct(<<expr.then, expr.else>>)
               /\ expr.else = NoExpr =>
                    ~Collapses(Synthesize(expr.then, env).type, Schema([type |-> "null"]))
          [] expr.kind = "coalesce" ->
               expr.values # <<>> /\ All(expr.values) /\ Distinct(expr.values)

-----------------------------------------------------------------------------
(* Resolution (ValueExpr has it with the readiness of steps); Absent is a  *)
(* failure.                                                                *)
IsTruthy(v) == v \notin {Absent, Null, <<"boolean", FALSE>>}

RECURSIVE Resolve(_, _)
Resolve(expr, context) ==
    LET Of(exprs) == [k \in DOMAIN exprs |-> Resolve(exprs[k], context)]
    IN  CASE expr.kind = "step" ->
               IF expr.step \notin DOMAIN context.results THEN Absent
               ELSE IF context.results[expr.step] = Null THEN Null
               ELSE ResolvePath(context.results[expr.step], expr.path)
          [] expr.kind = "input" -> ResolvePath(context.input, expr.path)
          [] expr.kind = "variable" ->
               LET found == IF context.variable = Absent THEN Absent
                            ELSE ResolvePath(context.variable, Tail(expr.path))
               IN  IF found # Absent \/ expr.default = NoExpr THEN found
                   ELSE Resolve(expr.default, context)
          [] expr.kind = "literal" -> expr.value
          [] expr.kind = "array" ->
               IF \E k \in DOMAIN expr.items : Of(expr.items)[k] = Absent THEN Absent
               ELSE <<"array", Of(expr.items)>>
          [] expr.kind = "object" ->
               IF \E k \in DOMAIN expr.fields : Of(expr.fields)[k] = Absent THEN Absent
               ELSE <<"object", [name \in {expr.names[k] : k \in DOMAIN expr.names} |->
                        Of(expr.fields)[CHOOSE k \in DOMAIN expr.names : expr.names[k] = name]]>>
          [] expr.kind = "if" ->
               IF IsTruthy(Resolve(expr.condition, context)) THEN Resolve(expr.then, context)
               ELSE IF expr.else = NoExpr THEN Null ELSE Resolve(expr.else, context)
          [] expr.kind = "coalesce" ->
               LET told == {k \in DOMAIN expr.values : Of(expr.values)[k] # Null}
               IN  IF told = {} THEN Null
                   ELSE Of(expr.values)[CHOOSE k \in told : \A j \in told : k <= j]

-----------------------------------------------------------------------------
(* Inference of the input schema: the constraints, in the order in which   *)
(* the expressions use the input.                                          *)
RECURSIVE Collect(_, _, _)
Collect(expr, optional, expected) ==
    CASE expr.kind = "input" ->
           <<[path |-> expr.path, optional |-> optional, expected |-> expected]>>
      [] expr.kind \in {"step", "literal"} -> <<>>
      [] expr.kind = "variable" ->
           IF expr.default = NoExpr THEN <<>> ELSE Collect(expr.default, TRUE, NoSchema)
      [] expr.kind = "if" ->
           Collect(expr.condition, optional, NoSchema) \o Collect(expr.then, optional, expected)
             \o (IF expr.else = NoExpr THEN <<>> ELSE Collect(expr.else, optional, expected))
      [] expr.kind = "coalesce" ->
           FlattenSeq([k \in DOMAIN expr.values |->
               Collect(expr.values[k], optional \/ k < Len(expr.values), expected)])
      [] expr.kind = "array" ->
           FlattenSeq([k \in DOMAIN expr.items |-> Collect(expr.items[k], optional, NoSchema)])
      [] expr.kind = "object" ->
           FlattenSeq([k \in DOMAIN expr.fields |->
               Collect(expr.fields[k], optional,
                       IF expected # NoSchema /\ expr.names[k] \in Properties(expected)
                       THEN expected.properties[expr.names[k]] ELSE NoSchema)])

SchemaOrNone(type) == IF type.ty = "schema" THEN type.schema ELSE NoSchema

CollectInputConstraints(f) ==
    FlattenSeq([k \in DOMAIN f.steps |->
        Collect(f.steps[k].input, FALSE, SchemaOrNone(f.steps[k].accepts))])
      \o Collect(f.output, FALSE, NoSchema)

(* The trie: its nodes by their path.                                      *)
NewNode == [leaf |-> NoSchema, required |-> FALSE]
Root == <<>> :> NewNode
Fields(path) ==
    IF Item \in Range(path)
    THEN SubSeq(path, 1, (CHOOSE k \in DOMAIN path : path[k] = Item
                            /\ \A j \in 1..(k - 1) : path[j] # Item) - 1)
    ELSE path
ProperPrefixes(path) == {SubSeq(path, 1, k) : k \in 0..(Len(path) - 1)}

(* Faulty variant, to test the properties: the last use decides.           *)
AtLeafLastUse(node, c) == [leaf |-> IF node.leaf = NoSchema THEN c.expected ELSE node.leaf,
                           required |-> ~c.optional]

(* The first expected type stays; any use that is not optional requires.   *)
AtLeaf(node, c) == [leaf |-> IF node.leaf = NoSchema THEN c.expected ELSE node.leaf,
                    required |-> node.required \/ ~c.optional]

(* A use below a node that has a type is dropped; one of an array element  *)
(* leaves only the nodes above it.                                         *)
Insert(trie, c) ==
    LET fields == Fields(c.path)
        nodes == DOMAIN trie \union ProperPrefixes(fields) \union {fields}
        grown == [p \in nodes |-> IF p \in DOMAIN trie THEN trie[p] ELSE NewNode]
    IN  IF \E p \in ProperPrefixes(fields) \intersect DOMAIN trie : trie[p].leaf # NoSchema
        THEN trie
        ELSE IF Item \in Range(c.path) THEN grown
        ELSE [grown EXCEPT ![fields] = AtLeaf(@, c)]

RECURSIVE ToSchema(_, _)
ToSchema(trie, path) ==
    LET children == {p[Len(p)] : p \in {q \in DOMAIN trie : q # <<>> /\ Front(q) = path}}
    IN  IF trie[path].leaf # NoSchema THEN trie[path].leaf
        ELSE IF children = {} THEN EmptySchema
        ELSE [type |-> "object",
              properties |-> [name \in children |-> ToSchema(trie, Append(path, name))],
              required |-> {name \in children : trie[Append(path, name)].required}]

BuildInputSchema(uses) ==
    LET trie == FoldLeft(Insert, Root, uses)
    IN  IF DOMAIN trie = {<<>>} /\ trie[<<>>].leaf = NoSchema THEN NoSchema
        ELSE ToSchema(trie, <<>>)

-----------------------------------------------------------------------------
Init ==
    /\ flow \in Flows
    /\ stage = "check"
    /\ types = <<>> /\ checks = <<>> /\ constraints = <<>>
    /\ input = Absent /\ variable = Absent
    /\ results = <<>> /\ given = <<>>

runVars == <<input, variable, results, given>>

(* What was found for an expression whose value goes where "wanted" is.    *)
Check(expr, wanted) ==
    LET env == Environment(flow, types)
        found == Synthesize(expr, env)
    IN  [type |-> found.type, ok |-> found.ok, wanted |-> wanted,
         answer |-> IsSubtype(found.type, wanted), exact |-> Exact(expr, env)]

OutputType(step) == IF step.declared # NoSchema THEN Schema(step.declared) ELSE step.produces

TypeCheckStep ==
    /\ stage = "check" /\ Len(types) < Len(flow.steps)
    /\ LET step == flow.steps[Len(types) + 1]
       IN  /\ checks' = Append(checks, Check(step.input, step.accepts))
           /\ types' = Append(types, OutputType(step))
    /\ UNCHANGED <<flow, stage, constraints, runVars>>

TypeCheckOutput ==
    /\ stage = "check" /\ Len(types) = Len(flow.steps)
    /\ checks' = Append(checks, Check(flow.output, FromOption(flow.result)))
    /\ stage' = "annotate"
    /\ UNCHANGED <<flow, types, constraints, runVars>>

(* stepflow infer writes the types it found where the flow declares none.  *)
Annotate ==
    /\ stage = "annotate"
    /\ constraints' = IF flow.input = NoSchema THEN CollectInputConstraints(flow) ELSE <<>>
    /\ flow' = [flow EXCEPT
         !.steps = [k \in DOMAIN @ |->
             [@[k] EXCEPT !.declared = IF @ = NoSchema THEN SchemaOrNone(types[k]) ELSE @]],
         !.result = IF @ = NoSchema THEN SchemaOrNone(checks[Len(checks)].type) ELSE @,
         !.input = IF @ = NoSchema THEN BuildInputSchema(constraints') ELSE @]
    /\ stage' = "submit"
    /\ UNCHANGED <<types, checks, runVars>>

(* An input the flow declares; a variable it declares, or none.            *)
Submit ==
    /\ stage = "submit"
    /\ input' \in {v \in Value : Conforms(v, FromOption(flow.input))}
    /\ variable' \in {Absent} \union
         UNION {{v \in Value : Validates(v, flow.variables[name])} : name \in DOMAIN flow.variables}
    /\ stage' = "run"
    /\ UNCHANGED <<flow, types, checks, constraints, results, given>>

Context == [input |-> input, variable |-> variable, results |-> results]

RunStep ==
    /\ stage = "run" /\ Len(results) < Len(flow.steps)
    /\ LET v == Resolve(flow.steps[Len(results) + 1].input, Context)
       IN  /\ given' = Append(given, v)
           /\ IF v = Absent THEN stage' = "failed" /\ UNCHANGED results
              ELSE /\ \E r \in Value : /\ Conforms(r, types[Len(results) + 1])
                                       /\ results' = Append(results, r)
                   /\ UNCHANGED stage
    /\ UNCHANGED <<flow, types, checks, constraints, input, variable>>

CompleteRun ==
    /\ stage = "run" /\ Len(results) = Len(flow.steps)
    /\ given' = Append(given, Resolve(flow.output, Context))
    /\ stage' = "done"
    /\ UNCHANGED <<flow, types, checks, constraints, input, variable, results>>

Next == TypeCheckStep \/ TypeCheckOutput \/ Annotate \/ Submit \/ RunStep \/ CompleteRun
Spec == Init /\ [][Next]_vars

-----------------------------------------------------------------------------
(* A value has the type that was synthesized for its expression.           *)
TypesDescribeValues ==
    \A k \in DOMAIN given :
        given[k] # Absent /\ checks[k].exact => Conforms(given[k], checks[k].type)

(* Where subtyping has said yes, and can be trusted, the component (or the *)
(* declared result) gets what it asks for.                                 *)
AcceptedInputsFit ==
    \A k \in DOMAIN given :
        /\ given[k] # Absent /\ checks[k].exact /\ checks[k].answer = "yes"
        /\ YesIsTrusted(checks[k].type, checks[k].wanted)
        => Conforms(given[k], checks[k].wanted)

(* An input that the inferred schema accepts has every part that the flow  *)
(* uses, except optionally, wherever it has what that is a part of; and    *)
(* the part is of the first type expected there.  A use above it of a      *)
(* known type shadows a use; array elements are not looked into.           *)
Shadowed(c) ==
    \E k \in DOMAIN constraints :
        constraints[k].expected # NoSchema /\ constraints[k].path \in ProperPrefixes(c.path)
FirstTyped(k) ==
    constraints[k].expected # NoSchema /\
    \A j \in 1..(k - 1) :
        constraints[j].path = constraints[k].path => constraints[j].expected = NoSchema
InferredSchemaSuffices ==
    input # Absent =>
        \A k \in DOMAIN constraints :
            LET c == constraints[k]
                part == ResolvePath(input, c.path)
            IN  Item \notin Range(c.path) /\ ~Shadowed(c) =>
                /\ ~c.optional /\ c.path # <<>> /\ ResolvePath(input, Front(c.path)) # Absent
                   => part # Absent
                /\ FirstTyped(k) /\ part # Absent => Validates(part, c.expected)
=============================================================================
