---------------------------- MODULE MCTypeCheck ----------------------------
(* Three families of flows: an input passed on, for subtyping; expressions *)
(* over a step and a variable, for synthesis; two steps that share the     *)
(* input, for the inference of its schema.                                 *)
EXTENDS TypeCheck

MCNoSchema == [none |-> "schema"]
MCNoExpr == [kind |-> "none"]

Prim(type) == [type |-> type]
Obj(properties, required) ==
    [type |-> "object", properties |-> properties, required |-> required]
Closing(schema) == schema @@ [additionalProperties |-> FalseSchema]
StrS == Prim("string")
IntS == Prim("integer")
ObjX == Obj([x |-> IntS], {"x"})
Ints == [type |-> "array", items |-> IntS]

Integer1 == <<"integer", 1>>
StringS == <<"string", "s">>
Record(fields) == <<"object", fields>>
Nothing == [name \in {} |-> Null]
MCValue ==
    {Null, Integer1, StringS,
     Record(Nothing), Record([x |-> Integer1]), Record([x |-> StringS]),
     Record([y |-> Integer1]), Record([x |-> Integer1, y |-> StringS]),
     Record([x |-> Record([y |-> Integer1])]), Record([x |-> Record(Nothing)]),
     <<"array", <<>>>>, <<"array", <<Integer1>>>>, <<"array", <<Integer1, StringS>>>>}

-----------------------------------------------------------------------------
Step(path) == [kind |-> "step", step |-> 1, path |-> path]
Input(path) == [kind |-> "input", path |-> path]
Variable(path, default) == [kind |-> "variable", path |-> path, default |-> default]
Literal(v) == [kind |-> "literal", value |-> v]
ListOf(items) == [kind |-> "array", items |-> items]
Fielded(names, fields) == [kind |-> "object", names |-> names, fields |-> fields]
If(condition, then, else) ==
    [kind |-> "if", condition |-> condition, then |-> then, else |-> else]
Coalesce(values) == [kind |-> "coalesce", values |-> values]

Task(expr, accepts, produces, declared) ==
    [input |-> expr, accepts |-> accepts, produces |-> produces, declared |-> declared]
NoVariable == [name \in {} |-> {}]
FlowOf(inputSchema, variables, steps, output, result) ==
    [input |-> inputSchema, variables |-> variables, steps |-> steps,
     output |-> output, result |-> result]

(* Subtyping: each schema against each.                                    *)
Schemas ==
    {EmptySchema, TrueSchema, FalseSchema, StrS, IntS, Prim("number"), Prim("null"),
     [type |-> "integer", enum |-> {Integer1}], [type |-> "string", const |-> StringS],
     ObjX, Obj([x |-> IntS], {}), Obj([x |-> StrS], {"x"}), Obj([x |-> IntS, y |-> StrS], {"x", "y"}),
     Closing(ObjX), Closing(Obj([x |-> IntS, y |-> StrS], {"x"})), Obj([x |-> ObjX], {"x"}),
     Prim("array"), Ints, [type |-> "array", items |-> StrS],
     [anyOf |-> <<IntS, StrS>>], [anyOf |-> <<ObjX, Prim("null")>>], [oneOf |-> <<IntS, ObjX>>],
     [allOf |-> <<ObjX, Obj([y |-> StrS], {})>>]}
Passing ==
    {FlowOf(s, NoVariable, <<Task(Input(<<>>), Schema(t), AnyType, IntS)>>, Step(<<>>), IntS) :
        s \in Schemas, t \in Schemas}

(* Synthesis.                                                              *)
Leaves ==
    {Step(<<>>), Step(<<"x">>), Step(<<Item>>), Input(<<"x">>), Literal(Integer1),
     Literal(<<"array", <<Integer1, StringS>>>>), Literal(Record([x |-> Integer1]))}
Expressions ==
    Leaves
      \union {Variable(<<"v">>, d) : d \in {MCNoExpr, Literal(StringS), Input(<<"x">>)}}
      \union {Variable(<<"v", "x">>, d) : d \in {MCNoExpr, Literal(StringS)}}
      \union {ListOf(<<a, Input(<<"x">>)>>) : a \in Leaves}
      \union {ListOf(<<Literal(Record([x |-> StringS])), Step(<<>>)>>)}
      \union {Fielded(<<"y", "x">>, <<Literal(StringS), a>>) : a \in Leaves}
      \union {If(Step(<<"x">>), a, e) : a \in Leaves, e \in {MCNoExpr, Input(<<"x">>)}}
      \union {Coalesce(<<a, Literal(StringS)>>) : a \in Leaves}
      \union {Coalesce(<<Step(<<>>), If(Literal(Integer1), Literal(StringS), MCNoExpr)>>)}
Synthesizing ==
    {FlowOf(i, v, <<Task(Literal(Null), AnyType, p, d), Task(e, a, AnyType, StrS)>>, e, MCNoSchema) :
        i \in {MCNoSchema, ObjX},
        v \in {NoVariable, [v |-> Obj([x |-> IntS], {})]},
        p \in {Schema(ObjX), Schema(Ints)},
        d \in {MCNoSchema, [anyOf |-> <<ObjX, Prim("null")>>], [properties |-> [x |-> IntS]]},
        e \in Expressions,
        a \in {AnyType, Schema(ObjX), Schema([anyOf |-> <<IntS, StrS>>])}}

(* Inference.                                                              *)
Uses ==
    {Input(<<>>), Input(<<"x">>), Input(<<"y">>), Input(<<"x", "y">>), Input(<<Item>>),
     Variable(<<"v">>, Input(<<"x">>)), Coalesce(<<Input(<<"x">>), Input(<<"y">>)>>),
     Fielded(<<"x">>, <<Input(<<"x">>)>>), ListOf(<<Input(<<"x">>)>>),
     If(Input(<<"x">>), Input(<<"y">>), MCNoExpr)}
Inferring ==
    {FlowOf(MCNoSchema, NoVariable,
            <<Task(e, a, AnyType, IntS), Task(f, b, AnyType, IntS)>>, o, MCNoSchema) :
        e \in Uses, f \in Uses, o \in {Literal(Null), Input(<<"x">>)},
        a \in {AnyType, Schema(ObjX), Schema(IntS)}, b \in {AnyType, Schema(StrS)}}

MCFlows == Passing \union Synthesizing \union Inferring
=============================================================================
