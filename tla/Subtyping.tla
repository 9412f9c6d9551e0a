----------------------------- MODULE Subtyping -----------------------------
(***************************************************************************)
(* The types of stepflow-typecheck, JSON Schemas extended by Any and       *)
(* Never, and its subtyping (subtyping.rs), beside a reference definition  *)
(* of what a schema accepts.                                               *)
(*                                                                         *)
(* A JSON value is a tuple that starts with its type.  A schema is a       *)
(* record with the keywords it has, as the code asks for them by name: {}  *)
(* is the empty record, the boolean schemas have the one field bool.       *)
(* Formats, lengths, $ref and annotations, which the code does not compare,*)
(* are left out.                                                           *)
(*                                                                         *)
(* The operators are RECURSIVE, so this module is for model checking only. *)
(***************************************************************************)
EXTENDS Naturals, Sequences, FiniteSets, SequencesExt

Null == <<"null">>
Item == "[0]"       \* a path is a sequence of field names and of Item

Has(schema, keyword) == keyword \in DOMAIN schema
EmptySchema == [keyword \in {} |-> {}]
TrueSchema == [bool |-> TRUE]
FalseSchema == [bool |-> FALSE]

AnyType == [ty |-> "any"]
NeverType == [ty |-> "never"]
Schema(schema) == [ty |-> "schema", schema |-> schema]

-----------------------------------------------------------------------------
(* Reference definition: the values a schema accepts (JSON Schema).        *)
IsOfType(v, type) == v[1] = type \/ (type = "number" /\ v[1] = "integer")

RECURSIVE Validates(_, _)
Validates(v, schema) ==
    /\ Has(schema, "bool") => schema.bool
    /\ Has(schema, "type") => IsOfType(v, schema.type)
    /\ Has(schema, "enum") => v \in schema.enum
    /\ Has(schema, "const") => v = schema.const
    /\ v[1] = "object" =>
         LET named == IF Has(schema, "properties") THEN DOMAIN schema.properties ELSE {}
         IN  /\ Has(schema, "required") => schema.required \subseteq DOMAIN v[2]
             /\ \A name \in DOMAIN v[2] :
                  IF name \in named THEN Validates(v[2][name], schema.properties[name])
                  ELSE Has(schema, "additionalProperties") =>
                         Validates(v[2][name], schema.additionalProperties)
    /\ v[1] = "array" /\ Has(schema, "items") =>
         \A k \in DOMAIN v[2] : Validates(v[2][k], schema.items)
    /\ Has(schema, "anyOf") => \E k \in DOMAIN schema.anyOf : Validates(v, schema.anyOf[k])
    /\ Has(schema, "oneOf") =>
         Cardinality({k \in DOMAIN schema.oneOf : Validates(v, schema.oneOf[k])}) = 1
    /\ Has(schema, "allOf") => \A k \in DOMAIN schema.allOf : Validates(v, schema.allOf[k])

Conforms(v, type) ==
    CASE type.ty = "any" -> TRUE
      [] type.ty = "never" -> FALSE
      [] type.ty = "schema" -> Validates(v, type.schema)

-----------------------------------------------------------------------------
(* Answers: "yes", "no", "unknown".                                        *)
Both(answers) ==
    IF "no" \in answers THEN "no" ELSE IF "unknown" \in answers THEN "unknown" ELSE "yes"
Holds(condition) == IF condition THEN "yes" ELSE "no"

Untyped == "untyped"
GetSchemaType(schema) == IF Has(schema, "type") THEN schema.type ELSE Untyped
Properties(schema) == IF Has(schema, "properties") THEN DOMAIN schema.properties ELSE {}
Required(schema) == IF Has(schema, "required") THEN schema.required ELSE {}
Closed(schema) ==
    Has(schema, "additionalProperties") /\ schema.additionalProperties = FalseSchema

CheckPrimitiveSubtype(sub, sup) ==
    Both({IF ~Has(sup, "enum") THEN "yes"
          ELSE IF Has(sub, "enum") THEN Holds(sub.enum \subseteq sup.enum) ELSE "unknown",
          IF ~Has(sup, "const") THEN "yes"
          ELSE IF Has(sub, "const") THEN Holds(sub.const = sup.const) ELSE "unknown"})

RECURSIVE CheckSchemaSubtype(_, _)

CheckObjectSubtype(sub, sup) ==
    Both({Holds(Required(sup) \subseteq Properties(sub)),
          Holds(Closed(sup) => Properties(sub) \subseteq Properties(sup))}
         \union {CheckSchemaSubtype(sub.properties[name], sup.properties[name]) :
                   name \in Properties(sub) \intersect Properties(sup)})

CheckArraySubtype(sub, sup) ==
    IF ~Has(sup, "items") THEN "yes"
    ELSE IF Has(sub, "items") THEN CheckSchemaSubtype(sub.items, sup.items) ELSE "unknown"

(* The first composite keyword decides; without any, everything fits.      *)
CheckCompositeSubtype(sub, sup) ==
    LET Some(options) == Holds(\E k \in DOMAIN options : CheckSchemaSubtype(sub, options[k]) = "yes")
    IN  CASE Has(sup, "oneOf") -> Some(sup.oneOf)
          [] ~Has(sup, "oneOf") /\ Has(sup, "anyOf") -> Some(sup.anyOf)
          [] ~Has(sup, "oneOf") /\ ~Has(sup, "anyOf") /\ Has(sup, "allOf") ->
               Both({CheckSchemaSubtype(sub, sup.allOf[k]) : k \in DOMAIN sup.allOf})
          [] OTHER -> "yes"

CheckSchemaSubtype(sub, sup) ==
    LET type == GetSchemaType(sup)
    IN  IF sup \in {EmptySchema, TrueSchema} \/ sub = FalseSchema THEN "yes"
        ELSE IF sup = FalseSchema THEN "no"
        ELSE IF type # Untyped /\ GetSchemaType(sub) \notin {Untyped, type} THEN "no"
        ELSE CASE type = "object" -> CheckObjectSubtype(sub, sup)
               [] type = "array" -> CheckArraySubtype(sub, sup)
               [] type = Untyped -> CheckCompositeSubtype(sub, sup)
               [] OTHER -> CheckPrimitiveSubtype(sub, sup)

(* Faulty variant, to test the properties: Any is taken to fit anything.   *)
IsSubtypeOfAny(subtype, supertype) ==
    IF "any" \in {subtype.ty, supertype.ty} \/ subtype.ty = "never" THEN "yes"
    ELSE IF supertype.ty = "never" THEN "no"
    ELSE CheckSchemaSubtype(subtype.schema, supertype.schema)

IsSubtype(subtype, supertype) ==
    IF supertype.ty = "any" THEN "yes"
    ELSE IF subtype.ty = "any" THEN "unknown"
    ELSE IF subtype.ty = "never" THEN "yes"
    ELSE IF supertype.ty = "never" THEN "no"
    ELSE CheckSchemaSubtype(subtype.schema, supertype.schema)

(***************************************************************************)
(* Where "yes" can be trusted.  The check asks for a required property     *)
(* among those the subtype names, not those it requires; it takes a schema *)
(* without a type ({}, true, a union) for one of any primitive type; it    *)
(* forgets that an object that is not closed may have properties it does   *)
(* not name; and it does not see that options of a oneOf overlap.          *)
(***************************************************************************)
RECURSIVE Comparable(_, _)
Comparable(sub, sup) ==
    \/ sup \in {EmptySchema, TrueSchema} \/ sub = FalseSchema
    \/ CASE GetSchemaType(sup) = "object" ->
              /\ Has(sub, "type")
              /\ Required(sup) \subseteq Required(sub)
              /\ Has(sup, "additionalProperties") =>
                   sup.additionalProperties \in {TrueSchema, FalseSchema}
              /\ Closed(sub) \/ (~Closed(sup) /\ Properties(sup) \subseteq Properties(sub))
              /\ \A name \in Properties(sub) \intersect Properties(sup) :
                   Comparable(sub.properties[name], sup.properties[name])
         [] GetSchemaType(sup) = "array" ->
              /\ Has(sub, "type")
              /\ Has(sub, "items") /\ Has(sup, "items") => Comparable(sub.items, sup.items)
         [] GetSchemaType(sup) = Untyped ->
              /\ ~Has(sup, "oneOf")
              /\ Has(sup, "anyOf") => \A k \in DOMAIN sup.anyOf : Comparable(sub, sup.anyOf[k])
              /\ Has(sup, "allOf") => \A k \in DOMAIN sup.allOf : Comparable(sub, sup.allOf[k])
         [] OTHER -> Has(sub, "type")

YesIsTrusted(subtype, supertype) ==
    subtype.ty = "schema" /\ supertype.ty = "schema" =>
        Comparable(subtype.schema, supertype.schema)

-----------------------------------------------------------------------------
(* Schemas of literals, paths and unions (synthesis.rs).                   *)
SchemaOf(type) == IF type.ty = "schema" THEN type.schema ELSE EmptySchema

(* Two schemas of the same type, or without one, are taken for one.        *)
Collapses(a, b) ==
    /\ a.ty = "schema" /\ b.ty = "schema" /\ a # b
    /\ GetSchemaType(a.schema) = GetSchemaType(b.schema)

(* Faulty variant, to test the properties: the second of two is forgotten. *)
UnionFirst(a, b) == IF a.ty = "never" THEN b ELSE a

UnionTypes(a, b) ==
    IF "any" \in {a.ty, b.ty} THEN AnyType
    ELSE IF a.ty = "never" THEN b
    ELSE IF b.ty = "never" \/ a = b \/ Collapses(a, b) THEN a
    ELSE Schema([anyOf |-> <<a.schema, b.schema>>])

UnionOf(types) == FoldLeft(UnionTypes, NeverType, types)

AnyCollapse(types) ==
    \E k \in DOMAIN types : Collapses(UnionOf(SubSeq(types, 1, k - 1)), types[k])

RECURSIVE InferTypeFromValue(_)
InferTypeFromValue(v) ==
    CASE v[1] = "array" ->
           Schema(IF v[2] = <<>> THEN [type |-> "array"]
                  ELSE [type |-> "array",
                        items |-> SchemaOf(UnionOf([k \in DOMAIN v[2] |-> InferTypeFromValue(v[2][k])]))])
      [] v[1] = "object" ->
           Schema([type |-> "object", required |-> DOMAIN v[2],
                   properties |-> [name \in DOMAIN v[2] |-> SchemaOf(InferTypeFromValue(v[2][name]))]])
      [] OTHER -> Schema([type |-> v[1]])

(* A type, and whether it was found without an error.                      *)
Found(type) == [type |-> type, ok |-> TRUE]
NotFound == [type |-> AnyType, ok |-> FALSE]

RECURSIVE ProjectSchemaPath(_, _)
ProjectSchemaPath(schema, path) ==
    IF path = <<>> THEN Found(Schema(schema))
    ELSE IF Head(path) = Item THEN
         IF Has(schema, "items") THEN ProjectSchemaPath(schema.items, Tail(path)) ELSE Found(AnyType)
    ELSE IF Head(path) \in Properties(schema) THEN
         ProjectSchemaPath(schema.properties[Head(path)], Tail(path))
    ELSE IF ~Has(schema, "additionalProperties") \/ Closed(schema) THEN NotFound
    ELSE IF schema.additionalProperties = TrueSchema THEN Found(AnyType)
    ELSE ProjectSchemaPath(schema.additionalProperties, Tail(path))

ProjectType(type, path) ==
    IF type.ty # "schema" THEN Found(type) ELSE ProjectSchemaPath(type.schema, path)

(* Reference: the part of a value at a path, Null or not there.            *)
Absent == <<"absent">>
RECURSIVE ResolvePath(_, _)
ResolvePath(v, path) ==
    IF path = <<>> THEN v
    ELSE IF Head(path) = Item THEN
         IF v[1] = "array" /\ v[2] # <<>> THEN ResolvePath(v[2][1], Tail(path)) ELSE Absent
    ELSE IF v[1] = "object" /\ Head(path) \in DOMAIN v[2]
         THEN ResolvePath(v[2][Head(path)], Tail(path)) ELSE Absent
=============================================================================
