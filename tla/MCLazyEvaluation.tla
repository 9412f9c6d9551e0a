-------------------------- MODULE MCLazyEvaluation --------------------------
(* Expressions of depth at most two over three steps, for TLC.             *)
EXTENDS LazyEvaluation

CONSTANTS a, b, c

MCStep == {a, b, c}
MCOutcomes == {"null", "false", "object", "step failed"}
MCInputs == {"null"}

Refs == {StepRef(s, Root) : s \in MCStep} \union {StepRef(a, Field)}
Leaves == Refs \union {VariableRef(Literal("scalar")), VariableRef(NoDefault),
                           InputRef, Literal("object")}

Conditionals(C, T, E) == {IfThenElse(x, y, z) : x \in C, y \in T, z \in E}
Pairs(S, T) == {<<x, y>> : x \in S, y \in T}

Shallow ==
    Conditionals(Leaves, Refs, Refs \union {Literal("null")})
      \union {Coalesce(p) : p \in Pairs(Leaves, Leaves)}
      \union {ArrayOf(p) : p \in Pairs(Leaves, Leaves)}

Small == Conditionals({StepRef(a, Root)}, {StepRef(b, Root)}, {StepRef(c, Root)})
           \union {Coalesce(p) : p \in Pairs({StepRef(a, Root)}, {StepRef(b, Root), InputRef})}

Deep ==
    {ArrayOf(p) : p \in Pairs(Refs, Small) \union Pairs(Small, Refs)}
      \union {Coalesce(p) : p \in Pairs(Refs, Small) \union Pairs(Small, Refs)}
      \union Conditionals(Small, Refs, {StepRef(c, Root)})
      \union Conditionals({StepRef(b, Root), InputRef}, Small, {StepRef(c, Root)})

(* Defaults that mention a step, alone and below other expressions.        *)
Defaulted ==
    LET defaults == {VariableRef(r) : r \in Refs}
    IN  defaults \union Conditionals(defaults, Refs, {StepRef(c, Root)})
          \union {Coalesce(p) : p \in Pairs(defaults, Refs)}
          \union {ArrayOf(p) : p \in Pairs(Refs, defaults)}

RECURSIVE WithParts(_)
WithParts(e) == {e} \union UNION {WithParts(part) : part \in Parts(e)}

MCExprs == UNION {WithParts(e) : e \in Shallow \union Deep \union Defaulted}
=============================================================================
