---------------------------- MODULE MCItemsState ----------------------------
(* Flows of three steps over two items, for TLC.                           *)
EXTENDS ItemsState, TLC

Grammar == INSTANCE ValueExpr WITH Exprs <- {}

CONSTANTS i1, i2

MCItem == {i1, i2}
MCFlowResult == {"null", "object", "step failed"}

Ref(s) == Grammar!StepRef(s, Grammar!Root)
Lit == Grammar!Literal("scalar")

(* The inputs of the three steps and the output of each flow; in           *)
(* Parallel, step 2 is must_execute.                                       *)
MCFlow == {"Chain", "Diamond", "Parallel", "Unused",
           "BranchInput", "BranchShared", "FallbackOutput"}
MCMustExecute(f) == IF f = "Parallel" THEN {2} ELSE {}

MCUnconditionalInputs == MCFlow \ {"BranchInput", "BranchShared"}
MCUnconditionalOutput == MCFlow \ {"FallbackOutput"}

Inputs(f) ==
    CASE f \in {"Chain", "FallbackOutput"} -> <<Lit, Ref(0), Ref(1)>>
      [] f = "Diamond" -> <<Lit, Ref(0), Grammar!ArrayOf(<<Ref(0), Ref(1)>>)>>
      [] f = "Parallel" -> <<Lit, Lit, Grammar!ArrayOf(<<Ref(0), Ref(1)>>)>>
      [] f = "Unused" -> <<Lit, Ref(0), Ref(0)>>
      \* step 2 takes step 1's result if step 0 is truthy
      [] f = "BranchInput" -> <<Lit, Lit, Grammar!IfThenElse(Ref(0), Ref(1), Lit)>>
      \* step 2 falls back on step 1, which the output needs as well
      [] f = "BranchShared" -> <<Lit, Lit, Grammar!Coalesce(<<Ref(0), Ref(1)>>)>>

Output(f) ==
    CASE f \in {"Chain", "Diamond", "BranchInput"} -> Ref(2)
      [] f = "Parallel" -> Ref(0)
      [] f = "Unused" -> Lit
      [] f = "BranchShared" -> Grammar!ArrayOf(<<Ref(1), Ref(2)>>)
      \* the output falls back on step 2 when step 0 returns null
      [] f = "FallbackOutput" -> Grammar!Coalesce(<<Ref(0), Ref(2)>>)

RECURSIVE WithParts(_)
WithParts(e) == {e} \union UNION {WithParts(part) : part \in Grammar!Parts(e)}
FlowExprs == UNION {WithParts(e) : e \in {Output(f) : f \in MCFlow}
                                  \union {Inputs(f)[k] : f \in MCFlow, k \in 1..3}}
Language == INSTANCE ValueExpr WITH Exprs <- FlowExprs

(* The dependency analyses as tables, evaluated once.                      *)
Context(r) == [results |-> r, input |-> "scalar", variable |-> Language!Undefined]
InputNeedsTable ==
    [f \in MCFlow |-> [s \in Step |-> [r \in Results |->
        Language!NeededSteps(Inputs(f)[s + 1], Context(r))]]]
OutputNeedsTable ==
    [f \in MCFlow |-> [r \in Results |-> Language!NeededSteps(Output(f), Context(r))]]

MCInputNeeds(f, s, r) == InputNeedsTable[f][s][r]
MCOutputNeeds(f, r) == OutputNeedsTable[f][r]
=============================================================================
