--------------------------- MODULE MCFlowExecutor ---------------------------
(* A root whose first step runs a subflow and whose second needs the first.*)
(* The subflow fails in its first step, which its second mentions in a     *)
(* condition only; the second has a default, and gives the output.         *)
EXTENDS FlowExecutor, TLC

CONSTANTS call, after, probe, use, root, sub1, sub2

MCRootStep == {call, after}
MCSubflowStep == {call}
MCSubStep == {probe, use}
MCDependsOn == (call :> {}) @@ (after :> {call}) @@ (probe :> {}) @@ (use :> {probe})
MCOutputStep == {after, use}
MCStepResult ==
    (call :> {"transport"}) @@ (after :> {"ok"}) @@ (probe :> {"error"}) @@ (use :> {"error"})
MCTolerant == {use}
MCUsesDefault == {use}
MCSubRun == {sub1, sub2}
=============================================================================
