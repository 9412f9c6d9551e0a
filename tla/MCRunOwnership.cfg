SPECIFICATION Spec
CONSTANTS
    n1 = n1
    n2 = n2
    r1 = r1
    Node <- MCNode
    Run <- MCRun
    Ingress <- MCIngress
    None = None
    MaxClaims = 1
    FaultPlans <- MCFaultPlans
INVARIANTS
    ProtectedRunsHaveOneExecutor
    MarksFollowRecovery
    ExecutorHoldsLease
PROPERTY EveryRunEnds
