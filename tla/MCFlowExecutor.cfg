\* One crash, one transport retry; the parent alone fills max_in_flight.
CONSTANTS
    call = call
    after = after
    probe = probe
    use = use
    sub1 = sub1
    sub2 = sub2
    root = root
    Root = root
    SubRun <- MCSubRun
    RootStep <- MCRootStep
    SubflowStep <- MCSubflowStep
    SubStep <- MCSubStep
    DependsOn <- MCDependsOn
    OutputStep <- MCOutputStep
    StepResult <- MCStepResult
    Tolerant <- MCTolerant
    UsesDefault <- MCUsesDefault
    MaxInFlight = 1
    MaxTransportRetries = 1
    Checkpointing = TRUE
    MaxCrashes = 1
SPECIFICATION Spec
INVARIANTS
    DispatchIsJournalled
    NoStepIsForgotten
    SubflowsEndInOrder
    CrashesDuplicateNoSubflow
PROPERTIES
    AttemptsAreConsecutive ImplementsExecutionTree EndsWithoutCrash
