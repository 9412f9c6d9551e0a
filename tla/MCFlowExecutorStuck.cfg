\* A crash between the last task of a subflow and its RunCompleted.
CONSTANTS
    call = call
    after = after
    probe = probe
    use = use
    sub1 = sub1
    sub2 = sub2
    root = root
    Root = root
    SubRun <- MCSubRun
    RootStep <- MCRootStep
    SubflowStep <- MCSubflowStep
    SubStep <- MCSubStep
    DependsOn <- MCDependsOn
    OutputStep <- MCOutputStep
    StepResult <- MCStepResult
    Tolerant <- MCTolerant
    UsesDefault <- MCUsesDefault
    MaxInFlight = 1
    MaxTransportRetries = 0
    Checkpointing = TRUE
    MaxCrashes = 1
SPECIFICATION Spec
INVARIANT AwaitedRunsProgress
