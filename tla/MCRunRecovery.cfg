SPECIFICATION RunSpec
CONSTANTS
    i1 = i1
    i2 = i2
    Item <- OneItem
    Flow <- MCFlow
    NumSteps = 3
    FlowResult <- SuccessResult
    NotRun = "not run"
    InputNeeds <- MCInputNeeds
    OutputNeeds <- MCOutputNeeds
    UnconditionalInputs <- MCUnconditionalInputs
    UnconditionalOutput <- MCUnconditionalOutput
    MustExecute <- MCMustExecute
    MaxCrashes = 2
INVARIANTS
    RecoveryLosesNothing
    MemoryMatchesJournal
    NeededSurvivesRecovery
PROPERTY ImplementsUninterruptedRun
CHECK_DEADLOCK FALSE
