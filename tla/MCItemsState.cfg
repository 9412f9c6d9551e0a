SPECIFICATION Spec
CONSTANTS
    i1 = i1
    i2 = i2
    Item <- MCItem
    Flow <- MCFlow
    NumSteps = 3
    FlowResult <- MCFlowResult
    NotRun = "not run"
    InputNeeds <- MCInputNeeds
    OutputNeeds <- MCOutputNeeds
    UnconditionalInputs <- MCUnconditionalInputs
    UnconditionalOutput <- MCUnconditionalOutput
    MustExecute <- MCMustExecute
INVARIANTS
    WaitersMirrorWaitingOn
    IncompleteCountIsExact
    ReadyTasksHaveTheirInputs
    NotifiedExactlyOnce
    UnconditionalRunsSucceed
CHECK_DEADLOCK FALSE
