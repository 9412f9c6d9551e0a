SPECIFICATION Spec
CONSTANTS
    a = a
    b = b
    c = c
    Step <- MCStep
    Exprs <- MCExprs
    Outcomes <- MCOutcomes
    Inputs <- MCInputs
    MaxStray = 1
INVARIANTS
    ResolvesWhenReady
    LazyWhenMentionedOnce
PROPERTY ReadyIsStable
CHECK_DEADLOCK FALSE
