CONSTANTS
    a = a
    a1 = a1
    w1 = w1
    None = None
    Backend = {"memory", "sql"}
    Run <- MCRun
    RootOf <- MCRootOf
    Items <- MCItems
    Fate <- MCFate
    Waiter = {w1}
    Capacity = 1
    MaxCancels = 1
    MaxFaults = 2
SPECIFICATION Spec
INVARIANTS
    WaitersGetAllResults
    OverMeansRecorded
PROPERTY EveryWaitEnds
CHECK_DEADLOCK FALSE
