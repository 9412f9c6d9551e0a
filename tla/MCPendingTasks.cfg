\* Two attempts of a task, so that timers, scans and workers of the first meet the second.
CONSTANTS
    Worker <- MCWorker
    MaxAttempts = 2
    ExecutionCap = TRUE
SPECIFICATION Spec
INVARIANTS
    NeverRegisteredTwice
    WaitingIsWatched
PROPERTIES
    EveryAttemptIsAnswered
