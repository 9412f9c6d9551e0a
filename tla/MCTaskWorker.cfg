CONSTANTS
    h1 = h1
    h2 = h2
    h3 = h3
    t1 = t1
    t2 = t2
    None = None
    Sdk = {"python grpc", "python nats", "rust grpc", "rust nats"}
    Task <- MCTask
    Handler <- MCHandler
    MaxConcurrent = 2
    MaxRetries = 3
    ClaimTries = 2
    CompleteRetries = 1
SPECIFICATION Spec
INVARIANTS
    SlotsAreAccounted
    AtMostMaxConcurrent
PROPERTIES
    SignalStopsWorker
    WorkerKeepsPulling
CHECK_DEADLOCK FALSE
