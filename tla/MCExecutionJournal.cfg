CONSTANTS
    a = a
    a1 = a1
    w1 = w1
    w2 = w2
    q1 = q1
    None = None
    Backend = {"memory", "sql", "nats"}
    Root = {a}
    Event <- MCEvent
    Writer = {w1, w2}
    Reader = {q1}
    BatchSize = 1
    From = {1}
    MaxEntries = 3
    MaxDisconnects = 1
SPECIFICATION Spec
INVARIANTS
    AckedEntriesStay
    ReadersMissNothing
    ReplaySeesWhatWasAcked
PROPERTY EveryWatchEnds
CHECK_DEADLOCK FALSE
