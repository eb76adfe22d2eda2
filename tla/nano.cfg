CONSTANTS
    c1 = c1  c2 = c2  c3 = c3
    Calls = {c1, c2, c3}
    Stalled = {c1}
    Capability = 3
    PoolSize = 2
    MaxChunks = 2
SPECIFICATION FairSpec
INVARIANTS SequencesWithinCapability NobodyStranded NothingLeftBehind
PROPERTIES EveryCallReturns SlowStreamStopsNoOther
CHECK_DEADLOCK FALSE
