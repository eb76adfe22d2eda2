CONSTANTS
    MaxBufferChunks = 1
    MaxBufferSamples = 2
    Sizes = {1}
    MaxChunks = 1
SPECIFICATION Spec
INVARIANTS QueuedMeansNotRun
CHECK_DEADLOCK FALSE
