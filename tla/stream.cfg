CONSTANTS
    MaxBufferChunks = 2
    MaxBufferSamples = 3
    Sizes <- MCSizes
    MaxChunks = 3
SPECIFICATION FairSpec
INVARIANTS BufferAccounting NobodyForgotten CallbacksAccounted CountedOnce
PROPERTIES ImplementsContract WriterIsFreed StreamFinishes ReaderIsTold
           ReadingClientIsServed
CHECK_DEADLOCK FALSE
