\* Every adapter, every script of up to four frames.
CONSTANTS
    MaxFrames = 4
    Chunks <- SomeChunks
    Blocks <- SomeBlocks
    Parts <- SomeParts
SPECIFICATION Spec
INVARIANTS
    DecodedAsSent
    QueuesLoseNoText
PROPERTIES
    ImplementsEventStream
    FinishedIsCompleted
CHECK_DEADLOCK FALSE
