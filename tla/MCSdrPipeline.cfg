CONSTANTS
    Buffers = {b1, b2}
    Reader = r
    Main = m
    Producers = {r}
    Consumers = {m}
    MaxBlocks = 5
    Blocks <- MCBlocks
    WatchdogStart = 2
    Zero = 0
    NoSamples = NoSamples
    None = None
SPECIFICATION Spec
INVARIANTS PipelineTypeOK StreamContinuity DecodedInOrder NoTrailingDataLost DestroyIsSafe
PROPERTY ShutdownCompletes
CHECK_DEADLOCK FALSE
