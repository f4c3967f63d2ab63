CONSTANTS
    Buffers = {b1, b2, b3}
    Producers = {p1, p2}
    Consumers = {c1, c2}
    Blocks = {x, y}
    Zero = Zero
    NoSamples = NoSamples
    None = None
SPECIFICATION FifoSpec
INVARIANTS FifoTypeOK BufferConservation HaltedIsQuiet NoLostWakeup OverlapChain
PROPERTY ImplementsBufferPool
SYMMETRY Symmetry
