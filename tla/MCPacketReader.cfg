CONSTANTS
    BUFFLEN = 10
    Frames <- MCFrames
    Noise <- MCNoise
    MaxTrouble = 3
SPECIFICATION Spec
INVARIANTS ReaderTypeOK CleanFramesDelivered DeliveredWellFormed
PROPERTY Resynchronises
