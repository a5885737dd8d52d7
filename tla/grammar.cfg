SPECIFICATION Spec
CONSTANTS
    Bits = 8
    Inputs <- SomeInputs
    MaxLines = 1
INVARIANTS
    ChunkLinesExact
    FramingExact
    TargetExact
    TrailersExact
CHECK_DEADLOCK FALSE
