SPECIFICATION BufferSpec
CONSTANTS
    Byte <- TwoBytes
    Pieces <- SomePieces
    MaxTotal = 7
INVARIANTS
    AmortizedLinear
PROPERTIES
    WasteBounded
    IsFifo
