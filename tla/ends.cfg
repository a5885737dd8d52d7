SPECIFICATION LoopSpec
CONSTANTS
    MaxHead = 2
    MaxInput = 2
    MaxHeld = 1
    MaxData = 1
    Settings <- EndSettings
INVARIANTS
    ProposalsAgree
    NoWaitAfterAnswer
PROPERTIES
    TrailingDataKept
    DrainsAfterEof
