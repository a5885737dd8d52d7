SPECIFICATION Spec
CONSTANTS
    MaxHead = 2
    MaxInput = 3
    MaxHeld = 2
    MaxData = 0
    Settings <- BodySettings
INVARIANTS
    TypeOK
    ReaderMatchesState
    HeldIsPayload
    BodyAddsUp
    LimitsHold
PROPERTIES
    EventsProgress
