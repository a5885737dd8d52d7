SPECIFICATION Spec
CONSTANTS
    MaxHead = 2
    MaxInput = 2
    MaxHeld = 1
    MaxData = 0
    Settings <- ContinueSettings
INVARIANTS
    WaitingClientIsInBody
