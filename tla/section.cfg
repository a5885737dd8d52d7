SPECIFICATION Spec
CONSTANTS
    MaxHead = 4
    MaxInput = 6
INVARIANTS
    LinearWork
PROPERTIES
    PollsAgree
    ConclusionsStand
