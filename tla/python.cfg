SPECIFICATION Spec
CONSTANTS
    MaxHead = 4
    MaxData = 1
    Settings <- PythonSettings
INVARIANTS
    QueueIsHeld
PROPERTIES
    Delivers
