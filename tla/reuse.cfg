SPECIFICATION Spec
CONSTANTS
    MaxHead = 2
    MaxInput = 2
    MaxHeld = 1
    MaxData = 1
    Settings <- ReuseSettings
INVARIANTS
    LifecycleInvariant
    WriterMatchesState
    AnnouncementKept
    FinalHeadEndsReuse
PROPERTIES
    LocalErrorChangesNothing
