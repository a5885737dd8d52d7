SPECIFICATION PySpec
CONSTANTS
    Names <- SomeNames
    Values <- SomeValues
    Sections <- SomeSections
    MaxCalls = 4
    Threads = {t1, t2, t3}
    MaxWrapped = 1
    MaxReads = 4
INVARIANTS
    OneTuple
PROPERTIES
    IsFieldList
    ReadsReturn
CHECK_DEADLOCK FALSE
