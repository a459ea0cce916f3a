SPECIFICATION FairSpec
CONSTANTS
    NoRecord = NoRecord
    NoTask = NoTask
    t1 = t1
    t2 = t2
    build = build
    Tasks = {t1, t2}
    CommandOf <- MCCommandOf
    MaxRetained = 1
    MaxCrashes = 1
    MaxFailures = 1
INVARIANTS
    OneActivePerCommand
    EndedChildIsGone
    AnnouncedIsPersisted
    FileMatchesMemory
PROPERTIES
    CancelReturnsWhenChildGone
    TasksEnd
CHECK_DEADLOCK FALSE
