SPECIFICATION Spec
CONSTANTS
    NoRecord = NoRecord
    NoTask = NoTask
    t1 = t1
    t2 = t2
    build = build
    Tasks = {t1}
    CommandOf <- MCCommandOf
    MaxRetained = 1
    MaxCrashes = 0
    MaxFailures = 0
PROPERTY
    CancelledStaysTerminal
CHECK_DEADLOCK FALSE
