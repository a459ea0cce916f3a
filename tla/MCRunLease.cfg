SPECIFICATION LeaseSpec
CONSTANTS
    r1 = r1
    r2 = r2
    r3 = r3
    Absent = Absent
    Runners <- MCRunners
    Processes <- MCRunners
    ProcessOf <- MCProcessOf
SYMMETRY Symmetry
CHECK_DEADLOCK FALSE
PROPERTY
    OnlyDeadOwnersAreReplaced
