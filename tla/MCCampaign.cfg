SPECIFICATION FairSpec
CONSTANTS
    r1 = r1
    r2 = r2
    repo = repo
    checks = checks
    Absent = Absent
    NoTask = NoTask
    Runners <- MCRunners
    Processes <- MCRunners
    ProcessOf <- MCProcessOf
    TaskCount = 3
    DependsOn <- MCDependsOn
    Resource <- MCResource
    Mutating = {2, 3}
    MaxSteps = 2
    MaxFailures = 1
CHECK_DEADLOCK FALSE
INVARIANTS
    OneRunAtATime
    OneEffectPerResource
PROPERTIES
    OnlyDeadOwnersAreReplaced
    KeepsPromise
    InFlightIsReconciled
