SPECIFICATION Spec
CONSTANTS
    Guarded <- MCGuarded
    AlreadyOut <- MCAlreadyOut
    MaxFaults = 1
    MaxResumes = 1
    MaxMessages = 1
INVARIANTS
    DispatchedOnce
    InstalledOnce
    SucceededIsInstalled
CHECK_DEADLOCK FALSE
