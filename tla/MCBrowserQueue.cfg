SPECIFICATION Spec
CONSTANTS
    r1 = r1
    r2 = r2
    r3 = r3
    r4 = r4
    k1 = k1
    k2 = k2
    t1 = t1
    t2 = t2
    NoKey = NoKey
    NoRequest = NoRequest
    Requests <- RegistryRequests
    Keys <- MCKeys
    KeyOf <- RegistryKeyOf
    FingerprintOf <- RegistryFingerprintOf
    TabOf <- MCTabOf
    MaxConcurrency = 1
    MaxEntries = 1
INVARIANTS
    OneOperationPerKey
    CarriedOutOnce
    AnswersAreTrue
\* Every request is handled once: the system stops when all are answered.
CHECK_DEADLOCK FALSE
