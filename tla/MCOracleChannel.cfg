SPECIFICATION FairSpec
CONSTANTS
    NoSocket = NoSocket
    r1 = r1
    r2 = r2
    r3 = r3
    s1 = s1
    s2 = s2
    Rpcs = {r1, r2, r3}
    Sockets = {s1, s2}
    MaxInFlight = 2
INVARIANTS
    OneOpenSocket
    CallsWaitOnOpenSocket
    ReadsServeActiveSocket
    ResponsesAreExpected
PROPERTIES
    CallsAreAnswered
    HalfOpenIsReplaced
