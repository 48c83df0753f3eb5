CONSTANTS
    c1 = c1
    c2 = c2
    Conns = {c1, c2}
    MaxRequests = 3
SPECIFICATION Spec
INVARIANTS
    WriteHeadOnce
PROPERTIES
    StopResolves
CHECK_DEADLOCK FALSE
