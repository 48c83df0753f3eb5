CONSTANTS
    Items = {1, 2, 3}
    AttSubnets = {10, 11}
    SYNC_COMMITTEE_SIZE = 3
SPECIFICATION Spec
INVARIANT
    TypeOK
CHECK_DEADLOCK FALSE
