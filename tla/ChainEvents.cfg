CONSTANTS
    ProposerIndexes = {1}
    SLOTS_PER_EPOCH = 2
    MaxEpoch = 3
    MaxSlot = 7
    MaxBlocks = 5
SPECIFICATION Spec
INVARIANTS
    TypeOK
    KnownAboveHorizon
    CheckpointsReported
CHECK_DEADLOCK FALSE
