CONSTANTS
    a1 = a1
    Validators = {1}
    AttSlashings <- MCAttSlashings
    AttKeyOrder <- MCAttKeyOrder
    IntersectingIndices <- MCIntersectingIndices
    ActivationEpoch <- MCActivationEpoch
    MAX_PROPOSER_SLASHINGS = 1
    MAX_ATTESTER_SLASHINGS = 1
    MAX_VOLUNTARY_EXITS = 1
    SHARD_COMMITTEE_PERIOD = 0
    MIN_VALIDATOR_WITHDRAWABILITY_DELAY = 2
    EPOCHS_PER_SLASHINGS_VECTOR = 2
    FAR_FUTURE_EPOCH = 100
    MaxEpoch = 3
    MaxInFlight = 1
SPECIFICATION PSpec
INVARIANTS
    PersistedItemsMatch
