CONSTANTS
    GenesisValidators = 1
    MaxValidators = 3
    Balance <- MCBalance
    Status <- MCStatus
    StatusValues = {"active", "pending"}
    SLOTS_PER_EPOCH = 2
    CommitteesPerSlot = 2
    ALTAIR_FORK_EPOCH = 1
    MaxEpoch = 1
SPECIFICATION Spec
INVARIANTS
    ValidatorQueriesMatch
