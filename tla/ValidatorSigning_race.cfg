CONSTANTS
    k1 = k1
    r1 = r1
    r2 = r2
    Pubkeys = {k1}
    Roots = {r1, r2}
    Tasks = {1, 2}
    MaxSlot = 1
    MaxDuties = 2
    GENESIS_SLOT = 0
SPECIFICATION Spec
PROPERTY
    SafetySpec
