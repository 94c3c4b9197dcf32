CONSTANTS
    MaxCount = 9
    MaxTick = 1
    IntBits = 6
SPECIFICATION Spec
INVARIANTS
    TypeOK
    AsManyAsAsked
    CreatedBeforeUsed
CHECK_DEADLOCK FALSE
