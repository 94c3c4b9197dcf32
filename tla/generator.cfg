CONSTANTS
    ObjectTypes = {"Note", "Unknown"}
    ActorTypes = {"Person"}
    MaxItems = 4
    MaxOptions = 2
    MaxTick = 1
SPECIFICATION Spec
CHECK_DEADLOCK FALSE
INVARIANT TypeOK
INVARIANT UniqueIRIs
INVARIANT ActivitiesFollowTheirObjects
