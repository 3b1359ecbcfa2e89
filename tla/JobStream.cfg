CONSTANTS
    EventCapacity = 1
    PipeCapacity = 1
    MaxEvents = 2
SPECIFICATION Spec
INVARIANTS
    StreamIsFaithful
PROPERTIES
    NobodyWaitsForever
CHECK_DEADLOCK FALSE
