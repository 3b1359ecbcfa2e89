SPECIFICATION Spec
CONSTANTS
    m1 = m1
    m2 = m2
    u1 = u1
    User = User
    Service = Service
    Machines = {m1, m2}
    Uid <- MCUid
    MaxInstance <- MCMaxInstance
    MaxGeneration = 2
    MaxRecords = 2
    MaxAsks = 3
    MaxTrouble = 2
    MaxEvents = 4
INVARIANTS
    AuthorizationIsNamed
PROPERTIES
    RunningKeepsAccess
    StopIsReclaimed
CHECK_DEADLOCK FALSE
