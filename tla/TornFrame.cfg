SPECIFICATION MCSpec
CONSTANTS
    c1 = c1
    c2 = c2
    machine = machine
    Exit = Exit
    Nothing = Nothing
    Calls = {c1, c2, Exit}
    ClaimOf <- MCClaimOf
    QueueCapacity = 1
    SocketCapacity = 1
    OutCapacity = 1
    MaxInFlight = 1
    Methods = {"Sudo", "Run0"}

PROPERTY OneFrame
CHECK_DEADLOCK FALSE
