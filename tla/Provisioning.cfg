SPECIFICATION MCSpec
CONSTANTS
    MovingParts = {"discipline", "engine", "service"}
    Resources = {storage, sidecar}
    Intents = {{storage}, {sidecar}, {storage, sidecar}}
    Absent = Absent
    MaxRevision = 3
    DeploymentPlans <- MCPlans
    NoManifest = NoManifest
    create = create
    again = again
    clone1 = clone1
    clone2 = clone2
    m1 = m1
    m2 = m2
    m3 = m3
    r1 = r1
    r2 = r2
    Machines = {m1, m2, m3}
    NoSource = NoSource
    Deployments = {clone1, clone2, again}
    TargetOf <- MCTargetOf
    SourceOf <- MCSourceOf
    Foreign = {again}
    Releasers = {r1, r2}
    MaxServiceRevision = 2
    MaxLives = 2
    MaxReservations = 6
SYMMETRY MCSymmetry
INVARIANTS
    Recoverable
    ReleasedIsClean
    ClaimFollowsResponsibility
PROPERTIES
    CleanupIsSafe
    WriteAheadDiscipline
CHECK_DEADLOCK FALSE
