SPECIFICATION MCSpec
CONSTANTS
    d1 = d1
    d2 = d2
    d3 = d3
    m1 = m1
    m2 = m2
    Deployments = {d1, d2, d3}
    Machines = {m1, m2}
    TargetOf <- MCTargetOf
    MaxRecords = 2
    MaxRevision = 2
    Limit = 4
    MaxEntries = 3
    Word = 12
    FileRecords <- MCFileRecords
    HintRecords <- MCHintRecords
    MaxHeaders = 4
    MaxPartitions = 2
    MaxLoops = 2
    Destinations = {"dev", "lib"}
    Versions = {1, 2}
    Scan <- MCScan
    AdminBinds <- MCAdminBinds
    MaxEdits = 1
    Callers = {"c1", "c2"}
    Hosted = {"m"}
    MaxConnections = 2
    MaxHostChanges = 1
SYMMETRY MCSymmetry
INVARIANTS SnapshotsValidate ExtractedFits AnswersHold SyncIsComplete ListingIsFaithful OutcomeIsHonest
PROPERTIES EvictionIsSafe
CHECK_DEADLOCK FALSE
