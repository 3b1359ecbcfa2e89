SPECIFICATION MCSpec
CONSTANTS
    MovingParts = {"document"}
    machine = machine
    hidden = hidden
    systemd = systemd
    imageOfMachine = imageOfMachine
    hiddenImage = hiddenImage
    NoImage = NoImage
    Keys = {machine, hidden, systemd}
    Images = {imageOfMachine, hiddenImage}
    KeyOf <- MCKeyOf
    MaxReservations = 4
    Machines = {imageOfMachine}
    MaxInputs = 2
    Listable <- MachineList
    Regular <- RegularList
    Internal <- InternalList
    MaxTabs = 2
    InspectedMachines = {"m"}
    InspectedImages = {"i"}
    Directory = "dir"
    Sockets = {"X0", "X1"}
    WaylandSources = {"W"}
    Targets = {"T", "U"}
    Documents <- MCDocuments
    MaxChanges = 2
    MachineTargets = {"m"}
    ImageTargets = {"i"}
    Items = {"x", "y"}
    RefusedDrafts = {{"y"}}
    EventCap = 1
    MaxGeneration = 2
    MaxQuery = 2
    MaxRevision = 3
    Processes = {p1, p2}
    Kinds = {"nspawn", "override"}
INVARIANTS
    SavedAsReviewed
CHECK_DEADLOCK FALSE
