CONSTANTS
    r1 = r1
    r2 = r2
    Relays = {r1, r2}
    Events = {1, 2, 3}
    NoStream = {3}
    BatchSize = 2
    MaxRetries = 2
    ExpOverflow = 3
    Window = 1
    Retention = 1
    Backoff <- MCBackoff
    Metrics = FALSE
    StageOffsets <- MCOffsets
    OrderedCommits = FALSE
    NatsFaults = FALSE
    MaxFaults = 0
    MaxTime = 2
    NoTime = NoTime
    NoRow = NoRow
    NoEvent = NoEvent
SPECIFICATION Spec
SYMMETRY RelaySymmetry
INVARIANTS
    NoDuplicatePublishes
