CONSTANTS
    r1 = r1
    r2 = r2
    Relays = {r1, r2}
    Events = {1, 2}
    NoStream = {2}
    BatchSize = 2
    MaxRetries = 3
    ExpOverflow = 2
    Window = 1
    Retention = 1
    Backoff <- MCOverflow
    Metrics = TRUE
    StageOffsets <- MCImmediate
    OrderedCommits = FALSE
    NatsFaults = TRUE
    MaxFaults = 1
    MaxTime = 1
    NoTime = NoTime
    NoRow = NoRow
    NoEvent = NoEvent
SPECIFICATION Spec
SYMMETRY RelaySymmetry
INVARIANTS
    TypeOK
    LocksExclusive
    CopiesCurrent
    NothingLost
    Inv
