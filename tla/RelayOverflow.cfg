CONSTANTS
    r1 = r1
    Relays = {r1}
    Events = {1, 2}
    NoStream = {1}
    BatchSize = 2
    MaxRetries = 3
    ExpOverflow = 2
    Window = 1
    Retention = 1
    Backoff <- MCOverflow
    Metrics = FALSE
    StageOffsets <- MCImmediate
    OrderedCommits = TRUE
    NatsFaults = FALSE
    MaxFaults = 0
    MaxTime = 2
    NoTime = NoTime
    NoRow = NoRow
    NoEvent = NoEvent
SPECIFICATION FairSpec
PROPERTY EventuallyDelivered
