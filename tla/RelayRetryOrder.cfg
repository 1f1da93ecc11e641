CONSTANTS
    r1 = r1
    Relays = {r1}
    Events = {1, 2}
    NoStream = {}
    BatchSize = 2
    MaxRetries = 2
    ExpOverflow = 3
    Window = 2
    Retention = 1
    Backoff <- MCBackoff
    Metrics = FALSE
    StageOffsets <- MCImmediate
    OrderedCommits = TRUE
    NatsFaults = TRUE
    MaxFaults = 0
    MaxTime = 2
    NoTime = NoTime
    NoRow = NoRow
    NoEvent = NoEvent
SPECIFICATION Spec
INVARIANT FirstCopiesInOrder
