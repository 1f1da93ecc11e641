CONSTANTS
    r1 = r1
    r2 = r2
    Relays = {r1, r2}
    Events = {1, 2}
    NoStream = {2}
    BatchSize = 2
    MaxRetries = 2
    ExpOverflow = 3
    Window = 1
    Retention = 1
    Backoff <- MCBackoff
    Metrics = TRUE
    StageOffsets <- MCLagging
    OrderedCommits = TRUE
    NatsFaults = TRUE
    MaxFaults = 1
    MaxTime = 1
    NoTime = NoTime
    NoRow = NoRow
    NoEvent = NoEvent
SPECIFICATION FairBudgetSpec
INVARIANTS
    BudgetInv
    PublishesBounded
PROPERTIES
    RowsMoveForward
    EventuallySettled
    LocksReleased
