CONSTANTS
    r1 = r1
    Relays = {r1}
    Events = {1, 2, 3}
    NoStream = {2}
    BatchSize = 2
    MaxRetries = 2
    ExpOverflow = 3
    Window = 1
    Retention = 1
    Backoff <- MCJitter
    Metrics = FALSE
    StageOffsets <- MCImmediate
    OrderedCommits = TRUE
    NatsFaults = FALSE
    MaxFaults = 2
    MaxTime = 2
    NoTime = NoTime
    NoRow = NoRow
    NoEvent = NoEvent
SPECIFICATION FairBudgetSpec
INVARIANTS
    BudgetInv
    PublishesBounded
    RetryBudget
    DeadLetterUnpublished
    FirstCopiesInOrder
PROPERTIES
    RowsMoveForward
    ImplementsDelivery
    EventuallyDelivered
