CONSTANTS
    b1 = b1
    b2 = b2
    b3 = b3
    id1 = id1
    id2 = id2
    Sessions = {s1, s2}
    Blocks = {b1, b2, b3}
    Ids = {id1, id2}
    EventId <- MCEventId
    Reuse = FALSE
    NoBlock = NoBlock
    s1 = s1
    s2 = s2
SPECIFICATION Spec
SYMMETRY SessionSymmetry
INVARIANTS
    Inv
    Atomic
    RetriesApplyOnce
PROPERTIES
    OutcomeHonest
    ImplementsTransactionPromise
