CONSTANTS
    b1 = b1
    b2 = b2
    b3 = b3
    id1 = id1
    id2 = id2
    Sessions = {s1}
    Blocks = {b1, b2, b3}
    Ids = {id1, id2}
    EventId <- MCEventId
    Reuse = TRUE
    NoBlock = NoBlock
SPECIFICATION Spec
INVARIANT Atomic
