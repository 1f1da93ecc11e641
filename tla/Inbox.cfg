CONSTANTS
    c1 = c1
    c2 = c2
    c3 = c3
    billing = billing
    analytics = analytics
    e1 = e1
    e2 = e2
    m1 = m1
    m2 = m2
    m3 = m3
    NoMessage = NoMessage
    Consumers = {c1, c2, c3}
    Groups = {billing, analytics}
    GroupOf <- MCGroupOf
    Events = {e1, e2}
    Copies = {m1, m2, m3}
    EventOf <- MCEventOf
    MaxFailures = 2
SPECIFICATION FairSpec
INVARIANTS
    ExactlyOnceEffect
    AckedApplied
    Inv
PROPERTIES
    EventuallyAcked
    ImplementsInboxPromise
