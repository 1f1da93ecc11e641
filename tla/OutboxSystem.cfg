CONSTANTS
    s1 = s1
    r1 = r1
    r2 = r2
    c1 = c1
    c2 = c2
    m1 = m1
    m2 = m2
    m3 = m3
    ann = ann
    billing = billing
    Sessions = {s1}
    Requests = {r1, r2}
    EmailOf <- MCEmailOf
    NoBlock = NoBlock
    Consumers = {c1, c2}
    Groups = {billing}
    GroupOf <- MCGroupOf
    Copies = {m1, m2, m3}
    EventOf <- MCEventOf
    MaxFailures = 1
    NoMessage = NoMessage
CHECK_DEADLOCK FALSE
SPECIFICATION FairSystemSpec
INVARIANTS
    SystemInv
    OneEffectPerUser
PROPERTIES
    EveryUserSeen
    ImplementsSystemPromise
