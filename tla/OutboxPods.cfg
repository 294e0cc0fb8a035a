SPECIFICATION FairSpec
CONSTANTS
    e1 = e1
    e2 = e2
    p1 = p1
    p2 = p2
    h1 = h1
    h2 = h2
    Pods = {p1, p2}
    Rows = {e1, e2}
    Handlers = {h1}
    MaxRetries = 2
    MaxStops = 1
    Payloads <- BothPayloads
    FieldRank <- MCFieldRank
INVARIANTS
    TypeOK
    NotDeadEarly
    DeadHasLetter
PROPERTIES
    EveryRowSettles
    ImplementsDelivery
