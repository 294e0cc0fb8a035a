SPECIFICATION FairSpec
CONSTANTS
    c1 = c1
    c2 = c2
    w1 = w1
    w2 = w2
    Creators = {c1, c2}
    Workers = {w1, w2}
    Amount = 1
    LagBeforeTtl = TRUE
    MaxOps = 1
    MaxWebhooks = 1
    MaxFaults = 1
INVARIANTS
    TypeOK
    ChargedOnce
    SuccessIsReal
PROPERTIES
    IntentCloses
    ImplementsContract
