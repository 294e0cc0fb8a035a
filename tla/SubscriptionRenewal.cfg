SPECIFICATION Spec
CONSTANTS
    m1 = m1
    w1 = w1
    w2 = w2
    i1 = i1
    i2 = i2
    None = None
    Methods = {m1}
    Workers = {w1, w2}
    Intents = {i1, i2}
    Cycle = 2
    LeadDays = 1
    DunningAfter <- EarlyDunning
    SuspendAfter = 1
    MaxDay = 2
    MaxOps = 1
INVARIANTS
    PaidRenewalProlongs
