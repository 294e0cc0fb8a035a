CONSTANTS
    t1 = t1
    t2 = t2
    w1 = w1
    w2 = w2
    None = None
    Tickets <- MCTickets
    Workers <- MCWorkers
    Routes <- WiredRoutes
    MaxVersion = 2
    MaxDeliveries = 3
SPECIFICATION Spec
SYMMETRY Symmetry
CHECK_DEADLOCK FALSE
INVARIANT
    BulkRefundsAll
