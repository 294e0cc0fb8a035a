CONSTANTS
    r1 = r1
    r2 = r2
    tA = tA
    tB = tB
    s1 = s1
    s2 = s2
    p1 = p1
    p2 = p2
    w1 = w1
    w2 = w2
    None = None
    Rows <- MCRows
    Workers <- MCWorkers
    Trips <- LifeTrips
    Seats <- LifeSeats
    Passengers <- LifePassengers
    MaxSeatsOpen <- LifeOpen
    Departure <- LifeDeparture
    Bookable = {}
    Permitted <- Verbs
    PayTtl = 1
    Grace = 0
    TicketTtl = 0
    MaxClock = 2
    MaxKeyed = 0
    MaxAsked = 1
    MaxReceipts = 0
SPECIFICATION Spec
SYMMETRY Symmetry
INVARIANT
    TypeOK
    CounterWithinCapacity
    OneJourneyPerSale
