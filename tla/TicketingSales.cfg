CONSTANTS
    r1 = r1
    r2 = r2
    tA = tA
    tB = tB
    s1 = s1
    s2 = s2
    p1 = p1
    p2 = p2
    w1 = w1
    w2 = w2
    None = None
    Rows <- MCRows
    Workers <- MCWorkers
    Trips <- SalesTrips
    Seats <- SalesSeats
    Passengers <- SalesPassengers
    MaxSeatsOpen <- SalesOpen
    Departure <- SalesDeparture
    Bookable <- SalesTrips
    Permitted = {"PAY", "CANCEL"}
    PayTtl = 1
    Grace = 0
    TicketTtl = 0
    MaxClock = 0
    MaxKeyed = 1
    MaxAsked = 0
    MaxReceipts = 1
SPECIFICATION Spec
SYMMETRY Symmetry
INVARIANT
    CounterSeatsUnique
    ReceiptMeansPaid
