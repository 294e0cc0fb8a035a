CONSTANTS
    t1 = t1
    t2 = t2
    f1 = f1
    v1 = v1
    g1 = g1
    g2 = g2
    a1 = a1
    a2 = a2
    w1 = w1
    w2 = w2
    None = None
    Tickets <- MCTickets
    Refunds <- MCRefunds
    Vouchers <- MCVouchers
    Registers <- MCRegisters
    Agencies <- MCAgencies
    SoldBy <- MCSoldBy
    Workers <- MCWorkers
    MaxVersion = 4
SPECIFICATION Spec
SYMMETRY Symmetry
CHECK_DEADLOCK FALSE
INVARIANT
    TypeOK
    RefundBookedOnce
    RedeemedIsBooked
PROPERTY
    ImplementsSettlement
