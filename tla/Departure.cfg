CONSTANTS
    t1 = t1
    w1 = w1
    w2 = w2
    Trip = Trip
    Manifest = Manifest
    None = None
    Tickets <- MCTickets
    Workers <- MCWorkers
    MaxVersion = 7
SPECIFICATION Spec
SYMMETRY Symmetry
CHECK_DEADLOCK FALSE
INVARIANT
    TypeOK
    DriverDepartsSigned
PROPERTY
    BlueprintRespected
