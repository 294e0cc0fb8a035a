CONSTANTS
    p1 = p1
    p2 = p2
    s1 = s1
    s2 = s2
    w1 = w1
    w2 = w2
    Nothing = Nothing
    Parcels <- MCParcels
    Shipments <- MCShipments
    Weight <- MCWeight
    SameDest <- MCSameDest
    MaxWeights <- MCMaxWeights
    Agents <- MCAgents
    BusCapacity = 3
    MaxMoves = 3
SPECIFICATION FreightSpec
SYMMETRY Symmetry
CHECK_DEADLOCK FALSE
INVARIANT
    FreightTypeOK
    WeightConserved
    CapacityRespected
