----------------------------- MODULE MCFreight ------------------------------
(* Two parcels that do not fit together, two shipments, a bus for one of them. *)
EXTENDS Freight, TLC

CONSTANTS p1, p2, s1, s2, w1, w2

MCParcels == {p1, p2}
MCShipments == {s1, s2}
MCAgents == {w1, w2}
MCWeight == (p1 :> 1) @@ (p2 :> 2)
MCSameDest == (MCParcels \X MCShipments) \ {<<p2, s2>>}
MCMaxWeights == {1, 2}

Symmetry == Permutations(Agents)
=============================================================================
