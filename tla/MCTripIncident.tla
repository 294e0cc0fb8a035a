--------------------------- MODULE MCTripIncident ---------------------------
(* Two tickets, two requests or deliveries at a time. *)
EXTENDS TripIncident, TLC

CONSTANTS t1, t2, w1, w2

MCTickets == {t1, t2}
MCWorkers == {w1, w2}
AllRoutes == {"dispatch", "service"}
WiredRoutes == {"dispatch"}

Symmetry == Permutations(Tickets) \cup Permutations(Workers)
=============================================================================
