---------------------------- MODULE MCTicketing ----------------------------
(***************************************************************************)
(* Instances of Ticketing for TLC.                                         *)
(* Life: one seat and one passenger, a trip that leaves while the model    *)
(* runs and a later one that only rebookings use: the races on one ticket. *)
(* Sales: two seats, two passengers, counter and portal on one trip: the   *)
(* races on the seats and on the batches.                                  *)
(***************************************************************************)
EXTENDS Ticketing, TLC

CONSTANTS r1, r2, tA, tB, s1, s2, p1, p2, w1, w2

MCRows == {r1, r2}
MCWorkers == {w1, w2}

LifeTrips == {tA, tB}
LifeSeats == {s1}
LifePassengers == {p1}
LifeOpen == (tA :> 1) @@ (tB :> 0)
LifeDeparture == (tA :> 1) @@ (tB :> 3)

SalesTrips == {tA}
SalesSeats == {s1, s2}
SalesPassengers == {p1, p2}
SalesOpen == (tA :> 2)
SalesDeparture == (tA :> 1)

Symmetry == Permutations(Rows) \cup Permutations(Seats) \cup Permutations(Passengers)
            \cup Permutations(Workers)
=============================================================================
