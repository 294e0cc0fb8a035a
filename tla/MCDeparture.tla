---------------------------- MODULE MCDeparture -----------------------------
(* One passenger, two requests at a time. *)
EXTENDS Departure, TLC

CONSTANTS t1, w1, w2

MCTickets == {t1}
MCWorkers == {w1, w2}

Symmetry == Permutations(Workers)
=============================================================================
