---------------------------- MODULE MCAfterSales ----------------------------
(* Two tickets, one sold by an agency and one on the portal, two agencies. *)
EXTENDS AfterSales, TLC

CONSTANTS t1, t2, f1, v1, g1, g2, a1, a2, w1, w2

MCTickets == {t1, t2}
MCRefunds == {f1}
MCVouchers == {v1}
MCRegisters == {g1, g2}
MCAgencies == {a1, a2}
MCWorkers == {w1, w2}
MCSoldBy == (t1 :> a1) @@ (t2 :> None)

Symmetry == Permutations(Registers) \cup Permutations(Workers)
=============================================================================
