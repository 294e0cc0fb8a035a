----------------------------- MODULE MCPayment -----------------------------
(* Instances of Payment for TLC: small sets of threads.             *)
EXTENDS Payment

CONSTANTS c1, c2, w1, w2
=============================================================================
