--------------------------- MODULE MCSubscription ---------------------------
(* Instances of Subscription for TLC: short cycles, reminders a day apart. *)
EXTENDS Subscription

CONSTANTS m1, w1, w2, i1, i2

\* dunning.day1.hours, day3.hours and day7.hours, in days.
EarlyDunning == [day1 |-> 0, day3 |-> 0, day7 |-> 1]
=============================================================================
