----------------------------- MODULE Settlement -----------------------------
(***************************************************************************)
(* What the services after the sale promise of a refund: it is decided     *)
(* once, and settled in one way.  The money leaves the books with the last *)
(* decision, or one voucher makes up for a rejection; neither is taken     *)
(* back, unless an agency is deleted with its books.  No requests, locks   *)
(* or registers here: AfterSales implements it.                            *)
(***************************************************************************)
CONSTANTS Refunds, Vouchers

VARIABLES
    fate,     \* fate[f]  : Refund.status, "absent" before it is asked for
    paid,     \* paid[f]  : its money has left the books
    madeUp,   \* madeUp[f]: vouchers issued for its rejection
    purged    \* an agency was deleted, with the bookings on its registers

settlementVars == <<fate, paid, madeUp, purged>>

SInit ==
    /\ fate = [f \in Refunds |-> "absent"]
    /\ paid = [f \in Refunds |-> FALSE]
    /\ madeUp = [f \in Refunds |-> {}]
    /\ purged = FALSE

Becomes(f, from, to) ==
    /\ fate[f] \in from
    /\ fate' = [fate EXCEPT ![f] = to]

Ask(f) == Becomes(f, {"absent"}, "PENDING") /\ UNCHANGED <<paid, madeUp, purged>>

Approve(f) == Becomes(f, {"PENDING"}, "APPROVED") /\ UNCHANGED <<paid, madeUp, purged>>

Reject(f) == Becomes(f, {"PENDING", "APPROVED"}, "REJECTED") /\ UNCHANGED <<paid, madeUp, purged>>

\* Without any agency left to book it on, the decision stands alone.
Pay(f) ==
    /\ Becomes(f, {"APPROVED"}, "PROCESSED")
    /\ ~paid[f]
    /\ \/ paid' = [paid EXCEPT ![f] = TRUE]
       \/ purged /\ UNCHANGED paid
    /\ UNCHANGED <<madeUp, purged>>

MakeUp(f, v) ==
    /\ fate[f] = "REJECTED" /\ madeUp[f] = {}
    /\ madeUp' = [madeUp EXCEPT ![f] = {v}]
    /\ UNCHANGED <<fate, paid, purged>>

Purge ==
    /\ purged' = TRUE
    /\ \E gone \in SUBSET Refunds : paid' = [f \in Refunds |-> paid[f] /\ f \notin gone]
    /\ UNCHANGED <<fate, madeUp>>

SNext ==
    \/ \E f \in Refunds : \/ Ask(f) \/ Approve(f) \/ Reject(f) \/ Pay(f)
                         \/ \E v \in Vouchers : MakeUp(f, v)
    \/ Purge

SSpec == SInit /\ [][SNext]_settlementVars
=============================================================================
