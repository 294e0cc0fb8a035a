------------------------------ MODULE MCOutbox ------------------------------
(***************************************************************************)
(* Instances of Outbox for TLC.  Two payloads: {tripId, passengerName},    *)
(* whose fields jsonb keeps in place, and the same fields published in the *)
(* other order, which it rearranges.                                       *)
(***************************************************************************)
EXTENDS Outbox

CONSTANTS e1, e2, p1, p2, h1, h2

Canonical == <<"tripId", "passengerName">>
Reordered == <<"passengerName", "tripId">>
MCFieldRank == [f \in {"tripId", "passengerName"} |-> IF f = "tripId" THEN 1 ELSE 2]

BothPayloads == {Canonical, Reordered}
=============================================================================
