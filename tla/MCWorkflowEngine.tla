-------------------------- MODULE MCWorkflowEngine --------------------------
(***************************************************************************)
(* Instances of WorkflowEngine for TLC: the start of the ticket blueprint  *)
(* (PENDING_PAYMENT -> CONFIRMED -> CHECKED_IN, CANCEL from both), a clerk *)
(* of an agency and a system actor without agency.                         *)
(***************************************************************************)
EXTENDS WorkflowEngine

CONSTANTS clerk, system, r1, r2, t1, t2, k1

MCStates == {"PENDING_PAYMENT", "CONFIRMED", "CANCELLED"}
MCActions == {"PAY", "CANCEL"}
MCPerms == {"data.ticket.create.agency", "data.ticket.cancel.tenant"}

Row(f, a, t, p) == [from |-> f, action |-> a, to |-> t, perm |-> p]
MCConfig == {
    Row("PENDING_PAYMENT", "PAY", "CONFIRMED", "data.ticket.create.agency"),
    Row("PENDING_PAYMENT", "CANCEL", "CANCELLED", "data.ticket.cancel.tenant"),
    Row("CONFIRMED", "CANCEL", "CANCELLED", "data.ticket.cancel.tenant")}

MCGranted == {clerk, system} \X MCPerms
MCAgencyPerms == {"data.ticket.create.agency"}
=============================================================================
